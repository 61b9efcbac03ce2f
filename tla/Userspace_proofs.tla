-------------------------- MODULE Userspace_proofs --------------------------
(***************************************************************************)
(* Theorems about two of omdrop's programs, for any number of processes.   *)
(*                                                                         *)
(* Window, for every set of starts, stops and helpers: type correctness,   *)
(* and every safety property, some of them until a start is overtaken as   *)
(* `raced` records.  The argument is one inductive invariant: till then the*)
(* flock singles out one start, a start past its supervisor_alive check    *)
(* faces no other booted supervisor, and a booted supervisor is the        *)
(* recorded one.                                                           *)
(*                                                                         *)
(* Identity, for any programs, fetches and disks, with programs killed     *)
(* anywhere: type correctness, that the self-signed pair is one maker's,   *)
(* whole and permanent, and that every answer is the contract's for what   *)
(* the program read.                                                       *)
(***************************************************************************)
EXTENDS Window, Identity, TLAPS

\* The supervisors past their token check.
Booted == {q \in AliveSups : sup[q] # "entry"}

LockInv == \A s \in Starts : start[s] \in Running <=> lock = s

NotSpawned ==
  \A s \in Starts :
    start[s] \in ({"idle"} \cup Running) \ {"poll"} => sup[s] = "off" /\ token # s /\ supFile # s

\* omdrop-core's supervisor is alone, and no start is past its test for it.
CoreInv ==
  /\ sup[Core] \in {"off", "loop", "gone"}
  /\ "core" \notin raced /\ Core \in AliveSups =>
       AliveSups = {Core} /\ \A s \in Starts : start[s] \notin Checked

\* What holds whatever overtakes what.
BaseInv == LockInv /\ NotSpawned /\ CoreInv

\* The token opens the door only while its start is waiting.
TokenInv == \A s \in Starts : sup[s] = "entry" /\ token = s => start[s] = "poll"

BootInv == \A s \in Starts : sup[s] \in {"claim", "boot"} => start[s] = "poll"

StopInv == (\E p \in Stops : stop[p] \in {"cancel", "clear"}) => AliveSups \subseteq {Core}

RecordedInv == \A q \in Booted \ {Core} : sup[q] \notin {"claim", "boot"} => supFile = q

FileInv == supFile # None => sup[supFile] \notin {"off", "entry", "claim", "boot"}

\* Past supervisor_alive a start meets no supervisor but its own.
QuietInv ==
  \A s \in Starts : start[s] \in Checked \ {"check", "extend"} => Booted \subseteq {s}

OwnInv ==
  /\ \A s \in Starts : start[s] \in {"spawn", "poll"} => opened = s
  /\ \A q \in Booted : opened = q

\* What holds until a process overtakes a start.
CalmInv ==
  TokenInv /\ BootInv /\ StopInv /\ RecordedInv /\ FileInv /\ QuietInv /\ OwnInv

IInv == BaseInv /\ (raced = {} => CalmInv)

\* A recorded child is in the list its supervisor's teardown will read, or in
\* one that a teardown is working off, unless a list was lost.
Listed(s, h) == \E q \in Starts : sup[q] = "kill" /\ <<s, h>> \in dying[q]
ChildInv ==
  \A s \in Starts, h \in Helpers : child[s][h] = "recorded" =>
    \/ s \in cut
    \/ sup[s] \in {"fork", "record", "loop", "reap"} /\ <<s, h>> \in pids
    \/ Listed(s, h)

\* What a stop has waited for stays ended.
Over(s) ==
  /\ sup[s] = "gone"
  /\ s \in Starts => \A h \in Helpers : child[s][h] = "recorded" => s \in cut
BeforeInv ==
  \A p \in Stops : stop[p] \in {"cancel", "clear"} => \A s \in before[p] : Over(s)

-----------------------------------------------------------------------------
(* Type correctness *)
LEMMA TypeInit == Init => TypeOK
  BY SecsAssumption DEF Init, TypeOK, Sups, Deadlines, hist

LEMMA TypeStep == TypeOK /\ [Next]_vars => TypeOK'
<1> SUFFICES ASSUME TypeOK, [Next]_vars PROVE TypeOK'
  OBVIOUS
<1> USE SecsAssumption, NamesAssumption
        DEF TypeOK, Sups, Deadlines, Secs, Running, Ended, Untrapped, Trapped
<1>1. ASSUME NEW s \in Starts, Begin(s) PROVE TypeOK'
  BY <1>1 DEF Begin, Goto, files, procs, hist, AliveSups
<1>2. ASSUME NEW s \in Starts, BeginBusy(s) PROVE TypeOK'
  BY <1>2 DEF BeginBusy, Goto, files, procs, hist, AliveSups
<1>3. ASSUME NEW s \in Starts, CheckCore(s) PROVE TypeOK'
  BY <1>3 DEF CheckCore, Goto, Leave, files, procs, hist, AliveSups
<1>4. ASSUME NEW s \in Starts, CheckAlive(s) PROVE TypeOK'
  BY <1>4 DEF CheckAlive, Goto, SupervisorAlive, files, procs, hist, AliveSups
<1>5. ASSUME NEW s \in Starts, Extend(s) PROVE TypeOK'
  BY <1>5 DEF Extend, Goto, Leave, files, procs, hist, AliveSups
<1>6. ASSUME NEW s \in Starts, Reap(s) PROVE TypeOK'
  BY <1>6 DEF Reap, Goto, Killed, files, procs, hist, AliveSups
<1>7. ASSUME NEW s \in Starts, GateOpens(s) PROVE TypeOK'
  BY <1>7 DEF GateOpens, Goto, files, procs, hist, AliveSups
<1>8. ASSUME NEW s \in Starts, GateFails(s) PROVE TypeOK'
  BY <1>8 DEF GateFails, Goto, Leave, files, procs, hist, AliveSups
<1>9. ASSUME NEW s \in Starts, WriteWindow(s) PROVE TypeOK'
  BY <1>9 DEF WriteWindow, Goto, files, procs, hist, AliveSups
<1>10. ASSUME NEW s \in Starts, Spawn(s) PROVE TypeOK'
  BY <1>10 DEF Spawn, Goto, StopRunning, files, procs, hist, AliveSups
<1>11. ASSUME NEW s \in Starts, PollUp(s) PROVE TypeOK'
  BY <1>11 DEF PollUp, Goto, Leave, SupervisorAlive, files, procs, hist, AliveSups
<1>12. ASSUME NEW s \in Starts, GiveUp(s) PROVE TypeOK'
  BY <1>12 DEF GiveUp, Goto, Leave, SupervisorAlive, AfterToken, Trapped, files, procs,
      hist, AliveSups
<1>13. ASSUME NEW s \in Starts, ReadToken(s) PROVE TypeOK'
  BY <1>13 DEF ReadToken, Runs, SupGoto, files, procs, hist, AliveSups
<1>14. ASSUME NEW s \in Starts, RemoveToken(s) PROVE TypeOK'
  BY <1>14 DEF RemoveToken, Runs, SupGoto, files, procs, hist, AliveSups
<1>15. ASSUME NEW s \in Starts, Boot(s) PROVE TypeOK'
  BY <1>15 DEF Boot, Runs, SupGoto, files, procs, hist, AliveSups
<1>16. ASSUME NEW s \in Starts, Fork(s) PROVE TypeOK'
  BY <1>16 DEF Fork, Runs, SupGoto, files, procs, hist, AliveSups
<1>17. ASSUME NEW s \in Starts, Record(s) PROVE TypeOK'
  BY <1>17 DEF Record, Runs, SupGoto, files, procs, hist, AliveSups
<1>18. ASSUME NEW s \in Starts, LoopEnds(s) PROVE TypeOK'
  BY <1>18 DEF LoopEnds, WindowOpen, Runs, SupGoto, files, procs, hist, AliveSups
<1>19. ASSUME NEW s \in Starts, TakePids(s) PROVE TypeOK'
  BY <1>19 DEF TakePids, Runs, SupGoto, files, procs, hist, AliveSups
<1>20. ASSUME NEW s \in Starts, KillTaken(s) PROVE TypeOK'
  BY <1>20 DEF KillTaken, Killed, Runs, SupGoto, files, procs, hist, AliveSups
<1>21. ASSUME NEW s \in Starts, Report(s) PROVE TypeOK'
  BY <1>21 DEF Report, Runs, SupGoto, files, procs, hist, AliveSups
<1>22. ASSUME NEW s \in Starts, Clear(s) PROVE TypeOK'
  BY <1>22 DEF Clear, Runs, SupGoto, files, procs, hist, AliveSups
<1>23. ASSUME NEW s \in Starts, TermEarly(s) PROVE TypeOK'
  BY <1>23 DEF TermEarly, Untrapped, SupGoto, files, procs, hist, AliveSups
<1>24. ASSUME NEW s \in Starts, Trap(s) PROVE TypeOK'
  BY <1>24 DEF Trap, Owners, Trapped, SupGoto, files, procs, hist, AliveSups
<1>25. ASSUME NEW p \in Stops, StopTerm(p) PROVE TypeOK'
  BY <1>25 DEF StopTerm, StopGoto, files, procs, hist, AliveSups
<1>26. ASSUME NEW p \in Stops, StopGone(p) PROVE TypeOK'
  BY <1>26 DEF StopGone, Waited, StopGoto, files, procs, hist, AliveSups
<1>27. ASSUME NEW p \in Stops, StopKill(p) PROVE TypeOK'
  BY <1>27 DEF StopKill, Waited, Killed, Owners, StopGoto, files, procs, hist, AliveSups
<1>28. ASSUME NEW p \in Stops, StopCancel(p) PROVE TypeOK'
  BY <1>28 DEF StopCancel, StopGoto, files, procs, hist, AliveSups
<1>29. ASSUME NEW p \in Stops, StopClear(p) PROVE TypeOK'
  BY <1>29 DEF StopClear, StopGoto, files, procs, hist, AliveSups
<1>30. ASSUME Tick PROVE TypeOK'
  BY <1>30 DEF Tick, files, procs, hist, AliveSups
<1>31. ASSUME CoreOpen PROVE TypeOK'
  BY <1>31 DEF CoreOpen, StopRunning, SupGoto, files, procs, hist, AliveSups
<1>32. ASSUME CoreEnd PROVE TypeOK'
  BY <1>32 DEF CoreEnd, WindowOpen, SupGoto, files, procs, hist, AliveSups
<1>33. CASE UNCHANGED vars
  BY <1>33 DEF vars, files, procs, hist, AliveSups
<1> QED
  BY <1>1, <1>2, <1>3, <1>4, <1>5, <1>6, <1>7, <1>8, <1>9, <1>10, <1>11, <1>12, <1>13, <1>14,
     <1>15, <1>16, <1>17, <1>18, <1>19, <1>20, <1>21, <1>22, <1>23, <1>24, <1>25, <1>26, <1>27,
     <1>28, <1>29, <1>30, <1>31, <1>32, <1>33 DEF Next, StartStep, SupStep, StopStep

(* Every variable keeps its type, whatever the interleaving. *)
THEOREM TypeCorrect == Spec => []TypeOK
<1> QED
  BY TypeInit, TypeStep, PTL DEF Spec

-----------------------------------------------------------------------------
(* The inductive invariant *)
LEMMA InvInit == Init => IInv /\ ChildInv /\ BeforeInv
<1> SUFFICES ASSUME Init PROVE IInv /\ ChildInv /\ BeforeInv
  OBVIOUS
<1> USE NamesAssumption DEF Init, Sups, AliveSups, Booted, Running, Checked
<1>1. BaseInv
  BY DEF BaseInv, LockInv, NotSpawned, CoreInv
<1>2. CalmInv
  BY DEF CalmInv, TokenInv, BootInv, StopInv, RecordedInv, FileInv, QuietInv, OwnInv
<1>3. ChildInv /\ BeforeInv
  BY DEF ChildInv, BeforeInv
<1> QED
  BY <1>1, <1>2, <1>3 DEF IInv

LEMMA RacesStay == [Next]_vars => raced \subseteq raced'
<1> SUFFICES ASSUME [Next]_vars PROVE raced \subseteq raced'
  OBVIOUS
<1>1. ASSUME NEW s \in Starts, Begin(s) PROVE raced \subseteq raced'
  BY <1>1 DEF Begin, Goto, files, procs, hist
<1>2. ASSUME NEW s \in Starts, BeginBusy(s) PROVE raced \subseteq raced'
  BY <1>2 DEF BeginBusy, Goto, files, procs, hist
<1>3. ASSUME NEW s \in Starts, CheckCore(s) PROVE raced \subseteq raced'
  BY <1>3 DEF CheckCore, Goto, Leave, files, procs, hist
<1>4. ASSUME NEW s \in Starts, CheckAlive(s) PROVE raced \subseteq raced'
  BY <1>4 DEF CheckAlive, Goto, SupervisorAlive, files, procs, hist
<1>5. ASSUME NEW s \in Starts, Extend(s) PROVE raced \subseteq raced'
  BY <1>5 DEF Extend, Goto, Leave, files, procs, hist
<1>6. ASSUME NEW s \in Starts, Reap(s) PROVE raced \subseteq raced'
  BY <1>6 DEF Reap, Goto, Killed, files, procs, hist
<1>7. ASSUME NEW s \in Starts, GateOpens(s) PROVE raced \subseteq raced'
  BY <1>7 DEF GateOpens, Goto, files, procs, hist
<1>8. ASSUME NEW s \in Starts, GateFails(s) PROVE raced \subseteq raced'
  BY <1>8 DEF GateFails, Goto, Leave, files, procs, hist
<1>9. ASSUME NEW s \in Starts, WriteWindow(s) PROVE raced \subseteq raced'
  BY <1>9 DEF WriteWindow, Goto, files, procs, hist
<1>10. ASSUME NEW s \in Starts, Spawn(s) PROVE raced \subseteq raced'
  BY <1>10 DEF Spawn, Goto, StopRunning, files, procs, hist
<1>11. ASSUME NEW s \in Starts, PollUp(s) PROVE raced \subseteq raced'
  BY <1>11 DEF PollUp, Goto, Leave, SupervisorAlive, files, procs, hist
<1>12. ASSUME NEW s \in Starts, GiveUp(s) PROVE raced \subseteq raced'
  BY <1>12 DEF GiveUp, Goto, Leave, SupervisorAlive, AfterToken, Trapped, files, procs, hist
<1>13. ASSUME NEW s \in Starts, ReadToken(s) PROVE raced \subseteq raced'
  BY <1>13 DEF ReadToken, Runs, SupGoto, files, procs, hist
<1>14. ASSUME NEW s \in Starts, RemoveToken(s) PROVE raced \subseteq raced'
  BY <1>14 DEF RemoveToken, Runs, SupGoto, files, procs, hist
<1>15. ASSUME NEW s \in Starts, Boot(s) PROVE raced \subseteq raced'
  BY <1>15 DEF Boot, Runs, SupGoto, files, procs, hist
<1>16. ASSUME NEW s \in Starts, Fork(s) PROVE raced \subseteq raced'
  BY <1>16 DEF Fork, Runs, SupGoto, files, procs, hist
<1>17. ASSUME NEW s \in Starts, Record(s) PROVE raced \subseteq raced'
  BY <1>17 DEF Record, Runs, SupGoto, files, procs, hist
<1>18. ASSUME NEW s \in Starts, LoopEnds(s) PROVE raced \subseteq raced'
  BY <1>18 DEF LoopEnds, WindowOpen, Runs, SupGoto, files, procs, hist
<1>19. ASSUME NEW s \in Starts, TakePids(s) PROVE raced \subseteq raced'
  BY <1>19 DEF TakePids, Runs, SupGoto, files, procs, hist
<1>20. ASSUME NEW s \in Starts, KillTaken(s) PROVE raced \subseteq raced'
  BY <1>20 DEF KillTaken, Killed, Runs, SupGoto, files, procs, hist
<1>21. ASSUME NEW s \in Starts, Report(s) PROVE raced \subseteq raced'
  BY <1>21 DEF Report, Runs, SupGoto, files, procs, hist
<1>22. ASSUME NEW s \in Starts, Clear(s) PROVE raced \subseteq raced'
  BY <1>22 DEF Clear, Runs, SupGoto, files, procs, hist
<1>23. ASSUME NEW s \in Starts, TermEarly(s) PROVE raced \subseteq raced'
  BY <1>23 DEF TermEarly, Untrapped, SupGoto, files, procs, hist
<1>24. ASSUME NEW s \in Starts, Trap(s) PROVE raced \subseteq raced'
  BY <1>24 DEF Trap, Owners, Trapped, SupGoto, files, procs, hist
<1>25. ASSUME NEW p \in Stops, StopTerm(p) PROVE raced \subseteq raced'
  BY <1>25 DEF StopTerm, StopGoto, files, procs, hist
<1>26. ASSUME NEW p \in Stops, StopGone(p) PROVE raced \subseteq raced'
  BY <1>26 DEF StopGone, Waited, StopGoto, files, procs, hist
<1>27. ASSUME NEW p \in Stops, StopKill(p) PROVE raced \subseteq raced'
  BY <1>27 DEF StopKill, Waited, Killed, Owners, StopGoto, files, procs, hist
<1>28. ASSUME NEW p \in Stops, StopCancel(p) PROVE raced \subseteq raced'
  BY <1>28 DEF StopCancel, StopGoto, files, procs, hist
<1>29. ASSUME NEW p \in Stops, StopClear(p) PROVE raced \subseteq raced'
  BY <1>29 DEF StopClear, StopGoto, files, procs, hist
<1>30. ASSUME Tick PROVE raced \subseteq raced'
  BY <1>30 DEF Tick, files, procs, hist
<1>31. ASSUME CoreOpen PROVE raced \subseteq raced'
  BY <1>31 DEF CoreOpen, StopRunning, SupGoto, files, procs, hist
<1>32. ASSUME CoreEnd PROVE raced \subseteq raced'
  BY <1>32 DEF CoreEnd, WindowOpen, SupGoto, files, procs, hist
<1>33. CASE UNCHANGED vars
  BY <1>33 DEF vars, files, procs, hist
<1> QED
  BY <1>1, <1>2, <1>3, <1>4, <1>5, <1>6, <1>7, <1>8, <1>9, <1>10, <1>11, <1>12, <1>13, <1>14,
     <1>15, <1>16, <1>17, <1>18, <1>19, <1>20, <1>21, <1>22, <1>23, <1>24, <1>25, <1>26, <1>27,
     <1>28, <1>29, <1>30, <1>31, <1>32, <1>33 DEF Next, StartStep, SupStep, StopStep

LEMMA BaseStep == TypeOK /\ BaseInv /\ [Next]_vars => BaseInv'
<1> SUFFICES ASSUME TypeOK, BaseInv, [Next]_vars PROVE BaseInv'
  OBVIOUS
<1> USE NamesAssumption
    DEF TypeOK, Sups, AliveSups, Running, Checked, BaseInv, LockInv, NotSpawned, CoreInv
<1>1. ASSUME NEW s \in Starts, Begin(s) PROVE BaseInv'
  BY <1>1 DEF Begin, Goto, files, procs, hist
<1>2. ASSUME NEW s \in Starts, BeginBusy(s) PROVE BaseInv'
  BY <1>2 DEF BeginBusy, Goto, files, procs, hist
<1>3. ASSUME NEW s \in Starts, CheckCore(s) PROVE BaseInv'
  <2>1. CASE Core \in AliveSups
    <3>1. /\ start[s] = "locked" /\ start' = [start EXCEPT ![s] = "exit5"] /\ lock' = None
          /\ UNCHANGED <<sup, token, supFile, raced>> /\ AliveSups' = AliveSups
      BY <1>3, <2>1 DEF CheckCore, Goto, Leave, files, hist
    <3> HIDE DEF AliveSups
    <3>2. LockInv' /\ NotSpawned'
      BY <3>1
    <3>3. CoreInv'
      BY <3>1
    <3> QED
      BY <3>2, <3>3
  <2>2. CASE Core \notin AliveSups
    BY <1>3, <2>2 DEF CheckCore, Goto, Leave, files, procs, hist
  <2> QED
    BY <2>1, <2>2
<1>4. ASSUME NEW s \in Starts, CheckAlive(s) PROVE BaseInv'
  BY <1>4 DEF CheckAlive, Goto, SupervisorAlive, files, procs, hist
<1>5. ASSUME NEW s \in Starts, Extend(s) PROVE BaseInv'
  BY <1>5 DEF Extend, Goto, Leave, files, procs, hist
<1>6. ASSUME NEW s \in Starts, Reap(s) PROVE BaseInv'
  BY <1>6 DEF Reap, Goto, Killed, files, procs, hist
<1>7. ASSUME NEW s \in Starts, GateOpens(s) PROVE BaseInv'
  BY <1>7 DEF GateOpens, Goto, files, procs, hist
<1>8. ASSUME NEW s \in Starts, GateFails(s) PROVE BaseInv'
  BY <1>8 DEF GateFails, Goto, Leave, files, procs, hist
<1>9. ASSUME NEW s \in Starts, WriteWindow(s) PROVE BaseInv'
  BY <1>9 DEF WriteWindow, Goto, files, procs, hist
<1>10. ASSUME NEW s \in Starts, Spawn(s) PROVE BaseInv'
  BY <1>10 DEF Spawn, Goto, StopRunning, files, procs, hist
<1>11. ASSUME NEW s \in Starts, PollUp(s) PROVE BaseInv'
  BY <1>11 DEF PollUp, Goto, Leave, SupervisorAlive, files, procs, hist
<1>12. ASSUME NEW s \in Starts, GiveUp(s) PROVE BaseInv'
  BY <1>12 DEF GiveUp, Goto, Leave, SupervisorAlive, AfterToken, Trapped, files, procs, hist
<1>13. ASSUME NEW s \in Starts, ReadToken(s) PROVE BaseInv'
  BY <1>13 DEF ReadToken, Runs, SupGoto, files, procs, hist
<1>14. ASSUME NEW s \in Starts, RemoveToken(s) PROVE BaseInv'
  BY <1>14 DEF RemoveToken, Runs, SupGoto, files, procs, hist
<1>15. ASSUME NEW s \in Starts, Boot(s) PROVE BaseInv'
  BY <1>15 DEF Boot, Runs, SupGoto, files, procs, hist
<1>16. ASSUME NEW s \in Starts, Fork(s) PROVE BaseInv'
  BY <1>16 DEF Fork, Runs, SupGoto, files, procs, hist
<1>17. ASSUME NEW s \in Starts, Record(s) PROVE BaseInv'
  BY <1>17 DEF Record, Runs, SupGoto, files, procs, hist
<1>18. ASSUME NEW s \in Starts, LoopEnds(s) PROVE BaseInv'
  BY <1>18 DEF LoopEnds, WindowOpen, Runs, SupGoto, files, procs, hist
<1>19. ASSUME NEW s \in Starts, TakePids(s) PROVE BaseInv'
  BY <1>19 DEF TakePids, Runs, SupGoto, files, procs, hist
<1>20. ASSUME NEW s \in Starts, KillTaken(s) PROVE BaseInv'
  BY <1>20 DEF KillTaken, Killed, Runs, SupGoto, files, procs, hist
<1>21. ASSUME NEW s \in Starts, Report(s) PROVE BaseInv'
  BY <1>21 DEF Report, Runs, SupGoto, files, procs, hist
<1>22. ASSUME NEW s \in Starts, Clear(s) PROVE BaseInv'
  BY <1>22 DEF Clear, Runs, SupGoto, files, procs, hist
<1>23. ASSUME NEW s \in Starts, TermEarly(s) PROVE BaseInv'
  BY <1>23 DEF TermEarly, Untrapped, SupGoto, files, procs, hist
<1>24. ASSUME NEW s \in Starts, Trap(s) PROVE BaseInv'
  BY <1>24 DEF Trap, Owners, Trapped, SupGoto, files, procs, hist
<1>25. ASSUME NEW p \in Stops, StopTerm(p) PROVE BaseInv'
  BY <1>25 DEF StopTerm, StopGoto, files, procs, hist
<1>26. ASSUME NEW p \in Stops, StopGone(p) PROVE BaseInv'
  BY <1>26 DEF StopGone, Waited, StopGoto, files, procs, hist
<1>27. ASSUME NEW p \in Stops, StopKill(p) PROVE BaseInv'
  BY <1>27 DEF StopKill, Waited, Killed, Owners, StopGoto, files, procs, hist
<1>28. ASSUME NEW p \in Stops, StopCancel(p) PROVE BaseInv'
  BY <1>28 DEF StopCancel, StopGoto, files, procs, hist
<1>29. ASSUME NEW p \in Stops, StopClear(p) PROVE BaseInv'
  BY <1>29 DEF StopClear, StopGoto, files, procs, hist
<1>30. ASSUME Tick PROVE BaseInv'
  BY <1>30 DEF Tick, files, procs, hist
<1>31. ASSUME CoreOpen PROVE BaseInv'
  BY <1>31 DEF CoreOpen, StopRunning, SupGoto, files, procs, hist
<1>32. ASSUME CoreEnd PROVE BaseInv'
  BY <1>32 DEF CoreEnd, WindowOpen, SupGoto, files, procs, hist
<1>33. CASE UNCHANGED vars
  BY <1>33 DEF vars, files, procs, hist
<1> QED
  BY <1>1, <1>2, <1>3, <1>4, <1>5, <1>6, <1>7, <1>8, <1>9, <1>10, <1>11, <1>12, <1>13, <1>14,
     <1>15, <1>16, <1>17, <1>18, <1>19, <1>20, <1>21, <1>22, <1>23, <1>24, <1>25, <1>26, <1>27,
     <1>28, <1>29, <1>30, <1>31, <1>32, <1>33 DEF Next, StartStep, SupStep, StopStep

LEMMA CalmKept ==
  ASSUME TypeOK, BaseInv, CalmInv, [Next]_vars, raced = {}, raced' = {}
  PROVE  CalmInv'
<1> USE NamesAssumption
    DEF TypeOK, Sups, Running, Checked, BaseInv, LockInv, NotSpawned, CoreInv,
        CalmInv, Booted, AliveSups, TokenInv, BootInv, StopInv, RecordedInv, FileInv,
        QuietInv, OwnInv
<1>1. ASSUME NEW s \in Starts, Begin(s) PROVE CalmInv'
  BY <1>1 DEF Begin, Goto, files, procs, hist
<1>2. ASSUME NEW s \in Starts, BeginBusy(s) PROVE CalmInv'
  BY <1>2 DEF BeginBusy, Goto, files, procs, hist
<1>3. ASSUME NEW s \in Starts, CheckCore(s) PROVE CalmInv'
  BY <1>3 DEF CheckCore, Goto, Leave, files, procs, hist
<1>4. ASSUME NEW s \in Starts, CheckAlive(s) PROVE CalmInv'
  BY <1>4 DEF CheckAlive, Goto, SupervisorAlive, files, procs, hist
<1>5. ASSUME NEW s \in Starts, Extend(s) PROVE CalmInv'
  BY <1>5 DEF Extend, Goto, Leave, files, procs, hist
<1>6. ASSUME NEW s \in Starts, Reap(s) PROVE CalmInv'
  BY <1>6 DEF Reap, Goto, Killed, files, procs, hist
<1>7. ASSUME NEW s \in Starts, GateOpens(s) PROVE CalmInv'
  BY <1>7 DEF GateOpens, Goto, files, procs, hist
<1>8. ASSUME NEW s \in Starts, GateFails(s) PROVE CalmInv'
  BY <1>8 DEF GateFails, Goto, Leave, files, procs, hist
<1>9. ASSUME NEW s \in Starts, WriteWindow(s) PROVE CalmInv'
  BY <1>9 DEF WriteWindow, Goto, files, procs, hist
<1>10. ASSUME NEW s \in Starts, Spawn(s) PROVE CalmInv'
  BY <1>10 DEF Spawn, Goto, StopRunning, files, procs, hist
<1>11. ASSUME NEW s \in Starts, PollUp(s) PROVE CalmInv'
  BY <1>11 DEF PollUp, Goto, Leave, SupervisorAlive, files, procs, hist
<1>12. ASSUME NEW s \in Starts, GiveUp(s) PROVE CalmInv'
  BY <1>12 DEF GiveUp, Goto, Leave, SupervisorAlive, AfterToken, Trapped, files, procs, hist
<1>13. ASSUME NEW s \in Starts, ReadToken(s) PROVE CalmInv'
  BY <1>13 DEF ReadToken, Runs, SupGoto, files, procs, hist
<1>14. ASSUME NEW s \in Starts, RemoveToken(s) PROVE CalmInv'
  BY <1>14 DEF RemoveToken, Runs, SupGoto, files, procs, hist
<1>15. ASSUME NEW s \in Starts, Boot(s) PROVE CalmInv'
  BY <1>15 DEF Boot, Runs, SupGoto, files, procs, hist
<1>16. ASSUME NEW s \in Starts, Fork(s) PROVE CalmInv'
  BY <1>16 DEF Fork, Runs, SupGoto, files, procs, hist
<1>17. ASSUME NEW s \in Starts, Record(s) PROVE CalmInv'
  BY <1>17 DEF Record, Runs, SupGoto, files, procs, hist
<1>18. ASSUME NEW s \in Starts, LoopEnds(s) PROVE CalmInv'
  BY <1>18 DEF LoopEnds, WindowOpen, Runs, SupGoto, files, procs, hist
<1>19. ASSUME NEW s \in Starts, TakePids(s) PROVE CalmInv'
  BY <1>19 DEF TakePids, Runs, SupGoto, files, procs, hist
<1>20. ASSUME NEW s \in Starts, KillTaken(s) PROVE CalmInv'
  BY <1>20 DEF KillTaken, Killed, Runs, SupGoto, files, procs, hist
<1>21. ASSUME NEW s \in Starts, Report(s) PROVE CalmInv'
  BY <1>21 DEF Report, Runs, SupGoto, files, procs, hist
<1>22. ASSUME NEW s \in Starts, Clear(s) PROVE CalmInv'
  BY <1>22 DEF Clear, Runs, SupGoto, files, procs, hist
<1>23. ASSUME NEW s \in Starts, TermEarly(s) PROVE CalmInv'
  BY <1>23 DEF TermEarly, Untrapped, SupGoto, files, procs, hist
<1>24. ASSUME NEW s \in Starts, Trap(s) PROVE CalmInv'
  BY <1>24 DEF Trap, Owners, Trapped, SupGoto, files, procs, hist
<1>25. ASSUME NEW p \in Stops, StopTerm(p) PROVE CalmInv'
  BY <1>25 DEF StopTerm, StopGoto, files, procs, hist
<1>26. ASSUME NEW p \in Stops, StopGone(p) PROVE CalmInv'
  BY <1>26 DEF StopGone, Waited, StopGoto, files, procs, hist
<1>27. ASSUME NEW p \in Stops, StopKill(p) PROVE CalmInv'
  BY <1>27 DEF StopKill, Waited, Killed, Owners, StopGoto, files, procs, hist
<1>28. ASSUME NEW p \in Stops, StopCancel(p) PROVE CalmInv'
  BY <1>28 DEF StopCancel, StopGoto, files, procs, hist
<1>29. ASSUME NEW p \in Stops, StopClear(p) PROVE CalmInv'
  BY <1>29 DEF StopClear, StopGoto, files, procs, hist
<1>30. ASSUME Tick PROVE CalmInv'
  BY <1>30 DEF Tick, files, procs, hist
<1>31. ASSUME CoreOpen PROVE CalmInv'
  BY <1>31 DEF CoreOpen, StopRunning, SupGoto, files, procs, hist
<1>32. ASSUME CoreEnd PROVE CalmInv'
  BY <1>32 DEF CoreEnd, WindowOpen, SupGoto, files, procs, hist
<1>33. CASE UNCHANGED vars
  BY <1>33 DEF vars, files, procs, hist
<1> QED
  BY <1>1, <1>2, <1>3, <1>4, <1>5, <1>6, <1>7, <1>8, <1>9, <1>10, <1>11, <1>12, <1>13, <1>14,
     <1>15, <1>16, <1>17, <1>18, <1>19, <1>20, <1>21, <1>22, <1>23, <1>24, <1>25, <1>26, <1>27,
     <1>28, <1>29, <1>30, <1>31, <1>32, <1>33 DEF Next, StartStep, SupStep, StopStep

LEMMA InvStep == TypeOK /\ IInv /\ [Next]_vars => IInv'
  BY BaseStep, CalmKept, RacesStay DEF IInv

LEMMA OneBooted == TypeOK /\ IInv => OneSupervisor
  BY NamesAssumption DEF IInv, CalmInv, OneSupervisor, Booted, OwnInv

LEMMA ChildStep == TypeOK /\ BaseInv /\ ChildInv /\ [Next]_vars => ChildInv'
<1> SUFFICES ASSUME TypeOK, BaseInv, ChildInv, [Next]_vars PROVE ChildInv'
  OBVIOUS
<1> USE NamesAssumption DEF TypeOK, Sups, BaseInv, NotSpawned, Running, ChildInv, Listed, AliveSups
<1>1. ASSUME NEW s \in Starts, Begin(s) PROVE ChildInv'
  BY <1>1 DEF Begin, Goto, files, procs, hist
<1>2. ASSUME NEW s \in Starts, BeginBusy(s) PROVE ChildInv'
  BY <1>2 DEF BeginBusy, Goto, files, procs, hist
<1>3. ASSUME NEW s \in Starts, CheckCore(s) PROVE ChildInv'
  BY <1>3 DEF CheckCore, Goto, Leave, files, procs, hist
<1>4. ASSUME NEW s \in Starts, CheckAlive(s) PROVE ChildInv'
  BY <1>4 DEF CheckAlive, Goto, SupervisorAlive, files, procs, hist
<1>5. ASSUME NEW s \in Starts, Extend(s) PROVE ChildInv'
  BY <1>5 DEF Extend, Goto, Leave, files, procs, hist
<1>6. ASSUME NEW s \in Starts, Reap(s) PROVE ChildInv'
  BY <1>6 DEF Reap, Goto, Killed, files, procs, hist
<1>7. ASSUME NEW s \in Starts, GateOpens(s) PROVE ChildInv'
  BY <1>7 DEF GateOpens, Goto, files, procs, hist
<1>8. ASSUME NEW s \in Starts, GateFails(s) PROVE ChildInv'
  BY <1>8 DEF GateFails, Goto, Leave, files, procs, hist
<1>9. ASSUME NEW s \in Starts, WriteWindow(s) PROVE ChildInv'
  BY <1>9 DEF WriteWindow, Goto, files, procs, hist
<1>10. ASSUME NEW s \in Starts, Spawn(s) PROVE ChildInv'
  BY <1>10 DEF Spawn, Goto, StopRunning, files, procs, hist
<1>11. ASSUME NEW s \in Starts, PollUp(s) PROVE ChildInv'
  BY <1>11 DEF PollUp, Goto, Leave, SupervisorAlive, files, procs, hist
<1>12. ASSUME NEW s \in Starts, GiveUp(s) PROVE ChildInv'
  BY <1>12 DEF GiveUp, Goto, Leave, SupervisorAlive, AfterToken, Trapped, files, procs, hist
<1>13. ASSUME NEW s \in Starts, ReadToken(s) PROVE ChildInv'
  BY <1>13 DEF ReadToken, Runs, SupGoto, files, procs, hist
<1>14. ASSUME NEW s \in Starts, RemoveToken(s) PROVE ChildInv'
  BY <1>14 DEF RemoveToken, Runs, SupGoto, files, procs, hist
<1>15. ASSUME NEW s \in Starts, Boot(s) PROVE ChildInv'
  BY <1>15 DEF Boot, Runs, SupGoto, files, procs, hist
<1>16. ASSUME NEW s \in Starts, Fork(s) PROVE ChildInv'
  BY <1>16 DEF Fork, Runs, SupGoto, files, procs, hist
<1>17. ASSUME NEW s \in Starts, Record(s) PROVE ChildInv'
  <2>1. PICK g \in Helpers :
          /\ child[s][g] = "forked" /\ child' = [child EXCEPT ![s][g] = "recorded"]
          /\ pids' = pids \cup {<<s, g>>}
    BY <1>17 DEF Record
  <2>2. /\ sup[s] = "record" /\ sup' \in {[sup EXCEPT ![s] = "fork"], [sup EXCEPT ![s] = "loop"]}
        /\ UNCHANGED <<dying, cut>>
    BY <1>17 DEF Record, Runs, SupGoto
  <2> SUFFICES ASSUME NEW r \in Starts, NEW h \in Helpers, child'[r][h] = "recorded"
               PROVE  r \in cut' \/ (sup'[r] \in {"fork", "record", "loop", "reap"} /\ <<r, h>> \in pids')
                      \/ Listed(r, h)'
    OBVIOUS
  <2>3. CASE r = s /\ h = g
    BY <2>1, <2>2, <2>3
  <2>4. CASE ~(r = s /\ h = g)
    <3>1. child[r][h] = "recorded"
      BY <2>1, <2>4
    <3>2. ASSUME Listed(r, h) PROVE Listed(r, h)'
      BY <2>2, <3>2
    <3> QED
      BY <2>1, <2>2, <3>1, <3>2
  <2> QED
    BY <2>3, <2>4
<1>18. ASSUME NEW s \in Starts, LoopEnds(s) PROVE ChildInv'
  BY <1>18 DEF LoopEnds, WindowOpen, Runs, SupGoto, files, procs, hist
<1>19. ASSUME NEW s \in Starts, TakePids(s) PROVE ChildInv'
  BY <1>19 DEF TakePids, Runs, SupGoto, files, procs, hist
<1>20. ASSUME NEW s \in Starts, KillTaken(s) PROVE ChildInv'
  BY <1>20 DEF KillTaken, Killed, Runs, SupGoto, files, procs, hist
<1>21. ASSUME NEW s \in Starts, Report(s) PROVE ChildInv'
  BY <1>21 DEF Report, Runs, SupGoto, files, procs, hist
<1>22. ASSUME NEW s \in Starts, Clear(s) PROVE ChildInv'
  BY <1>22 DEF Clear, Runs, SupGoto, files, procs, hist
<1>23. ASSUME NEW s \in Starts, TermEarly(s) PROVE ChildInv'
  BY <1>23 DEF TermEarly, Untrapped, SupGoto, files, procs, hist
<1>24. ASSUME NEW s \in Starts, Trap(s) PROVE ChildInv'
  <2> SUFFICES ASSUME NEW r \in Starts, NEW h \in Helpers, child'[r][h] = "recorded"
               PROVE  r \in cut' \/ (sup'[r] \in {"fork", "record", "loop", "reap"} /\ <<r, h>> \in pids')
                      \/ Listed(r, h)'
    OBVIOUS
  <2>1. /\ child[r][h] = "recorded" /\ sup[s] \in Trapped /\ sup' = [sup EXCEPT ![s] = "reap"]
        /\ cut' = IF sup[s] = "kill" THEN cut \cup Owners(dying[s]) ELSE cut
        /\ UNCHANGED <<pids, dying>>
    BY <1>24 DEF Trap, SupGoto, files, procs
  <2>2. CASE r \in cut
    BY <2>1, <2>2
  <2>3. CASE sup[r] \in {"fork", "record", "loop", "reap"} /\ <<r, h>> \in pids
    BY <2>1, <2>3
  <2>4. ASSUME NEW q \in Starts, sup[q] = "kill", <<r, h>> \in dying[q]
        PROVE  r \in cut' \/ Listed(r, h)'
    <3>1. CASE q = s
      BY <2>1, <2>4, <3>1 DEF Owners
    <3>2. CASE q # s
      BY <2>1, <2>4, <3>2
    <3> QED
      BY <3>1, <3>2
  <2> QED
    BY <2>1, <2>2, <2>3, <2>4
<1>25. ASSUME NEW p \in Stops, StopTerm(p) PROVE ChildInv'
  BY <1>25 DEF StopTerm, StopGoto, files, procs, hist
<1>26. ASSUME NEW p \in Stops, StopGone(p) PROVE ChildInv'
  BY <1>26 DEF StopGone, Waited, StopGoto, files, procs, hist
<1>27. ASSUME NEW p \in Stops, StopKill(p) PROVE ChildInv'
  <2> SUFFICES ASSUME NEW s \in Starts, NEW h \in Helpers, child'[s][h] = "recorded"
               PROVE  s \in cut'
    OBVIOUS
  <2>1. child[s][h] = "recorded" /\ <<s, h>> \notin pids
    BY <1>27 DEF StopKill, Killed
  <2>2. CASE s \in cut \/ sup[s] \in {"fork", "record", "loop", "reap"}
    BY <1>27, <2>2 DEF StopKill
  <2>3. ASSUME NEW q \in Starts, sup[q] = "kill", <<s, h>> \in dying[q] PROVE s \in cut'
    BY <1>27, <2>3 DEF StopKill, Owners
  <2> QED
    BY <2>1, <2>2, <2>3
<1>28. ASSUME NEW p \in Stops, StopCancel(p) PROVE ChildInv'
  BY <1>28 DEF StopCancel, StopGoto, files, procs, hist
<1>29. ASSUME NEW p \in Stops, StopClear(p) PROVE ChildInv'
  BY <1>29 DEF StopClear, StopGoto, files, procs, hist
<1>30. ASSUME Tick PROVE ChildInv'
  BY <1>30 DEF Tick, files, procs, hist
<1>31. ASSUME CoreOpen PROVE ChildInv'
  BY <1>31 DEF CoreOpen, StopRunning, SupGoto, files, procs, hist
<1>32. ASSUME CoreEnd PROVE ChildInv'
  BY <1>32 DEF CoreEnd, WindowOpen, SupGoto, files, procs, hist
<1>33. CASE UNCHANGED vars
  BY <1>33 DEF vars, files, procs, hist
<1> QED
  BY <1>1, <1>2, <1>3, <1>4, <1>5, <1>6, <1>7, <1>8, <1>9, <1>10, <1>11, <1>12, <1>13, <1>14,
     <1>15, <1>16, <1>17, <1>18, <1>19, <1>20, <1>21, <1>22, <1>23, <1>24, <1>25, <1>26, <1>27,
     <1>28, <1>29, <1>30, <1>31, <1>32, <1>33 DEF Next, StartStep, SupStep, StopStep

LEMMA BeforeStep ==
  TypeOK /\ BaseInv /\ ChildInv /\ BeforeInv /\ [Next]_vars => BeforeInv'
<1> SUFFICES ASSUME TypeOK, BaseInv, ChildInv, BeforeInv, [Next]_vars PROVE BeforeInv'
  OBVIOUS
<1> USE NamesAssumption DEF TypeOK, Sups, BaseInv, NotSpawned, Running, BeforeInv, Over, AliveSups
<1>1. ASSUME NEW s \in Starts, Begin(s) PROVE BeforeInv'
  BY <1>1 DEF Begin, Goto, files, procs, hist
<1>2. ASSUME NEW s \in Starts, BeginBusy(s) PROVE BeforeInv'
  BY <1>2 DEF BeginBusy, Goto, files, procs, hist
<1>3. ASSUME NEW s \in Starts, CheckCore(s) PROVE BeforeInv'
  BY <1>3 DEF CheckCore, Goto, Leave, files, procs, hist
<1>4. ASSUME NEW s \in Starts, CheckAlive(s) PROVE BeforeInv'
  BY <1>4 DEF CheckAlive, Goto, SupervisorAlive, files, procs, hist
<1>5. ASSUME NEW s \in Starts, Extend(s) PROVE BeforeInv'
  BY <1>5 DEF Extend, Goto, Leave, files, procs, hist
<1>6. ASSUME NEW s \in Starts, Reap(s) PROVE BeforeInv'
  BY <1>6 DEF Reap, Goto, Killed, files, procs, hist
<1>7. ASSUME NEW s \in Starts, GateOpens(s) PROVE BeforeInv'
  BY <1>7 DEF GateOpens, Goto, files, procs, hist
<1>8. ASSUME NEW s \in Starts, GateFails(s) PROVE BeforeInv'
  BY <1>8 DEF GateFails, Goto, Leave, files, procs, hist
<1>9. ASSUME NEW s \in Starts, WriteWindow(s) PROVE BeforeInv'
  BY <1>9 DEF WriteWindow, Goto, files, procs, hist
<1>10. ASSUME NEW s \in Starts, Spawn(s) PROVE BeforeInv'
  BY <1>10 DEF Spawn, Goto, StopRunning, files, procs, hist
<1>11. ASSUME NEW s \in Starts, PollUp(s) PROVE BeforeInv'
  BY <1>11 DEF PollUp, Goto, Leave, SupervisorAlive, files, procs, hist
<1>12. ASSUME NEW s \in Starts, GiveUp(s) PROVE BeforeInv'
  BY <1>12 DEF GiveUp, Goto, Leave, SupervisorAlive, AfterToken, Trapped, files, procs, hist
<1>13. ASSUME NEW s \in Starts, ReadToken(s) PROVE BeforeInv'
  BY <1>13 DEF ReadToken, Runs, SupGoto, files, procs, hist
<1>14. ASSUME NEW s \in Starts, RemoveToken(s) PROVE BeforeInv'
  BY <1>14 DEF RemoveToken, Runs, SupGoto, files, procs, hist
<1>15. ASSUME NEW s \in Starts, Boot(s) PROVE BeforeInv'
  BY <1>15 DEF Boot, Runs, SupGoto, files, procs, hist
<1>16. ASSUME NEW s \in Starts, Fork(s) PROVE BeforeInv'
  BY <1>16 DEF Fork, Runs, SupGoto, files, procs, hist
<1>17. ASSUME NEW s \in Starts, Record(s) PROVE BeforeInv'
  BY <1>17 DEF Record, Runs, SupGoto, files, procs, hist
<1>18. ASSUME NEW s \in Starts, LoopEnds(s) PROVE BeforeInv'
  BY <1>18 DEF LoopEnds, WindowOpen, Runs, SupGoto, files, procs, hist
<1>19. ASSUME NEW s \in Starts, TakePids(s) PROVE BeforeInv'
  BY <1>19 DEF TakePids, Runs, SupGoto, files, procs, hist
<1>20. ASSUME NEW s \in Starts, KillTaken(s) PROVE BeforeInv'
  BY <1>20 DEF KillTaken, Killed, Runs, SupGoto, files, procs, hist
<1>21. ASSUME NEW s \in Starts, Report(s) PROVE BeforeInv'
  BY <1>21 DEF Report, Runs, SupGoto, files, procs, hist
<1>22. ASSUME NEW s \in Starts, Clear(s) PROVE BeforeInv'
  BY <1>22 DEF Clear, Runs, SupGoto, files, procs, hist
<1>23. ASSUME NEW s \in Starts, TermEarly(s) PROVE BeforeInv'
  BY <1>23 DEF TermEarly, Untrapped, SupGoto, files, procs, hist
<1>24. ASSUME NEW s \in Starts, Trap(s) PROVE BeforeInv'
  <2>1. /\ sup' = [sup EXCEPT ![s] = "reap"] /\ sup[s] # "gone" /\ cut \subseteq cut'
        /\ UNCHANGED <<child, stop, before>>
    BY <1>24 DEF Trap, SupGoto, Trapped, procs, hist
  <2> QED
    BY <2>1
<1>25. ASSUME NEW p \in Stops, StopTerm(p) PROVE BeforeInv'
  BY <1>25 DEF StopTerm, StopGoto, files, procs, hist
<1>26. ASSUME NEW p \in Stops, StopGone(p) PROVE BeforeInv'
  <2>1. \A s \in before'[p] : Over(s)
    <3>1. before'[p] \subseteq Sups /\ \A s \in before'[p] : sup[s] = "gone"
      BY <1>26 DEF StopGone, Waited
    <3>2. \A s \in Starts : sup[s] \in {"off", "gone"}
      BY <1>26 DEF StopGone
    <3>3. \A s \in Starts, h \in Helpers : child[s][h] = "recorded" => s \in cut
      BY <3>2 DEF ChildInv, Listed
    <3> QED
      BY <3>1, <3>3
  <2>2. \A s \in Sups : Over(s) => Over(s)'
    BY <1>26 DEF StopGone, procs
  <2> QED
    BY <1>26, <2>1, <2>2 DEF StopGone, StopGoto, Waited
<1>27. ASSUME NEW p \in Stops, StopKill(p) PROVE BeforeInv'
  <2>1. \A s \in Starts, h \in Helpers :
          child'[s][h] = "recorded" => child[s][h] = "recorded" /\ <<s, h>> \notin pids
    BY <1>27 DEF StopKill, Killed
  <2>2. \A s \in Starts, h \in Helpers : child'[s][h] = "recorded" => s \in cut'
    <3> SUFFICES ASSUME NEW s \in Starts, NEW h \in Helpers, child'[s][h] = "recorded"
                 PROVE  s \in cut'
      OBVIOUS
    <3>1. CASE s \in cut \/ sup[s] \in {"fork", "record", "loop", "reap"}
      BY <1>27, <3>1 DEF StopKill
    <3>2. ASSUME NEW q \in Starts, sup[q] = "kill", <<s, h>> \in dying[q] PROVE s \in cut'
      BY <1>27, <3>2 DEF StopKill, Owners
    <3> QED
      BY <2>1, <3>1, <3>2 DEF ChildInv, Listed
  <2>3. \A s \in Sups : sup[s] # "off" => sup'[s] = "gone"
    BY <1>27 DEF StopKill
  <2>4. \A s \in Sups : sup[s] # "off" => Over(s)'
    BY <2>2, <2>3
  <2>5. \A q \in Stops : before'[q] = IF q = p THEN {s \in Sups : sup[s] # "off"} ELSE before[q]
    BY <1>27 DEF StopKill, Waited
  <2>6. \A q \in Stops : q # p => stop'[q] = stop[q]
    BY <1>27 DEF StopKill, StopGoto
  <2> SUFFICES ASSUME NEW q \in Stops, stop'[q] \in {"cancel", "clear"}, NEW s \in before'[q]
               PROVE  Over(s)'
    OBVIOUS
  <2>7. CASE q = p
    <3> HIDE DEF TypeOK, BaseInv, BeforeInv, Over, Sups
    <3>1. before'[q] = {z \in Sups : sup[z] # "off"}
      BY <2>5, <2>7
    <3>2. s \in Sups /\ sup[s] # "off"
      BY <3>1
    <3> QED
      BY <2>4, <3>2
  <2>8. CASE q # p
    <3>1. Over(s) /\ s \in Sups
      BY <2>5, <2>6, <2>8
    <3> QED
      BY <2>4, <3>1
  <2> QED
    BY <2>7, <2>8
<1>28. ASSUME NEW p \in Stops, StopCancel(p) PROVE BeforeInv'
  BY <1>28 DEF StopCancel, StopGoto, files, procs, hist
<1>29. ASSUME NEW p \in Stops, StopClear(p) PROVE BeforeInv'
  BY <1>29 DEF StopClear, StopGoto, files, procs, hist
<1>30. ASSUME Tick PROVE BeforeInv'
  BY <1>30 DEF Tick, files, procs, hist
<1>31. ASSUME CoreOpen PROVE BeforeInv'
  BY <1>31 DEF CoreOpen, StopRunning, SupGoto, files, procs, hist
<1>32. ASSUME CoreEnd PROVE BeforeInv'
  BY <1>32 DEF CoreEnd, WindowOpen, SupGoto, files, procs, hist
<1>33. CASE UNCHANGED vars
  BY <1>33 DEF vars, files, procs, hist
<1> QED
  BY <1>1, <1>2, <1>3, <1>4, <1>5, <1>6, <1>7, <1>8, <1>9, <1>10, <1>11, <1>12, <1>13, <1>14,
     <1>15, <1>16, <1>17, <1>18, <1>19, <1>20, <1>21, <1>22, <1>23, <1>24, <1>25, <1>26, <1>27,
     <1>28, <1>29, <1>30, <1>31, <1>32, <1>33 DEF Next, StartStep, SupStep, StopStep

LEMMA Invariance == Spec => [](TypeOK /\ IInv /\ ChildInv /\ BeforeInv)
<1>1. Init => TypeOK /\ IInv /\ ChildInv /\ BeforeInv
  BY TypeInit, InvInit
<1>2. TypeOK /\ IInv /\ ChildInv /\ BeforeInv /\ [Next]_vars
        => (TypeOK /\ IInv /\ ChildInv /\ BeforeInv)'
  BY TypeStep, InvStep, ChildStep, BeforeStep DEF IInv
<1> QED
  BY <1>1, <1>2, PTL DEF Spec

-----------------------------------------------------------------------------
(* At most one supervisor is past its token check, until a start is         *)
(* overtaken: it gives up on one that has read its token, spawns one during *)
(* a stop, or passes its test for omdrop-core's before that one opens.      *)
THEOREM OnlyOneSupervisor == Spec => []OneSupervisor
<1> QED
  BY Invariance, OneBooted, PTL

(* A supervisor that ends leaves no recorded child behind, but in the list  *)
(* of a teardown at work or in a lost one.                                  *)
THEOREM NoStray == Spec => []NoStrayChild
<1>1. TypeOK /\ ChildInv => NoStrayChild
  BY DEF TypeOK, ChildInv, Listed, NoStrayChild
<1> QED
  BY <1>1, Invariance, PTL

(* A teardown touches no window opened after its own, until a start is      *)
(* overtaken.                                                               *)
THEOREM TeardownOwn == Spec => []TeardownIsOwn
<1>1. TypeOK /\ IInv => TeardownIsOwn
  BY DEF TypeOK, IInv, CalmInv, OwnInv, Booted, AliveSups, Sups, TeardownIsOwn
<1> QED
  BY <1>1, Invariance, PTL

-----------------------------------------------------------------------------
(* Which process a step belongs to. *)
LEMMA StepOf ==
  ASSUME [Next]_vars
  PROVE  \/ \E s \in Starts : StartStep(s)
         \/ /\ UNCHANGED start
            /\ UNCHANGED stop \/ \E p \in Stops : StopStep(p) /\ stop[p] # "cancel"
         \/ \E p \in Stops : StopCancel(p)
<1>1. ASSUME NEW s \in Starts, SupStep(s) PROVE UNCHANGED <<start, stop>>
  BY <1>1 DEF SupStep, ReadToken, RemoveToken, Boot, Fork, Record, LoopEnds, TakePids,
       KillTaken, Report, Clear, TermEarly, Trap
<1>2. ASSUME NEW p \in Stops, StopStep(p), ~StopCancel(p)
      PROVE  UNCHANGED start /\ stop[p] # "cancel"
  BY <1>2 DEF StopStep, StopTerm, StopGone, StopKill, StopCancel, StopClear
<1>3. Tick \/ CoreOpen \/ CoreEnd \/ UNCHANGED vars => UNCHANGED <<start, stop>>
  BY DEF Tick, CoreOpen, CoreEnd, vars
<1> QED
  BY <1>1, <1>2, <1>3 DEF Next

(* A stop reports the window stopped only when every supervisor begun       *)
(* before its wait ended is gone, with its children, whatever starts        *)
(* meanwhile.                                                               *)
THEOREM StopQuiet == Spec => StopIsQuiet
<1> DEFINE Quiet ==
      \A p \in Stops : stop[p] = "clear" /\ stop'[p] = "done" =>
        \A s \in before[p] :
          /\ sup'[s] = "gone"
          /\ s \in Starts => \A h \in Helpers : child'[s][h] = "recorded" => s \in cut'
<1>1. TypeOK /\ BeforeInv /\ [Next]_vars => Quiet
  <2> SUFFICES ASSUME TypeOK, BeforeInv, [Next]_vars,
                      NEW p \in Stops, stop[p] = "clear", stop'[p] = "done",
                      NEW s \in before[p]
               PROVE  Over(s)'
    BY DEF Over
  <2>1. Over(s)
    BY DEF BeforeInv
  <2>2. ASSUME NEW q \in Starts, StartStep(q) PROVE FALSE
    BY <2>2 DEF StartStep, Begin, BeginBusy, CheckCore, CheckAlive, Extend, Reap, GateOpens,
         GateFails, WriteWindow, Spawn, PollUp, GiveUp
  <2>3. ASSUME NEW q \in Stops, StopStep(q) PROVE UNCHANGED <<sup, child, cut>>
    BY <2>3 DEF TypeOK, procs, StopStep, StopGoto, StopTerm, StopGone, StopKill, StopCancel,
         StopClear
  <2>4. UNCHANGED <<sup, child, cut>>
    BY <2>2, <2>3, StepOf DEF StopStep
  <2> QED
    BY <2>1, <2>4 DEF Over
<1> QED
  BY <1>1, Invariance, PTL DEF StopIsQuiet, Spec

(* A start that returns 0 has its own supervisor up, until a start is       *)
(* overtaken.                                                               *)
THEOREM UpOwn == Spec => UpIsOwn
<1> DEFINE Own ==
      \A s \in Starts : start[s] = "poll" /\ start'[s] = "up" /\ raced = {} =>
        supFile = s /\ sup[s] \in Trapped /\ opened = s
<1>1. TypeOK /\ IInv /\ [Next]_vars => Own
  <2> SUFFICES ASSUME TypeOK, IInv, [Next]_vars, raced = {},
                      NEW s \in Starts, start[s] = "poll", start'[s] = "up"
               PROVE  supFile = s /\ sup[s] \in Trapped /\ opened = s
    OBVIOUS
  <2>1. SupervisorAlive
    <3>1. ASSUME NEW q \in Starts, StartStep(q) PROVE PollUp(s)
      BY <3>1 DEF TypeOK, StartStep, Goto, Leave, Begin, BeginBusy, CheckCore, CheckAlive,
           Extend, Reap, GateOpens, GateFails, WriteWindow, Spawn, PollUp, GiveUp
    <3>2. ASSUME NEW p \in Stops, StopCancel(p) PROVE start'[s] # "up"
      BY <3>2 DEF StopCancel
    <3> QED
      BY <3>1, <3>2, StepOf DEF PollUp
  <2>2. CalmInv /\ supFile \in Booted
    BY <2>1, NamesAssumption
    DEF SupervisorAlive, AliveSups, Sups, Booted, IInv, CalmInv, FileInv
  <2>3. supFile = s /\ opened = s
    BY <2>2 DEF CalmInv, QuietInv, OwnInv, Checked, Running
  <2> QED
    BY <2>2, <2>3, NamesAssumption
    DEF TypeOK, Booted, AliveSups, Sups, CalmInv, FileInv, Untrapped, Trapped
<1> QED
  BY <1>1, Invariance, PTL DEF UpIsOwn, Spec

(* Nothing but time and stop touches a window that omdrop-core opened, when *)
(* no start was past its test for it.                                       *)
THEOREM CoreUntouched == Spec => CoreLeftAlone
<1> DEFINE Kept == /\ reason' = reason /\ supFile' = supFile
                   /\ (until' # until => until \in 1..MaxSecs /\ until' = until - 1)
           Alone == ~StopRunning /\ Core \in AliveSups /\ Core \in AliveSups'
                    /\ "core" \notin raced => Kept
<1>1. TypeOK /\ IInv /\ [Next]_vars => Alone
  <2> SUFFICES ASSUME TypeOK, IInv, [Next]_vars, ~StopRunning, "core" \notin raced,
                      Core \in AliveSups, Core \in AliveSups'
               PROVE  Kept
    OBVIOUS
  <2>1. AliveSups = {Core} /\ \A s \in Starts : start[s] \notin Checked
    BY DEF IInv, BaseInv, CoreInv
  <2>2. ASSUME NEW s \in Starts, StartStep(s) PROVE Kept
    BY <2>1, <2>2 DEF Running, Checked, StartStep, files, Begin, BeginBusy, CheckCore,
         CheckAlive, Extend, Reap, GateOpens, GateFails, WriteWindow, Spawn, PollUp, GiveUp
  <2>3. ASSUME NEW s \in Starts PROVE ~SupStep(s)
    BY <2>1, NamesAssumption DEF SupStep, Runs, AliveSups, Sups, Trapped, Untrapped, ReadToken,
         RemoveToken, Boot, Fork, Record, LoopEnds, TakePids, KillTaken, Report, Clear,
         TermEarly, Trap
  <2>4. ASSUME NEW p \in Stops, StopStep(p) PROVE Kept
    BY <2>4 DEF StopStep, StopRunning, StopTerm, StopGone, StopKill, StopCancel, StopClear, files
  <2>5. Tick \/ UNCHANGED vars => Kept
    BY DEF Tick, vars, files
  <2>6. ~CoreOpen /\ ~CoreEnd
    BY NamesAssumption DEF CoreOpen, CoreEnd, SupGoto, AliveSups, TypeOK, Sups
  <2> QED
    BY <2>2, <2>3, <2>4, <2>5, <2>6 DEF Next
<1> QED
  BY <1>1, Invariance, PTL DEF CoreLeftAlone, Spec

-----------------------------------------------------------------------------
(* Identity *)

Held == {"check", "make", "link", "linkCert", "undo"}

\* Who is where about the lock, and between which steps half a pair exists:
\* from the first link of the lock's holder to its second link or undo.
PairInv ==
  /\ pc \in [Procs -> {"idle", "cache", "cert", "key", "lock"} \cup Held]
  /\ \A p \in Procs : pc[p] \in Held <=> idLock = p
  /\ \A p \in Procs : pc[p] \in {"linkCert", "undo"} => key = p /\ cert = Nobody
  /\ cert # Nobody => key = cert
  /\ cert = Nobody /\ key # Nobody /\ ~crashed =>
       \E p \in Procs : pc[p] \in {"linkCert", "undo"}

-----------------------------------------------------------------------------
(* The pair *)

LEMMA PairStep == ASSUME PairInv, [IdentityNext]_identityVars PROVE PairInv'
<1> USE ProcsAssumption DEF PairInv, Procs, Held, pairs, Go
<1>1. ASSUME NEW p \in Procs, Refuse(p) PROVE PairInv'
  BY <1>1 DEF Refuse, Raise, Finish
<1>2. ASSUME NEW p \in Procs, Resolve(p) PROVE PairInv'
  BY <1>2 DEF Resolve
<1>3. ASSUME NEW p \in Procs, ReadCache(p) PROVE PairInv'
  BY <1>3 DEF ReadCache
<1>4. ASSUME NEW p \in Procs, TestCert(p) PROVE PairInv'
  BY <1>4 DEF TestCert
<1>5. ASSUME NEW p \in Procs, Decide(p) PROVE PairInv'
  <2>1. pc[p] = "key" /\ (pc' = [pc EXCEPT ![p] = "lock"] \/ pc' = [pc EXCEPT ![p] = "idle"])
    BY <1>5 DEF Decide, Finish
  <2>2. UNCHANGED <<cert, key, idLock, crashed>>
    BY <1>5 DEF Decide
  <2>3. QED
    BY <2>1, <2>2
<1>6. ASSUME NEW p \in Procs, Lock(p) PROVE PairInv'
  BY <1>6 DEF Lock
<1>7. ASSUME NEW p \in Procs, Check(p) PROVE PairInv'
  <2>1. pc[p] = "check" /\ UNCHANGED <<cert, key, crashed>>
    BY <1>7 DEF Check
  <2>2. \/ pc' = [pc EXCEPT ![p] = "make"] /\ idLock' = idLock
        \/ pc' = [pc EXCEPT ![p] = "idle"] /\ idLock' = Nobody
    BY <1>7 DEF Check, Settle, Raise, Finish
  <2>3. QED
    BY <2>1, <2>2
<1>8. ASSUME NEW p \in Procs, Make(p) PROVE PairInv'
  BY <1>8 DEF Make, Raise, Finish
<1>9. ASSUME NEW p \in Procs, LinkKey(p) PROVE PairInv'
  BY <1>9 DEF LinkKey, Settle, Raise, Finish
<1>10. ASSUME NEW p \in Procs, LinkCert(p) PROVE PairInv'
  BY <1>10 DEF LinkCert, Raise, Finish
<1>11. ASSUME NEW p \in Procs, Undo(p) PROVE PairInv'
  BY <1>11 DEF Undo, Raise, Finish
<1>12. ASSUME NEW p \in Procs, Die(p) PROVE PairInv'
  BY <1>12 DEF Die, Raise, Finish
<1>13. CASE OtherPair
  BY <1>13 DEF OtherPair
<1>14. CASE Omdrop
  BY <1>14 DEF Omdrop, OpenWindow, CloseWindow, Revoke, Publish, Expire
<1>15. CASE UNCHANGED identityVars
  BY <1>15 DEF identityVars
<1>16. QED
  BY <1>1, <1>2, <1>3, <1>4, <1>5, <1>6, <1>7, <1>8, <1>9, <1>10, <1>11, <1>12, <1>13, <1>14,
     <1>15 DEF IdentityNext, Call, Creation

LEMMA PairHolds == IdentitySpec => []PairInv
<1>1. IdentityInit => PairInv
  BY ProcsAssumption DEF IdentityInit, InitBut, PairInv, Procs, Held
<1>2. QED
  BY <1>1, PairStep, PTL DEF IdentitySpec

\* Certificate and key are one program's, whoever created, placed, failed or
\* was killed in between.
THEOREM OneMaker == IdentitySpec => []PairOfOne
<1>1. PairInv => PairOfOne
  BY DEF PairInv, PairOfOne
<1>2. QED
  BY <1>1, PairHolds, PTL

\* Half a pair is never left by a creation that failed: only by a program that
\* died between its two links.
THEOREM WholeOrNone == IdentitySpec => []NoHalfLeft
<1>1. PairInv => NoHalfLeft
  BY ProcsAssumption DEF PairInv, NoHalfLeft, Procs, Held
<1>2. QED
  BY <1>1, PairHolds, PTL

LEMMA StaysStep ==
  ASSUME PairInv, [IdentityNext]_identityVars, cert # Nobody, key # Nobody
  PROVE  UNCHANGED pairs
<1> USE ProcsAssumption DEF PairInv, Procs, Held, pairs
<1>1. ASSUME NEW p \in Procs, Call(p) \/ Lock(p) \/ Die(p) PROVE UNCHANGED pairs
  BY <1>1 DEF Call, Refuse, Resolve, ReadCache, TestCert, Decide, Lock, Die
<1>2. ASSUME NEW p \in Procs, Check(p) \/ Make(p) PROVE UNCHANGED pairs
  BY <1>2 DEF Check, Make
<1>3. ASSUME NEW p \in Procs, LinkKey(p) PROVE UNCHANGED pairs
  BY <1>3 DEF LinkKey
<1>4. ASSUME NEW p \in Procs, LinkCert(p) PROVE UNCHANGED pairs
  BY <1>4 DEF LinkCert
<1>5. ASSUME NEW p \in Procs, Undo(p) PROVE UNCHANGED pairs
  BY <1>5 DEF Undo
<1>6. CASE OtherPair
  BY <1>6 DEF OtherPair
<1>7. CASE Omdrop
  BY <1>7 DEF Omdrop, OpenWindow, CloseWindow, Revoke, Publish, Expire
<1>8. CASE UNCHANGED identityVars
  BY <1>8 DEF identityVars
<1>9. QED
  BY <1>1, <1>2, <1>3, <1>4, <1>5, <1>6, <1>7, <1>8 DEF IdentityNext, Creation

\* No creation, undo or death touches a pair once it is whole.
THEOREM WholePairStays == IdentitySpec => PairStays
<1>1. PairInv /\ [IdentityNext]_identityVars => [cert # Nobody /\ key # Nobody => UNCHANGED pairs]_identityVars
  BY StaysStep
<1>2. QED
  BY <1>1, PairHolds, PTL DEF IdentitySpec, PairStays

-----------------------------------------------------------------------------
(* Types *)

Answers == {"error", "cache", "disk", "self-signed"}

\* Only a program that may create a pair is told to.
LEMMA SelectTypes ==
  ASSUME NEW m, NEW w, NEW c, NEW d, NEW q \in Pairs, NEW p, NEW t
  PROVE  LET r == Select(m, w, c, d, q, p \in Readers, t)
         IN  /\ r.identity \in Answers
             /\ r.identity = "self-signed" /\ r.create => p \notin Readers
             /\ r.identity = "self-signed" /\ r.create => r = Present("self-signed", FALSE, TRUE)
             /\ r.identity = "error" => r # Fail("killed")
<1> USE DEF Answers, Pairs, Fail, Present
<1>1. SelectCache(w, c, t).identity \in {"error", "cache"}
  BY DEF SelectCache
<1>2. SelectCache(w, c, t) # Fail("killed")
  BY DEF SelectCache
<1>3. CASE Select(m, w, c, d, q, p \in Readers, t) = SelectCache(w, c, t)
  BY <1>1, <1>2, <1>3
<1>4. CASE Select(m, w, c, d, q, p \in Readers, t) = SelectSelf(q, p \in Readers)
  <2>1. CASE q.certificate # q.key
    BY <1>4, <2>1 DEF SelectSelf
  <2>2. CASE q.certificate = q.key /\ ~q.certificate /\ p \in Readers
    BY <1>4, <2>2 DEF SelectSelf
  <2>3. CASE q.certificate = q.key /\ ~q.certificate /\ p \notin Readers
    <3>1. SelectSelf(q, p \in Readers) = Present("self-signed", FALSE, TRUE)
      BY <2>3 DEF SelectSelf
    <3>2. QED
      BY <1>4, <2>3, <3>1
  <2>4. CASE q.certificate = q.key /\ q.certificate
    <3>1. SelectSelf(q, p \in Readers).create = FALSE /\ SelectSelf(q, p \in Readers).identity = "self-signed"
      BY <2>4 DEF SelectSelf
    <3>2. QED
      BY <1>4, <3>1
  <2>5. QED
    BY <2>1, <2>2, <2>3, <2>4
<1>5. CASE \/ Select(m, w, c, d, q, p \in Readers, t) \in
                 {Fail("window-unparseable"), Fail("disk-missing"), Fail("disk-mismatch")}
           \/ Select(m, w, c, d, q, p \in Readers, t) = Present("disk", d.record, FALSE)
  BY <1>5
<1>6. QED
  BY <1>3, <1>4, <1>5 DEF Select

\* What a program has read: a window that is no error, not expired by its
\* clock.  Only users reach the lock.
ReadInv ==
  /\ \A p \in Procs : pc[p] = "lock" => p \in Users
  /\ \A p \in Procs : pc[p] \in {"cache", "cert", "key"} =>
       win[p] # "unparseable" /\ win[p] \notin old[p]

TypeInv == IdentityTypeOK /\ ReadInv

LEMMA DecideResult ==
  ASSUME TypeInv, NEW p \in Procs, Decide(p)
  PROVE  /\ pc[p] = "key"
         /\ \/ pc' = [pc EXCEPT ![p] = "lock"] /\ res' = res /\ p \in Users
            \/ pc' = [pc EXCEPT ![p] = "idle"] /\ res'.identity \in Answers
<1> DEFINE q == [certificate |-> sawCert[p], key |-> key # Nobody]
           r == Select(mode, win[p], seen[p], disk, q, p \in Readers, old[p])
<1>1. q \in Pairs
  BY DEF TypeInv, IdentityTypeOK, Pairs
<1>2. /\ r.identity \in Answers
      /\ r.identity = "self-signed" /\ r.create => p \notin Readers
  BY <1>1, SelectTypes
<1>3. pc[p] = "key"
  BY DEF Decide
<1>4. IF r.identity = "self-signed" /\ r.create
      THEN pc' = [pc EXCEPT ![p] = "lock"] /\ res' = res
      ELSE pc' = [pc EXCEPT ![p] = "idle"] /\ res' = r
  BY DEF Decide, Go, Finish
<1> HIDE DEF q, r
<1>5. QED
  BY <1>2, <1>3, <1>4 DEF Procs

LEMMA IdentityTypeStep == ASSUME TypeInv, [IdentityNext]_identityVars PROVE TypeInv'
<1> USE ProcsAssumption, IdsAssumption
    DEF TypeInv, ReadInv, IdentityTypeOK, Procs, Makers, outside, pairs, read, Go
<1>1. ASSUME NEW p \in Procs, Refuse(p) PROVE TypeInv'
  BY <1>1 DEF Refuse, Raise, Finish, Fail
<1>2. ASSUME NEW p \in Procs, Resolve(p) PROVE TypeInv'
  BY <1>2 DEF Resolve
<1>3. ASSUME NEW p \in Procs, ReadCache(p) PROVE TypeInv'
  BY <1>3 DEF ReadCache
<1>4. ASSUME NEW p \in Procs, TestCert(p) PROVE TypeInv'
  BY <1>4 DEF TestCert
<1>5. ASSUME NEW p \in Procs, Decide(p) PROVE TypeInv'
  <2>1. UNCHANGED <<outside, pairs, idLock, crashed>> /\ Forget(p)
    BY <1>5 DEF Decide
  <2>2. QED
    BY <1>5, <2>1, DecideResult DEF Forget, Answers
<1>6. ASSUME NEW p \in Procs, Lock(p) PROVE TypeInv'
  BY <1>6 DEF Lock
<1>7. ASSUME NEW p \in Procs, Check(p) PROVE TypeInv'
  <2>1. pc[p] = "check" /\ UNCHANGED <<outside, pairs, read, crashed>>
    BY <1>7 DEF Check
  <2>2. \/ pc' = [pc EXCEPT ![p] = "make"] /\ idLock' = idLock /\ res' = res
        \/ pc' = [pc EXCEPT ![p] = "idle"] /\ idLock' = Nobody
             /\ res' \in {Fail("self-signed-half-pair"), Present("self-signed", FALSE, FALSE)}
    BY <1>7 DEF Check, Settle, Raise, Finish
  <2>3. QED
    BY <2>1, <2>2 DEF Fail, Present
<1>8. ASSUME NEW p \in Procs, Make(p) PROVE TypeInv'
  BY <1>8 DEF Make, Raise, Finish, Fail
<1>9. ASSUME NEW p \in Procs, LinkKey(p) PROVE TypeInv'
  <2>1. pc[p] = "link" /\ UNCHANGED <<outside, cert, read, crashed>> /\ key' \in {key, p}
    BY <1>9 DEF LinkKey
  <2>2. \/ pc' = [pc EXCEPT ![p] = "linkCert"] /\ idLock' = idLock /\ res' = res
        \/ pc' = [pc EXCEPT ![p] = "idle"] /\ idLock' = Nobody
             /\ res' \in {Fail("self-signed-half-pair"), Fail("self-signed-missing"),
                         Fail("self-signed-create-failed"), Present("self-signed", FALSE, FALSE)}
    BY <1>9 DEF LinkKey, Settle, Raise, Finish
  <2>3. QED
    BY <2>1, <2>2 DEF Fail, Present
<1>10. ASSUME NEW p \in Procs, LinkCert(p) PROVE TypeInv'
  BY <1>10 DEF LinkCert, Raise, Finish, Fail, Present
<1>11. ASSUME NEW p \in Procs, Undo(p) PROVE TypeInv'
  BY <1>11 DEF Undo, Raise, Finish, Fail
<1>12. ASSUME NEW p \in Procs, Die(p) PROVE TypeInv'
  BY <1>12 DEF Die, Raise, Finish, Fail, Forget
<1>13. CASE OtherPair
  BY <1>13 DEF OtherPair
<1>14. CASE Omdrop
  BY <1>14 DEF Omdrop, OpenWindow, CloseWindow, Revoke, Publish, Expire
<1>15. CASE UNCHANGED identityVars
  BY <1>15 DEF identityVars
<1>16. QED
  BY <1>1, <1>2, <1>3, <1>4, <1>5, <1>6, <1>7, <1>8, <1>9, <1>10, <1>11, <1>12, <1>13, <1>14,
     <1>15 DEF IdentityNext, Call, Creation

LEMMA TypeHolds == IdentitySpec => []TypeInv
<1>1. IdentityInit => TypeInv
  BY ProcsAssumption DEF IdentityInit, InitBut, TypeInv, IdentityTypeOK, ReadInv, Procs, Makers
<1>2. QED
  BY <1>1, IdentityTypeStep, PTL DEF IdentitySpec

\* Every variable keeps its type, and the lock's holder is the one program in
\* the creation's steps, a program that may create.
THEOREM IdentityTypes == IdentitySpec => []IdentityTypeOK
<1>1. TypeInv => IdentityTypeOK
  BY DEF TypeInv
<1>2. QED
  BY <1>1, TypeHolds, PTL

-----------------------------------------------------------------------------
(* The contract *)

\* The code's order of tests and the contract's tables agree on everything a
\* program can have read.
LEMMA SelectIsContract ==
  ASSUME NEW m, NEW w \in Ids \cup {Nobody, "disk", "self-signed"},
         NEW c \in Ids \cup {Nobody, "malformed"}, NEW d \in Disks, NEW q \in Pairs,
         NEW p, NEW t \in SUBSET Ids, w \notin t
  PROVE  Select(m, w, c, d, q, p \in Readers, t) = Contract(m, w, c, d, q, p \in Readers, t)
<1> USE ProcsAssumption, IdsAssumption
<1>1. SelectSelf(q, p \in Readers) = PairRow(q, p \in Readers)
  <2> USE DEF Pairs, SelectSelf, PairRow
  <2>1. CASE q.certificate = TRUE /\ q.key = TRUE
    BY <2>1
  <2>2. CASE q.certificate = FALSE /\ q.key = FALSE
    BY <2>2
  <2>3. CASE q.certificate = TRUE /\ q.key = FALSE
    BY <2>3
  <2>4. CASE q.certificate = FALSE /\ q.key = TRUE
    BY <2>4
  <2>5. q.certificate \in {TRUE, FALSE} /\ q.key \in {TRUE, FALSE}
    OBVIOUS
  <2>6. QED
    BY <2>1, <2>2, <2>3, <2>4, <2>5
<1>2. CASE w \in Ids
  <2>1. Select(m, w, c, d, q, p \in Readers, t) = SelectCache(w, c, t)
    BY <1>2 DEF Select
  <2>2. Contract(m, w, c, d, q, p \in Readers, t) = WindowRow(w, c, d, t)
    BY <1>2 DEF Contract
  <2>3. SelectCache(w, c, t) = WindowRow(w, c, d, t)
    <3> USE DEF SelectCache, WindowRow
    <3>1. CASE c = Nobody
      BY <1>2, <3>1
    <3>2. CASE c = "malformed"
      BY <1>2, <3>2
    <3>3. CASE c = w
      BY <1>2, <3>3
    <3>4. CASE c \in Ids \ {w}
      BY <1>2, <3>4
    <3>5. QED
      BY <3>1, <3>2, <3>3, <3>4
  <2>4. QED
    BY <2>1, <2>2, <2>3
<1>3. CASE w = "disk"
  <2> USE DEF Select, Contract, WindowRow, Disks
  <2>1. CASE ~(d.certificate /\ d.key)
    BY <1>3, <2>1
  <2>2. CASE d.certificate /\ d.key /\ ~d.match
    BY <1>3, <2>2
  <2>3. CASE d.certificate /\ d.key /\ d.match
    BY <1>3, <2>3
  <2>4. QED
    BY <2>1, <2>2, <2>3
<1>4. CASE w = "self-signed"
  BY <1>1, <1>4 DEF Select, Contract
<1>5. CASE w = Nobody
  BY <1>1, <1>5 DEF Select, Contract
<1>6. QED
  BY <1>2, <1>3, <1>4, <1>5

LEMMA AnswerStep ==
  ASSUME TypeInv, [IdentityNext]_identityVars, NEW p \in Procs,
         pc[p] = "key", pc'[p] # "key", res' # Fail("killed")
  PROVE  LET pair == [certificate |-> sawCert[p], key |-> key # Nobody]
             row  == Contract(mode, win[p], seen[p], disk, pair, p \in Readers, old[p])
         IN  IF pc'[p] = "lock" THEN row = Present("self-signed", FALSE, TRUE) ELSE res' = row
<1> DEFINE q   == [certificate |-> sawCert[p], key |-> key # Nobody]
           r   == Select(mode, win[p], seen[p], disk, q, p \in Readers, old[p])
           row == Contract(mode, win[p], seen[p], disk, q, p \in Readers, old[p])
<1>1. Decide(p)
  <2> USE DEF TypeInv, IdentityTypeOK, Go
  <2>1. ASSUME NEW o \in Procs, Refuse(o) \/ Resolve(o) \/ ReadCache(o) \/ TestCert(o) \/ Lock(o)
        PROVE  FALSE
    BY <2>1 DEF Refuse, Resolve, ReadCache, TestCert, Lock, Raise, Finish
  <2>2. ASSUME NEW o \in Procs, Check(o) PROVE FALSE
    <3>1. pc[o] = "check" /\ (pc' = [pc EXCEPT ![o] = "make"] \/ pc' = [pc EXCEPT ![o] = "idle"])
      BY <2>2 DEF Check, Settle, Raise, Finish
    <3>2. QED
      BY <3>1
  <2>3. ASSUME NEW o \in Procs, Make(o) \/ LinkCert(o) \/ Undo(o) PROVE FALSE
    BY <2>3 DEF Make, LinkCert, Undo, Raise, Finish
  <2>4. ASSUME NEW o \in Procs, LinkKey(o) PROVE FALSE
    <3>1. pc[o] = "link" /\ (pc' = [pc EXCEPT ![o] = "linkCert"] \/ pc' = [pc EXCEPT ![o] = "idle"])
      BY <2>4 DEF LinkKey, Settle, Raise, Finish
    <3>2. QED
      BY <3>1
  <2>5. ASSUME NEW o \in Procs, Die(o) PROVE FALSE
    BY <2>5 DEF Die, Raise, Finish
  <2>6. ASSUME NEW o \in Procs, Decide(o) PROVE o = p
    <3>1. pc' = [pc EXCEPT ![o] = "lock"] \/ pc' = [pc EXCEPT ![o] = "idle"]
      BY <2>6, DecideResult
    <3>2. QED
      BY <3>1
  <2>7. CASE OtherPair \/ Omdrop \/ UNCHANGED identityVars
    BY <2>7 DEF OtherPair, Omdrop, OpenWindow, CloseWindow, Revoke, Publish, Expire, identityVars
  <2>8. QED
    BY <2>1, <2>2, <2>3, <2>4, <2>5, <2>6, <2>7 DEF IdentityNext, Call, Creation
<1>2. q \in Pairs
  BY DEF TypeInv, IdentityTypeOK, Pairs
<1>3. pc[p] = "key"
  BY <1>1 DEF Decide
<1>4. IF r.identity = "self-signed" /\ r.create
      THEN pc' = [pc EXCEPT ![p] = "lock"]
      ELSE pc' = [pc EXCEPT ![p] = "idle"] /\ res' = r
  BY <1>1 DEF Decide, Go, Finish
<1> HIDE DEF q
<1>5. r.identity = "self-signed" /\ r.create => r = Present("self-signed", FALSE, TRUE)
  BY <1>2, SelectTypes, ZenonT(40)
<1>6. r = row
  <2>1. /\ win[p] \in Ids \cup {Nobody, "disk", "self-signed"} /\ win[p] \notin old[p]
        /\ old[p] \in SUBSET Ids /\ seen[p] \in Ids \cup {Nobody, "malformed"} /\ disk \in Disks
    BY <1>3 DEF TypeInv, IdentityTypeOK, ReadInv
  <2>2. QED
    BY <1>2, <2>1, SelectIsContract
<1> HIDE DEF r, row
<1>7. IF pc'[p] = "lock" THEN row = Present("self-signed", FALSE, TRUE) ELSE res' = row
  BY <1>4, <1>5, <1>6 DEF TypeInv, IdentityTypeOK
<1>8. QED
  BY <1>7 DEF q, row

\* Whatever windows, caches and pairs do between a program's reads, it answers
\* with the contract's row for what it read.
THEOREM AnswersFollow == IdentitySpec => AnswersByContract
<1>1. TypeInv /\ [IdentityNext]_identityVars =>
        [\A p \in Procs :
           LET pair == [certificate |-> sawCert[p], key |-> key # Nobody]
               row  == Contract(mode, win[p], seen[p], disk, pair, p \in Readers, old[p])
           IN  pc[p] = "key" /\ pc'[p] # "key" /\ res' # Fail("killed") =>
                 IF pc'[p] = "lock" THEN row = Present("self-signed", FALSE, TRUE)
                 ELSE res' = row]_identityVars
  BY AnswerStep
<1>2. QED
  BY <1>1, TypeHolds, PTL DEF IdentitySpec, AnswersByContract
=============================================================================
