------------------------------- MODULE Window -------------------------------
(***************************************************************************)
(* The discoverability window of omdrop-discoverable: the `start` and      *)
(* `stop` commands, the detached supervisor each start may spawn, the      *)
(* helper children it runs, and the files under /run/awdl-discoverable     *)
(* they share.  omdrop-core's supervisor, which uses the same directory,   *)
(* is an environment process named Core.                                   *)
(*                                                                         *)
(* A supervisor is named by the start that spawned it.  The deadline in    *)
(* the file `until` is kept as the time that remains, so Tick is the       *)
(* clock.  A step is one command of the script that touches shared state;  *)
(* a start's radio work (radio_up, write_identity) and the supervisor's    *)
(* radio_tick are in module Radio.                                         *)
(***************************************************************************)
EXTENDS Naturals, FiniteSets

CONSTANTS
  Starts,     \* invocations of `omdrop-discoverable start`
  Stops,      \* invocations of `omdrop-discoverable stop`
  Helpers,    \* what the supervisor spawns: mdns, peers, ble
  Core,       \* the supervisor of omdrop-core's root helper
  MaxSecs,    \* the longest bounded window, in clock ticks
  None,       \* an absent file
  Forever     \* the deadline 0 of a window without expiry

ASSUME SecsAssumption == MaxSecs \in Nat \ {0}
ASSUME NamesAssumption ==
  /\ Core \notin Starts
  /\ None \notin Starts \cup {Core, Forever} \cup Nat
  /\ Forever \notin Nat

VARIABLES
  until,   \* $RUN/until
  reason,  \* $RUN/reason
  supFile, \* $RUN/supervisor
  token,   \* $RUN/supervisor.token: the spawn it was written for
  pids,    \* $RUN/pids; {} when there is no file
  lock,    \* who holds flock on $RUN/start.lock
  start,   \* [Starts -> where the command is, or how it ended]
  sup,     \* [Sups -> where the supervisor is]
  ending,  \* [Starts -> the reason its teardown will record]
  term,    \* supervisors with an undelivered TERM
  child,   \* [Starts -> [Helpers -> "no", "forked", "recorded" or "dead"]]
  dying,   \* [Starts -> the pids file its kill_children took]
  stop,    \* [Stops -> where the command is]
  cut,     \* (history) supervisors some of whose children nobody lists any more
  opened,  \* (history) whose window `until` was last written for
  before,  \* (history) [Stops -> the supervisors begun when its wait ended]
  raced    \* (history) which of the script's tests another process overtook

files == <<until, reason, supFile, token, pids>>
procs == <<child, dying>>
hist  == <<opened, before, raced>>
vars  == <<files, lock, start, sup, ending, term, procs, stop, cut, hist>>

Sups      == Starts \cup {Core}
Deadlines == {None, Forever} \cup 0..MaxSecs
Secs      == {Forever} \cup 1..MaxSecs
Running   == {"locked", "check", "extend", "reap", "gate", "write", "spawn", "poll"}
Checked   == Running \ {"locked"}
Ended     == {"exit5", "up", "failed", "killed"}
Untrapped == {"entry", "claim", "boot"}
Trapped   == {"fork", "record", "loop", "reap", "kill", "report", "clear"}
AfterToken == {"claim", "boot"} \cup Trapped

TypeOK ==
  /\ until \in Deadlines
  /\ reason \in {"ok", "stopped", "expired", "gate"}
  /\ supFile \in Sups \cup {None}
  /\ token \in Starts \cup {None}
  /\ pids \subseteq Starts \X Helpers
  /\ lock \in Starts \cup {None}
  /\ start \in [Starts -> {"idle"} \cup Running \cup Ended]
  /\ sup \in [Sups -> {"off", "gone"} \cup Untrapped \cup Trapped]
  /\ ending \in [Starts -> {"expired", "stopped"}]
  /\ term \subseteq Sups
  /\ child \in [Starts -> [Helpers -> {"no", "forked", "recorded", "dead"}]]
  /\ dying \in [Starts -> SUBSET (Starts \X Helpers)]
  /\ stop \in [Stops -> {"idle", "wait", "cancel", "clear", "done"}]
  /\ cut \subseteq Starts
  /\ opened \in Sups \cup {None}
  /\ before \in [Stops -> SUBSET Sups]
  /\ raced \subseteq {"late", "stop", "core"}

Init ==
  /\ until = None /\ reason = "stopped" /\ supFile = None /\ token = None
  /\ pids = {} /\ lock = None
  /\ start = [s \in Starts |-> "idle"]
  /\ sup = [s \in Sups |-> "off"]
  /\ ending = [s \in Starts |-> "expired"]
  /\ term = {}
  /\ child = [s \in Starts |-> [h \in Helpers |-> "no"]]
  /\ dying = [s \in Starts |-> {}]
  /\ stop = [p \in Stops |-> "idle"]
  /\ cut = {} /\ opened = None
  /\ before = [p \in Stops |-> {}] /\ raced = {}

-----------------------------------------------------------------------------
\* supervisor_pids and core_supervisor_pids: found by argv, from the exec on.
AliveSups == {s \in Sups : sup[s] \notin {"off", "gone"}}

\* supervisor_alive: the recorded pid is a live supervisor.
SupervisorAlive == supFile \in AliveSups

StopRunning == \E p \in Stops : stop[p] \in {"wait", "cancel", "clear"}

\* Mutant: the deadline is never compared with the clock.
MutNoExpiry(u) == u # None

\* The test of the supervision loop: a missing file ends the window.
WindowOpen(u) == u # None /\ (u = Forever \/ u # 0)

\* What kill_children leaves of the children it took from the pids file.
Killed(c, list) ==
  [s \in Starts |-> [h \in Helpers |-> IF <<s, h>> \in list THEN "dead" ELSE c[s][h]]]

\* Whose children a list names.
Owners(list) == {l[1] : l \in list}

Goto(s, pc)  == start' = [start EXCEPT ![s] = pc]
Leave(s, pc) == Goto(s, pc) /\ lock' = None

-----------------------------------------------------------------------------
(* cmd_start *)
Begin(s) ==
  /\ start[s] = "idle"
  /\ lock = None
  /\ lock' = s /\ Goto(s, "locked")
  /\ UNCHANGED <<files, sup, ending, term, procs, stop, cut, hist>>

BeginBusy(s) ==
  /\ start[s] = "idle"
  /\ lock # None
  /\ Goto(s, "exit5")
  /\ UNCHANGED <<files, lock, sup, ending, term, procs, stop, cut, hist>>

CheckCore(s) ==
  /\ start[s] = "locked"
  /\ IF Core \in AliveSups THEN Leave(s, "exit5")
                           ELSE Goto(s, "check") /\ UNCHANGED lock
  /\ UNCHANGED <<files, sup, ending, term, procs, stop, cut, hist>>

\* Mutant: a live supervisor is misclassified, as by the old grep of /proc.
MutMisclassify(s) ==
  /\ start[s] = "check"
  /\ Goto(s, "reap")
  /\ UNCHANGED <<files, lock, sup, ending, term, procs, stop, cut, hist>>

CheckAlive(s) ==
  /\ start[s] = "check"
  /\ Goto(s, IF SupervisorAlive THEN "extend" ELSE "reap")
  /\ UNCHANGED <<files, lock, sup, ending, term, procs, stop, cut, hist>>

Extend(s) ==
  /\ start[s] = "extend"
  /\ until' \in Secs /\ reason' = "ok"
  /\ Leave(s, "exit5")
  /\ UNCHANGED <<supFile, token, pids, sup, ending, term, procs, stop, cut, hist>>

Reap(s) ==
  /\ start[s] = "reap"
  /\ child' = Killed(child, pids) /\ pids' = {}
  /\ Goto(s, "gate")
  /\ UNCHANGED <<until, reason, supFile, token, lock, sup, ending, term, dying,
                 stop, cut, hist>>

GateOpens(s) ==
  /\ start[s] = "gate"
  /\ Goto(s, "write")
  /\ UNCHANGED <<files, lock, sup, ending, term, procs, stop, cut, hist>>

\* radio_up records "parked" or "no_awdl0", here one value.
GateFails(s) ==
  /\ start[s] = "gate"
  /\ reason' = "gate"
  /\ Leave(s, "failed")
  /\ UNCHANGED <<until, supFile, token, pids, sup, ending, term, procs, stop, cut, hist>>

WriteWindow(s) ==
  /\ start[s] = "write"
  /\ until' \in Secs /\ reason' = "ok" /\ opened' = s
  /\ Goto(s, "spawn")
  /\ UNCHANGED <<supFile, token, pids, lock, sup, ending, term, procs, stop, cut, before,
                 raced>>

Spawn(s) ==
  /\ start[s] = "spawn"
  /\ token' = s /\ sup' = [sup EXCEPT ![s] = "entry"]
  /\ raced' = IF StopRunning THEN raced \cup {"stop"} ELSE raced
  /\ Goto(s, "poll")
  /\ UNCHANGED <<until, reason, supFile, pids, lock, ending, term, procs, stop, cut, opened,
                 before>>

PollUp(s) ==
  /\ start[s] = "poll" /\ SupervisorAlive
  /\ Leave(s, "up")
  /\ UNCHANGED <<files, sup, ending, term, procs, stop, cut, hist>>

\* Ten polls over 5 s, however far the supervisor has come: removing the token
\* stops one that has not read it yet, and only that one.
GiveUp(s) ==
  /\ start[s] = "poll" /\ ~SupervisorAlive
  /\ token' = None /\ reason' = "stopped"
  /\ raced' = IF sup[s] \in AfterToken THEN raced \cup {"late"} ELSE raced
  /\ Leave(s, "failed")
  /\ UNCHANGED <<until, supFile, pids, sup, ending, term, procs, stop, cut, opened, before>>

-----------------------------------------------------------------------------
(* supervise_entry and supervise: a delivered TERM comes before the next   *)
(* command, except in the trap itself.                                     *)
Runs(s, pc) == sup[s] = pc /\ (s \notin term \/ ending[s] = "stopped")
SupGoto(s, pc) == sup' = [sup EXCEPT ![s] = pc]

ReadToken(s) ==
  /\ Runs(s, "entry")
  /\ SupGoto(s, IF token = s THEN "claim" ELSE "gone")
  /\ UNCHANGED <<files, lock, start, ending, term, procs, stop, cut, hist>>

\* Removes whatever token is there by now.
RemoveToken(s) ==
  /\ Runs(s, "claim")
  /\ token' = None /\ SupGoto(s, "boot")
  /\ UNCHANGED <<until, reason, supFile, pids, lock, start, ending, term, procs, stop,
                 cut, hist>>

\* Records the pid and sets the trap.
Boot(s) ==
  /\ Runs(s, "boot")
  /\ supFile' = s /\ SupGoto(s, "fork")
  /\ UNCHANGED <<until, reason, token, pids, lock, start, ending, term, procs, stop,
                 cut, hist>>

\* spawn: the helpers come one after another, in an order that is always the
\* same; the child runs before its pid is in the file.
Fork(s) ==
  /\ Runs(s, "fork")
  /\ \E h \in Helpers : child[s][h] = "no"
  /\ LET h == CHOOSE x \in Helpers : child[s][x] = "no"
     IN  child' = [child EXCEPT ![s][h] = "forked"]
  /\ SupGoto(s, "record")
  /\ UNCHANGED <<files, lock, start, ending, term, dying, stop, cut, hist>>

Record(s) ==
  /\ Runs(s, "record")
  /\ \E h \in Helpers :
       /\ child[s][h] = "forked"
       /\ child' = [child EXCEPT ![s][h] = "recorded"]
       /\ pids' = pids \cup {<<s, h>>}
  /\ SupGoto(s, IF \E h \in Helpers : child[s][h] = "no" THEN "fork" ELSE "loop")
  /\ UNCHANGED <<until, reason, supFile, token, lock, start, ending, term, dying, stop,
                 cut, hist>>

LoopEnds(s) ==
  /\ Runs(s, "loop") /\ ~WindowOpen(until)
  /\ SupGoto(s, "reap")
  /\ UNCHANGED <<files, lock, start, ending, term, procs, stop, cut, hist>>

\* Mutant: the list is read again after the file was moved away.
MutReadTwice(s) ==
  /\ Runs(s, "reap")
  /\ dying' = [dying EXCEPT ![s] = {}] /\ pids' = {}
  /\ SupGoto(s, "kill")
  /\ UNCHANGED <<until, reason, supFile, token, lock, start, ending, term, child, stop,
                 cut, hist>>

\* kill_children takes the file with one rename, then signals what it lists.
TakePids(s) ==
  /\ Runs(s, "reap")
  /\ dying' = [dying EXCEPT ![s] = pids] /\ pids' = {}
  /\ SupGoto(s, "kill")
  /\ UNCHANGED <<until, reason, supFile, token, lock, start, ending, term, child, stop,
                 cut, hist>>

KillTaken(s) ==
  /\ Runs(s, "kill")
  /\ child' = Killed(child, dying[s]) /\ dying' = [dying EXCEPT ![s] = {}]
  /\ SupGoto(s, "report")
  /\ UNCHANGED <<files, lock, start, ending, term, stop, cut, hist>>

Report(s) ==
  /\ Runs(s, "report")
  /\ reason' = ending[s] /\ SupGoto(s, "clear")
  /\ UNCHANGED <<until, supFile, token, pids, lock, start, ending, term, procs, stop,
                 cut, hist>>

Clear(s) ==
  /\ Runs(s, "clear")
  /\ until' = None /\ SupGoto(s, "gone") /\ term' = term \ {s}
  /\ UNCHANGED <<reason, supFile, token, pids, lock, start, ending, procs, stop, cut, hist>>

\* TERM without a trap set ends the process.
TermEarly(s) ==
  /\ s \in term /\ sup[s] \in Untrapped
  /\ SupGoto(s, "gone") /\ term' = term \ {s}
  /\ UNCHANGED <<files, lock, start, ending, procs, stop, cut, hist>>

\* The trap starts the teardown over; the list an interrupted kill_children
\* had already taken is lost.
Trap(s) ==
  /\ s \in term /\ sup[s] \in Trapped /\ ending[s] = "expired"
  /\ SupGoto(s, "reap") /\ ending' = [ending EXCEPT ![s] = "stopped"]
  /\ term' = term \ {s}
  /\ cut' = IF sup[s] = "kill" THEN cut \cup Owners(dying[s]) ELSE cut
  /\ UNCHANGED <<files, lock, start, procs, stop, hist>>

-----------------------------------------------------------------------------
(* cmd_stop *)
StopGoto(p, pc) == stop' = [stop EXCEPT ![p] = pc]
Waited(p) == before' = [before EXCEPT ![p] = {s \in Sups : sup[s] # "off"}]

StopTerm(p) ==
  /\ stop[p] = "idle"
  /\ term' = term \cup AliveSups
  /\ StopGoto(p, "wait")
  /\ UNCHANGED <<files, lock, start, sup, ending, procs, cut, hist>>

\* Mutant: the old fixed wait, which does not look whether they are gone.
MutFixedWait(p) ==
  /\ stop[p] = "wait"
  /\ StopGoto(p, "cancel") /\ Waited(p)
  /\ UNCHANGED <<files, lock, start, sup, ending, term, procs, cut, opened, raced>>

StopGone(p) ==
  /\ stop[p] = "wait" /\ AliveSups = {}
  /\ StopGoto(p, "cancel") /\ Waited(p)
  /\ UNCHANGED <<files, lock, start, sup, ending, term, procs, cut, opened, raced>>

\* A supervisor that has not ended after 10 s: a slow firmware call is enough.
StopKill(p) ==
  /\ stop[p] = "wait" /\ AliveSups # {}
  /\ sup' = [s \in Sups |-> IF s \in AliveSups THEN "gone" ELSE sup[s]]
  /\ term' = term \ AliveSups
  /\ cut' = cut \cup (AliveSups \cap Starts)
                \cup UNION {Owners(dying[s]) : s \in AliveSups \cap Starts}
  /\ child' = Killed(child, pids) /\ pids' = {}
  /\ StopGoto(p, "cancel") /\ Waited(p)
  /\ UNCHANGED <<until, reason, supFile, token, lock, start, ending, dying, opened, raced>>

\* pgrep -f "$0 start", TERM: a start has no trap.
StopCancel(p) ==
  /\ stop[p] = "cancel"
  /\ start' = [s \in Starts |-> IF start[s] \in Running THEN "killed" ELSE start[s]]
  /\ lock' = None
  /\ StopGoto(p, "clear")
  /\ UNCHANGED <<files, sup, ending, term, procs, cut, hist>>

StopClear(p) ==
  /\ stop[p] = "clear"
  /\ until' = None /\ supFile' = None /\ reason' = "stopped"
  /\ StopGoto(p, "done") /\ before' = [before EXCEPT ![p] = {}]
  /\ UNCHANGED <<token, pids, lock, start, sup, ending, term, procs, cut, opened, raced>>

-----------------------------------------------------------------------------
(* The environment: the clock, and omdrop-core, known from what this       *)
(* script expects of it: it opens a window beside no other, and on TERM or *)
(* expiry ends it and removes its state.                                   *)
Tick ==
  /\ until \in 1..MaxSecs
  /\ until' = until - 1
  /\ UNCHANGED <<reason, supFile, token, pids, lock, start, sup, ending, term, procs,
                 stop, cut, hist>>

CoreOpen ==
  /\ sup[Core] = "off" /\ AliveSups = {}
  /\ until' \in Secs
  /\ reason' = "ok" /\ supFile' = Core /\ opened' = Core
  /\ raced' = IF \E s \in Starts : start[s] \in Checked THEN raced \cup {"core"} ELSE raced
  /\ SupGoto(Core, "loop")
  /\ UNCHANGED <<token, pids, lock, start, ending, term, procs, stop, cut, before>>

CoreEnd ==
  /\ sup[Core] = "loop" /\ (Core \in term \/ ~WindowOpen(until))
  /\ until' = None /\ reason' = IF Core \in term THEN "stopped" ELSE "expired"
  /\ SupGoto(Core, "gone") /\ term' = term \ {Core}
  /\ UNCHANGED <<supFile, token, pids, lock, start, ending, procs, stop, cut, hist>>

StartStep(s) ==
  \/ Begin(s) \/ BeginBusy(s) \/ CheckCore(s) \/ CheckAlive(s) \/ Extend(s) \/ Reap(s)
  \/ GateOpens(s) \/ GateFails(s) \/ WriteWindow(s) \/ Spawn(s) \/ PollUp(s) \/ GiveUp(s)

SupStep(s) ==
  \/ ReadToken(s) \/ RemoveToken(s) \/ Boot(s) \/ Fork(s) \/ Record(s) \/ LoopEnds(s)
  \/ TakePids(s) \/ KillTaken(s) \/ Report(s) \/ Clear(s) \/ TermEarly(s) \/ Trap(s)

StopStep(p) ==
  \/ StopTerm(p) \/ StopGone(p) \/ StopKill(p) \/ StopCancel(p) \/ StopClear(p)

Next ==
  \/ \E s \in Starts : StartStep(s) \/ SupStep(s)
  \/ \E p \in Stops : StopStep(p)
  \/ Tick \/ CoreOpen \/ CoreEnd

Spec == Init /\ [][Next]_vars

\* Supervisors keep running and time passes.  Nothing is asked of the callers:
\* a start or a stop may hang or die anywhere.
Fairness == WF_vars(Tick) /\ \A s \in Starts : WF_vars(SupStep(s))

FairSpec == Spec /\ Fairness
-----------------------------------------------------------------------------
(* Properties *)

\* At most one supervisor that got past its token check is alive, ours or
\* omdrop-core's, although presses, stops, expiries and supervisors that are
\* given up interleave at will: the flock, the recorded pid, the token and
\* stop's wait keep cmd_start from stacking a second one.  Three overtakings,
\* and no other, break it: a start gives up on a supervisor that has read its
\* token (:440 after :250), spawns one while a stop runs (:436 against :499),
\* or passes its test for omdrop-core's before that one opens (:393).
OneSupervisor ==
  raced = {} => \A s, q \in AliveSups : sup[s] # "entry" /\ sup[q] # "entry" => s = q

\* When cmd_stop reports the window stopped, every supervisor that was there
\* when it called or that was begun before its wait ended is gone, whatever
\* starts meanwhile, and so are the children they recorded, unless a list of
\* them was lost (cut).
StopIsQuiet ==
  [][\A p \in Stops : stop[p] = "clear" /\ stop'[p] = "done" =>
       \A s \in before[p] :
         /\ sup'[s] = "gone"
         /\ s \in Starts => \A h \in Helpers : child'[s][h] = "recorded" => s \in cut']_vars

\* A start that reports success has its own supervisor up, its pid recorded,
\* and the deadline in force is the one written for it, unless something
\* overtook a start.
UpIsOwn ==
  [][\A s \in Starts : start[s] = "poll" /\ start'[s] = "up" /\ raced = {} =>
       supFile = s /\ sup[s] \in Trapped /\ opened = s]_vars

\* A supervisor that is tearing down, and will record a reason and remove the
\* deadline, does so to the window it was spawned for: none has been opened
\* since, unless something overtook a start (OneSupervisor).
TeardownIsOwn ==
  raced = {} =>
    \A s \in Starts : sup[s] \in {"reap", "kill", "report", "clear"} => opened = s

\* While omdrop-core's window is up and no stop runs, no start changes its
\* deadline or its reason, only time does, unless it opened while a start was
\* past its test for it.
CoreLeftAlone ==
  [][~StopRunning /\ Core \in AliveSups /\ Core \in AliveSups' /\ "core" \notin raced =>
       /\ reason' = reason /\ supFile' = supFile
       /\ (until' # until => until \in 1..MaxSecs /\ until' = until - 1)]_vars

\* A supervisor that has ended leaves no recorded child behind, but to a
\* teardown that has taken the list, or when a list that named it was lost:
\* by a KILL, or by a trap in the middle of kill_children.
NoStrayChild ==
  \A s \in Starts : sup[s] = "gone" =>
    \/ s \in cut
    \/ \A h \in Helpers : child[s][h] = "recorded" =>
         \E q \in Starts : sup[q] = "kill" /\ <<s, h>> \in dying[q]

\* A crashed or absent caller cannot leave the machine advertising: every
\* supervisor ends, unless the window was left without expiry.
WindowEnds ==
  \A s \in Starts : (s \in AliveSups) ~> (s \notin AliveSups \/ until = Forever)
=============================================================================
