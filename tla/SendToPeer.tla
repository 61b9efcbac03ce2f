----------------------------- MODULE SendToPeer -----------------------------
(***************************************************************************)
(* send-to-peer: naming the peers it hears (peer_names, one thread per     *)
(* peer beside the main thread's re-reads of the peer table), waiting for a *)
(* peer's port and running the sender, under the Bluetooth adverts it       *)
(* raises (wake) and must take down again whatever ends it.  The advertiser *)
(* is a child process, ble-airdrop-adv.py; TERM and KILL come at any step.  *)
(***************************************************************************)
EXTENDS FiniteSets, Naturals

CONSTANTS
  Mac,          \* peers that may be in the table
  Own,          \* ports a peer may announce
  AIRDROP_PORT, \* the port of peers that announce none
  None

ASSUME MacAssumption  == IsFiniteSet(Mac) /\ None \notin Mac
ASSUME PortAssumption == AIRDROP_PORT \notin Own /\ None \notin Own \cup {AIRDROP_PORT}

\* Where a wake is raised: around a lookup, a wait, a wait and a transfer.
Scopes == {"lookup", "wait", "send"}

VARIABLES
  wakes,             \* args.wake; the other arguments are chosen where they are read
  pc,                \* where the main thread is, or will be after the wake
  wk, sc,            \* where it is in raising or ending the wake of which scope
  active,            \* the scopes it is in: the TERM handler raises SystemExit
  held,              \* the scopes whose advertiser it knows
  ready, late,       \* the lookup has a deadline; the deadline of the moment is past
  PORTS,             \* the ports peers announced
  mac, port,         \* whom it sends to, and where
  announced,
  sender,            \* the airdrop-send.py of the transfer
  kid, said, told,   \* each advertiser, what it printed, whether it was TERMed
  th,                \* where each peer's thread is
  at,                \* the port it tries
  tries, ans,        \* knocks or asks made, and what peer_name returned
  kept,              \* (history) no read of the table moved its port since
  cut, shot          \* (history) TERM came in a gap; KILL came

waking  == <<wk, sc, active, held>>
sending == <<mac, port, announced, sender>>
kids    == <<kid, said, told>>
threads == <<th, at, tries, ans>>
ends    == <<cut, shot>>
vars    == <<wakes, pc, waking, ready, late, PORTS, sending, kids, threads, kept, ends>>

Ports == Own \cup {AIRDROP_PORT}

TypeOK ==
  /\ wakes \in BOOLEAN
  /\ pc \in {"begin", "ask", "check", "collect", "rescan", "named", "choose", "first", "poll",
             "reread", "swap", "run", "sending", "leave", "gone"}
  /\ wk \in {"no", "spawn", "gap", "read", "give", "stop", "reap"} /\ sc \in Scopes
  /\ active \subseteq Scopes /\ held \subseteq active
  /\ ready \in BOOLEAN /\ late \in BOOLEAN /\ PORTS \in [Mac -> Ports]
  /\ mac \in Mac \cup {None} /\ port \in Ports /\ announced \in BOOLEAN
  /\ sender \in {"no", "run", "done", "killed", "orphan"}
  /\ kid \in [Scopes -> {"none", "boot", "air", "failed", "dead"}]
  /\ said \in [Scopes -> {"nothing", "START", "FAILED"}] /\ told \in [Scopes -> BOOLEAN]
  /\ th \in [Mac -> {"none", "knock", "knocking", "answered", "ignored", "asking", "done", "got"}]
  /\ at \in [Mac -> Ports] /\ tries \in [Mac -> 0..3]
  /\ ans \in [Mac -> {"none", "name", "other"}]
  /\ kept \in [Mac -> BOOLEAN] /\ cut \in BOOLEAN /\ shot \in BOOLEAN

\* The pool and its threads are gone, or not there yet.
NoThreads(t, a, n, r, k) ==
  /\ t = [m \in Mac |-> "none"] /\ a = [m \in Mac |-> AIRDROP_PORT]
  /\ n = [m \in Mac |-> 0] /\ r = [m \in Mac |-> "none"] /\ k = [m \in Mac |-> TRUE]

Forget == NoThreads(th', at', tries', ans', kept')

Init ==
  /\ wakes \in BOOLEAN
  /\ pc = "begin" /\ wk = "no" /\ sc = "lookup" /\ active = {} /\ held = {}
  /\ ready = FALSE /\ late = FALSE /\ PORTS = [m \in Mac |-> AIRDROP_PORT]
  /\ mac = None /\ port = AIRDROP_PORT /\ announced = FALSE /\ sender = "no"
  /\ kid = [s \in Scopes |-> "none"] /\ said = [s \in Scopes |-> "nothing"]
  /\ told = [s \in Scopes |-> FALSE] /\ NoThreads(th, at, tries, ans, kept)
  /\ cut = FALSE /\ shot = FALSE

Alive(s) == kid[s] \in {"boot", "air", "failed"}
At(l)    == pc = l /\ wk = "no"

-----------------------------------------------------------------------------
(* peers(): the table as one read shows it, and the ports seen in it *)

\* A port is kept for as long as its peer is in the table.
MutKeepPorts(found, ports) ==
  PORTS' = [m \in Mac |-> IF m \in found THEN ports[m] ELSE AIRDROP_PORT]

KeepPorts(found, ports) ==
  PORTS' = [m \in Mac |-> IF m \notin found THEN AIRDROP_PORT
                          ELSE IF ports[m] # AIRDROP_PORT THEN ports[m] ELSE PORTS[m]]

Peers(found) ==
  \E ports \in [Mac -> Ports] :
    /\ \A m \in Mac \ found : ports[m] = AIRDROP_PORT
    /\ KeepPorts(found, ports)
    /\ kept' = [m \in Mac |-> th[m] = "none" \/ (kept[m] /\ m \in found
                                                  /\ ports[m] \in {AIRDROP_PORT, at[m]})]

-----------------------------------------------------------------------------
(* wake *)
Enter(s) == wk' = "spawn" /\ sc' = s /\ active' = active \cup {s} /\ UNCHANGED held
Leave(s) == wk' = "stop" /\ sc' = s /\ UNCHANGED <<active, held>>
Left     == wk' = "no" /\ active' = active \ {sc} /\ held' = held \ {sc} /\ UNCHANGED sc
EnterIf(c, s) == IF c THEN Enter(s) ELSE UNCHANGED waking

\* Popen, unless the advertiser is not installed or does not start.
WakeSpawn ==
  /\ wk = "spawn"
  /\ \/ wk' = "gap" /\ kid' = [kid EXCEPT ![sc] = "boot"]
     \/ wk' = "no" /\ UNCHANGED kid
  /\ UNCHANGED <<wakes, pc, sc, active, held, ready, late, PORTS, sending, said, told, threads,
                 kept, ends>>

WakeTry ==
  /\ wk = "gap" /\ wk' = "read"
  /\ UNCHANGED <<wakes, pc, sc, active, held, ready, late, PORTS, sending, kids, threads, kept,
                 ends>>

\* The advertiser's lines until START, FAILED, its end or WAKE_READY.
WakeRead ==
  /\ wk = "read"
  /\ wk' = IF kid[sc] = "dead" /\ said[sc] = "nothing" THEN "no" ELSE "give"
  /\ ready' = (ready \/ (sc = "lookup" /\ said[sc] = "START"))
  /\ UNCHANGED <<wakes, pc, sc, active, held, late, PORTS, sending, kids, threads, kept, ends>>

WakeGive ==
  /\ wk = "give" /\ wk' = "no" /\ held' = held \cup {sc}
  /\ UNCHANGED <<wakes, pc, sc, active, ready, late, PORTS, sending, kids, threads, kept, ends>>

\* _wake_stop: TERM, then wait; after five seconds KILL.
WakeStop ==
  /\ wk = "stop"
  /\ IF sc \in held /\ Alive(sc)
     THEN told' = [told EXCEPT ![sc] = TRUE] /\ wk' = "reap" /\ UNCHANGED <<sc, active, held>>
     ELSE Left /\ UNCHANGED told
  /\ UNCHANGED <<wakes, pc, ready, late, PORTS, sending, kid, said, threads, kept, ends>>

WakeReap ==
  /\ wk = "reap" /\ kid' = [kid EXCEPT ![sc] = "dead"] /\ Left
  /\ UNCHANGED <<wakes, pc, ready, late, PORTS, sending, said, told, threads, kept, ends>>

(* ble-airdrop-adv.py *)
KidStep(s, state, word) ==
  /\ kid' = [kid EXCEPT ![s] = state] /\ said' = [said EXCEPT ![s] = word]
  /\ UNCHANGED <<wakes, pc, waking, ready, late, PORTS, sending, told, threads, kept, ends>>

KidStarts(s)  == kid[s] = "boot" /\ ~told[s] /\ KidStep(s, "air", "START")
KidRefused(s) == kid[s] = "boot" /\ KidStep(s, "failed", "FAILED")
KidExits(s)   == kid[s] \in {"boot", "failed"} /\ KidStep(s, "dead", said[s])
KidExpires(s) == kid[s] = "air" /\ KidStep(s, "dead", said[s])
KidStops(s)   == Alive(s) /\ told[s] /\ KidStep(s, "dead", said[s])

-----------------------------------------------------------------------------
(* peer_names and its threads *)
\* The first read; a failed one ends the command.  A transfer takes the one
\* peer its address fits, or the only one; anything else needs names.
Begin ==
  /\ At("begin")
  /\ \/ pc' = "leave" /\ UNCHANGED <<waking, PORTS, kept, mac, th>>
     \/ \E found \in SUBSET Mac :
          /\ Peers(found)
          /\ \/ pc' = "choose" /\ mac' \in found /\ UNCHANGED <<waking, th>>
             \/ pc' = "leave" /\ UNCHANGED <<waking, th, mac>>
             \/ /\ EnterIf(wakes, "lookup") /\ pc' = "ask"
                /\ th' = [m \in Mac |-> IF m \in found THEN "knock" ELSE "none"]
                /\ UNCHANGED mac
  /\ UNCHANGED <<wakes, ready, late, port, announced, sender, kids, at, tries, ans, ends>>

\* The pool starts; until now no thread ran.
Ask ==
  /\ At("ask") /\ pc' = "check"
  /\ UNCHANGED <<wakes, waking, ready, late, PORTS, sending, kids, threads, kept, ends>>

Asked   == {m \in Mac : th[m] # "none"}
Pending == {m \in Mac : th[m] \notin {"none", "got"}}

MutGoesOn == Pending # {} \/ (Asked = {} /\ ready)
GoesOn    == Pending # {} \/ (Asked = {} /\ ready /\ ~late)

Check ==
  /\ At("check")
  /\ IF GoesOn THEN pc' = "collect" /\ UNCHANGED waking
     ELSE pc' = "named" /\ IF "lookup" \in active THEN Leave("lookup") ELSE UNCHANGED waking
  /\ UNCHANGED <<wakes, ready, late, PORTS, sending, kids, threads, kept, ends>>

Collect ==
  /\ At("collect")
  /\ th' = [m \in Mac |-> IF th[m] = "done" THEN "got" ELSE th[m]]
  /\ pc' = IF ready /\ ~late THEN "rescan" ELSE "check"
  /\ UNCHANGED <<wakes, waking, ready, late, PORTS, sending, kids, at, tries, ans, kept, ends>>

\* A failed read finds nobody new.
Rescan ==
  /\ At("rescan") /\ pc' = "check"
  /\ \/ UNCHANGED <<PORTS, th, kept>>
     \/ \E found \in SUBSET Mac :
          /\ Peers(found)
          /\ th' = [m \in Mac |-> IF m \in found \ Asked THEN "knock" ELSE th[m]]
  /\ UNCHANGED <<wakes, waking, ready, late, sending, kids, at, tries, ans, ends>>

Deadline ==
  /\ wk = "no" /\ ~late
  /\ \/ pc \in {"check", "collect", "rescan"} /\ ready
     \/ pc \in {"leave"} /\ "lookup" \in active /\ ready
     \/ pc \in {"poll", "reread", "swap"}
  /\ late' = TRUE
  /\ UNCHANGED <<wakes, pc, waking, ready, PORTS, sending, kids, threads, kept, ends>>

Thread(m) ==
  /\ pc \in {"check", "collect", "rescan", "leave"}
  /\ UNCHANGED <<wakes, pc, waking, ready, late, PORTS, sending, kids, ends>>

Knock(m) ==
  /\ Thread(m) /\ th[m] = "knock"
  /\ IF (ready /\ late) \/ (~ready /\ tries[m] = 2)
     THEN th' = [th EXCEPT ![m] = "ignored"] /\ UNCHANGED <<at, tries, kept>>
     ELSE /\ th' = [th EXCEPT ![m] = "knocking"]
          /\ at' = [at EXCEPT ![m] = PORTS[m]] /\ kept' = [kept EXCEPT ![m] = TRUE]
          /\ tries' = IF ready THEN tries ELSE [tries EXCEPT ![m] = @ + 1]
  /\ UNCHANGED ans

Knocked(m) ==
  /\ Thread(m) /\ th[m] = "knocking"
  /\ \E next \in {"knock", "answered"} : th' = [th EXCEPT ![m] = next]
  /\ UNCHANGED <<at, tries, ans, kept>>

\* A peer that answered gets three asks, another one, all on one port.
Dial(m) ==
  /\ Thread(m) /\ th[m] \in {"answered", "ignored"}
  /\ th' = [th EXCEPT ![m] = "asking"]
  /\ at' = [at EXCEPT ![m] = PORTS[m]] /\ kept' = [kept EXCEPT ![m] = TRUE]
  /\ tries' = [tries EXCEPT ![m] = IF th[m] = "answered" THEN 3 ELSE 1]
  /\ UNCHANGED ans

Answer(m) ==
  /\ Thread(m) /\ th[m] = "asking"
  /\ \/ /\ tries[m] > 1 /\ tries' = [tries EXCEPT ![m] = @ - 1]
        /\ UNCHANGED <<th, ans>>
     \/ /\ th' = [th EXCEPT ![m] = "done"] /\ UNCHANGED tries
        /\ \/ tries[m] = 1 /\ UNCHANGED ans
           \/ \E a \in {"name", "other"} : ans' = [ans EXCEPT ![m] = a]
  /\ UNCHANGED <<at, kept>>

\* What the names are for: a listing, or a transfer to the one peer that fits.
Named ==
  /\ At("named")
  /\ LET fit == {m \in Mac : ans[m] = "name"}
     IN  \/ Cardinality(fit) = 1 /\ pc' = "choose" /\ mac' \in fit
         \/ pc' = "leave" /\ UNCHANGED mac
  /\ UNCHANGED <<wakes, waking, ready, late, PORTS, port, announced, sender, kids, threads, kept,
                 ends>>

-----------------------------------------------------------------------------
(* The wait and the transfer *)
Choose ==
  /\ At("choose")
  /\ port' = PORTS[mac] /\ announced' = (PORTS[mac] # AIRDROP_PORT) /\ late' = FALSE
  /\ EnterIf(wakes /\ announced', "send")
  /\ pc' \in {"first", "run"}
  /\ Forget /\ ready' = FALSE
  /\ UNCHANGED <<wakes, PORTS, mac, sender, kids, ends>>

First ==
  /\ At("first")
  /\ \/ pc' = "run" /\ UNCHANGED waking
     \/ pc' = "poll" /\ EnterIf(wakes /\ ~announced, "wait")
  /\ UNCHANGED <<wakes, ready, late, PORTS, sending, kids, threads, kept, ends>>

Poll ==
  /\ At("poll")
  /\ \/ late /\ pc' = "leave" /\ UNCHANGED waking
     \/ ~late /\ pc' = "run" /\ IF "wait" \in active THEN Leave("wait") ELSE UNCHANGED waking
     \/ ~late /\ pc' = "reread" /\ UNCHANGED waking
  /\ UNCHANGED <<wakes, ready, late, PORTS, sending, kids, threads, kept, ends>>

MutReread ==
  /\ At("reread")
  /\ \/ pc' = "poll" /\ UNCHANGED <<PORTS, kept, port, announced>>
     \/ /\ ~announced
        /\ \E found \in SUBSET Mac : Peers(found)
        /\ IF PORTS'[mac] = AIRDROP_PORT
           THEN pc' = "poll" /\ UNCHANGED <<port, announced>>
           ELSE /\ port' = PORTS'[mac] /\ announced' = TRUE
                /\ pc' = IF wakes THEN "swap" ELSE "poll"
  /\ UNCHANGED <<wakes, waking, ready, late, mac, sender, kids, threads, ends>>

\* Not yet time, announced already, a read that failed, or one that shows the
\* port of a peer that had none.
Reread ==
  /\ At("reread")
  /\ \/ pc' = "poll" /\ UNCHANGED <<waking, PORTS, kept, port, announced>>
     \/ /\ ~announced
        /\ \E found \in SUBSET Mac : Peers(found)
        /\ IF PORTS'[mac] = AIRDROP_PORT
           THEN pc' = "poll" /\ UNCHANGED <<waking, port, announced>>
           ELSE /\ port' = PORTS'[mac] /\ announced' = TRUE
                /\ pc' = IF wakes THEN "swap" ELSE "poll"
                /\ IF "wait" \in active THEN Leave("wait") ELSE UNCHANGED waking
  /\ UNCHANGED <<wakes, ready, late, mac, sender, kids, threads, ends>>

\* One advert at a time: the wait's is down before the transfer's goes up.
Swap ==
  /\ At("swap") /\ pc' = "poll" /\ Enter("send")
  /\ UNCHANGED <<wakes, ready, late, PORTS, sending, kids, threads, kept, ends>>

Run ==
  /\ At("run") /\ pc' = "sending" /\ sender' = "run"
  /\ UNCHANGED <<wakes, waking, ready, late, PORTS, mac, port, announced, kids, threads, kept, ends>>

Sent ==
  /\ At("sending") /\ pc' = "leave" /\ sender' = "done"
  /\ UNCHANGED <<wakes, waking, ready, late, PORTS, mac, port, announced, kids, threads, kept, ends>>

-----------------------------------------------------------------------------
(* The end: scopes are left from the inside out, the lookup's after its pool *)
Inner == IF "lookup" \in active THEN "lookup" ELSE IF "wait" \in active THEN "wait" ELSE "send"

LeaveStep ==
  /\ At("leave")
  /\ IF active = {} THEN pc' = "gone" /\ UNCHANGED waking
     ELSE /\ Inner = "lookup" => \A m \in Mac : th[m] \in {"none", "done", "got"}
          /\ Leave(Inner) /\ UNCHANGED pc
  /\ Forget
  /\ UNCHANGED <<wakes, ready, late, PORTS, sending, kids, ends>>

Main ==
  \/ WakeSpawn \/ WakeTry \/ WakeRead \/ WakeGive \/ WakeStop \/ WakeReap
  \/ Begin \/ Ask \/ Check \/ Collect \/ Rescan \/ Named
  \/ Choose \/ First \/ Poll \/ Reread \/ Swap \/ Run \/ Sent \/ LeaveStep
-----------------------------------------------------------------------------
(* TERM and KILL *)

\* SystemExit is raised wherever the main thread is.  An advertiser whose pid
\* is not yet, or no longer, in a variable a finally looks at is left behind.
Gap == wk \in {"gap", "give"} \/ (wk = "stop" /\ sc \in held)

MutRaise ==
  /\ active # {} /\ pc # "gone" /\ pc' = "leave" /\ cut' = (cut \/ (Gap /\ Alive(sc)))
  /\ sender' = (IF sender = "run" THEN "killed" ELSE sender)
  /\ IF wk \in {"stop", "reap", "read"} THEN Left ELSE wk' = "no" /\ UNCHANGED <<sc, active, held>>
  /\ UNCHANGED <<wakes, ready, late, PORTS, mac, port, announced, kids, threads, kept, shot>>

Raise ==
  /\ active # {} /\ pc # "gone" /\ pc' = "leave" /\ cut' = (cut \/ (Gap /\ Alive(sc)))
  /\ sender' = (IF sender = "run" THEN "killed" ELSE sender)
  /\ told' = (IF wk = "read" THEN [told EXCEPT ![sc] = TRUE] ELSE told)
  /\ IF wk = "read" THEN wk' = "reap" /\ UNCHANGED <<sc, active, held>>
     ELSE IF wk \in {"stop", "reap"} THEN Left
     ELSE IF wk = "no" /\ pc = "leave" THEN Leave(Inner)
     ELSE wk' = "no" /\ UNCHANGED <<sc, active, held>>
  /\ UNCHANGED <<wakes, ready, late, PORTS, mac, port, announced, kid, said, threads, kept, shot>>

Gone ==
  /\ pc' = "gone" /\ wk' = "no"
  /\ sender' = (IF sender = "run" THEN "orphan" ELSE sender)
  /\ Forget
  /\ UNCHANGED <<wakes, sc, active, held, ready, late, PORTS, mac, port, announced, kids, cut>>

Term == Raise \/ (active = {} /\ pc # "gone" /\ Gone /\ UNCHANGED shot)
Kill == pc # "gone" /\ Gone /\ shot' = TRUE

ThreadStep(m) == Knock(m) \/ Knocked(m) \/ Dial(m) \/ Answer(m)
KidEnds(s)    == KidExits(s) \/ KidExpires(s) \/ KidStops(s)

Next ==
  \/ Main \/ Deadline \/ Term \/ Kill
  \/ \E m \in Mac : ThreadStep(m)
  \/ \E s \in Scopes : KidStarts(s) \/ KidRefused(s) \/ KidEnds(s)

Spec == Init /\ [][Next]_vars

\* The main thread is in a child that it waits for without a timeout: pkexec and
\* ip in a read of the table, or the sender itself.
Calling ==
  wk = "no" /\ (pc \in {"begin", "rescan", "sending"} \/ (pc = "reread" /\ ~announced))

\* Every other step of the main thread, and a knock or ask, ends by itself or by
\* a timeout of its own; the deadline comes, and an advert's --seconds run out.
\* Nothing is asked of the children called.
FairSpec ==
  /\ Spec /\ WF_vars(Main /\ ~Calling) /\ WF_vars(Deadline)
  /\ \A m \in Mac : WF_vars(ThreadStep(m))
  /\ \A s \in Scopes : WF_vars(KidExpires(s))

-----------------------------------------------------------------------------
(* Properties *)

\* One advert at a time, whichever scopes follow one another or are replaced
\* in the middle of a wait.
OneAdvert == \A s, u \in Scopes : Alive(s) /\ Alive(u) => s = u

\* When the command is gone, by its own end or by TERM, no advertiser of its
\* is left to its own --seconds, unless TERM came in a gap.
NothingLeftOnAir ==
  pc = "gone" /\ ~cut /\ ~shot => \A s \in Scopes : Alive(s) => told[s]

\* The transfer runs under the advert of a peer that announced its port,
\* not told to end before it, and under none for another peer.
WakeThroughTransfer ==
  sender = "run" =>
    /\ ~Alive("wait") /\ ~Alive("lookup")
    /\ ~announced => ~Alive("send")
    /\ announced /\ said["send"] = "START" => "send" \in held /\ ~told["send"]

\* Between the knock a peer answered and the ask, and between the ask and the
\* transfer, the port stays what it was unless the peer left the table or
\* announced another.
AnsweredPortKept ==
  [][/\ \A m \in Mac : th[m] = "answered" /\ th'[m] = "asking" /\ kept[m] => at'[m] = at[m]
     /\ At("choose") /\ pc' \in {"first", "run"} /\ th[mac] = "got" /\ kept[mac] =>
          port' = at[mac]]_vars

\* Whoever answers or joins or does not, the command ends, unless a child it
\* waits for without a timeout never does: pkexec (:233), ip (:290) or the
\* sender (:765).  Its adverts end in any case, even those of a command that
\* hangs or was killed over them.
Ends ==
  /\ <>[](\A s \in Scopes : kid[s] # "air")
  /\ <>[](pc = "gone") \/ <>[]Calling
=============================================================================
