-------------------------------- MODULE Radio --------------------------------
(***************************************************************************)
(* The radio under a discoverability window: the data-path gate and the    *)
(* identity writes of a start (radio_up, write_identity), the supervisor's *)
(* radio_tick with its election tracking, and awdl-up, which creates,      *)
(* reconfigures or reloads awdl0 beside them.  The firmware is an          *)
(* environment: whether AWDL is enabled, the PSF template it holds, the    *)
(* election it is in, and whether its transmit path is parked.  Any GET or *)
(* SET may fail while it does not answer; a template is lost only when the *)
(* firmware starts over, so it may outlive awdl0.                          *)
(*                                                                         *)
(* A start runs its radio work only while no supervisor ticks, which is    *)
(* what module Window shows of the lock and the recorded supervisor.       *)
(***************************************************************************)
EXTENDS Naturals

CONSTANTS
  Trees,    \* election states: master, sync, depth and metrics
  Self,     \* rooted on this machine, and what failed GETs read as
  None,
  Enables   \* awdl=0/1 cycles the gate spends on a parked path

ASSUME TreesAssumption   == Self \in Trees /\ None \notin Trees
ASSUME EnablesAssumption == Enables \in Nat \ {0}

VARIABLES
  iface,     \* awdl0: "absent", "down", or "up" with a link-local address
  awdl,      \* AWDL is enabled in the firmware
  tmpl,      \* the state the loaded PSF template advertises
  tree,      \* the firmware's election state
  parked,    \* AWDL is enabled and the firmware submits no frame to the air
  hung,      \* awdl=0 was set with a template loaded
  healthy,   \* iovars succeed; otherwise any GET or SET may fail
  recorded,  \* $RUN/election.state
  pending,   \* $RUN/election.pending
  start,     \* where the start is
  tries,     \* enables left to the gate
  again,     \* the enable's second probe is still to come
  win,       \* a window is open: its supervisor ticks
  obs,       \* track_election's state, between reading and writing it
  up,        \* awdl-up: "idle", or about to "create" awdl0 or to "apply" awdl=0
  last, twice, \* (history) what was observed last, and whether twice in a row
  slips      \* (history) how the guards of a loaded template were passed by

fw    == <<awdl, tmpl, parked, hung>>
files == <<recorded, pending>>
hist  == <<last, twice>>
ups   == <<up, slips>>
gates == <<start, tries, again>>
vars  == <<iface, fw, tree, healthy, files, gates, win, obs, hist, ups>>

MaybeTree == Trees \cup {None}

TypeOK ==
  /\ iface \in {"absent", "down", "up"}
  /\ tree \in Trees /\ tmpl \in MaybeTree
  /\ {awdl, parked, hung, healthy, again, win, twice} \subseteq BOOLEAN
  /\ recorded \in MaybeTree /\ pending \in MaybeTree
  /\ start \in {"idle", "ready", "gate", "guard", "off", "on", "probe", "link", "identity",
                "write", "open"}
  /\ tries \in 0..Enables
  /\ obs \in MaybeTree /\ last \in MaybeTree
  /\ up \in {"idle", "create", "apply"}
  /\ slips \subseteq {"create", "get", "race", "rebuilt"}

\* After boot: awdl-up has run or not, AWDL is idle, no template.
Init ==
  /\ iface \in {"absent", "up"} /\ tree \in Trees
  /\ awdl = FALSE /\ tmpl = None /\ parked = FALSE /\ hung = FALSE
  /\ healthy = TRUE
  /\ recorded = None /\ pending = None
  /\ start = "idle" /\ tries = 0 /\ again = FALSE /\ win = FALSE
  /\ obs = None /\ last = None /\ twice = FALSE /\ up = "idle" /\ slips = {}

-----------------------------------------------------------------------------
\* iovar_set awdl 0: the firmware hangs if a template is loaded (023513Z).
Disable == awdl' = FALSE /\ parked' = FALSE /\ hung' = (hung \/ tmpl # None)

\* A burst of 20 frames and the completions the firmware logs for it.
Completes == awdl /\ ~parked /\ ~hung

\* A SET may take effect, and a GET or SET is sure to succeed.
Reaches == iface # "absent" /\ ~hung
Answers == Reaches /\ healthy

\* A GET taken as a yes or no: one that fails reads as no.
Reads(fact) == IF Answers THEN {fact} ELSE {fact, FALSE}

\* iovar_len awdl_payload: the GET fails while AWDL is disabled.
TemplateReads == Reads(awdl /\ tmpl # None)

\* (history) A guard that read no template although one is loaded.
Missed == slips' = IF tmpl # None THEN slips \cup {"get"} ELSE slips

\* election_state: a GET that fails reads as rooted on ourselves.
Observed == IF Answers THEN {tree} ELSE {tree, Self}

\* The SET of a template: a disabled or absent AWDL, or a sick firmware, may
\* refuse; one that fails is taken to have changed nothing.
MayFail    == ~Answers \/ ~awdl
MaySucceed == awdl /\ Reaches

\* The rebuild of a missing awdl0 by awdl-up.
Rebuild == iface = "absent" /\ up = "idle" /\ up' = "create" /\ UNCHANGED <<iface, slips>>

-----------------------------------------------------------------------------
(* radio_up: rebuild, then the gate *)
Begin ==
  /\ start = "idle" /\ ~win
  /\ start' = "ready"
  /\ UNCHANGED <<iface, fw, tree, healthy, files, tries, again, win, obs, hist, ups>>

Give == start' = "idle"

\* The gate is over, one way or the other.
GateDone(pc) == start' = pc /\ tries' = 0 /\ again' = FALSE

\* awdl0_ready brings the link up; a missing awdl0 is rebuilt by awdl-up, or
\* not.  The start waits at most 60 s, and awdl-up's last SET may outlive that.
Ready ==
  /\ start = "ready"
  /\ \/ iface # "absent" /\ iface' = "up" /\ start' = "gate" /\ UNCHANGED ups
     \/ Rebuild /\ UNCHANGED start
     \/ iface = "absent" /\ Give /\ UNCHANGED <<iface, ups>>
  /\ UNCHANGED <<fw, tree, healthy, files, tries, again, win, obs, hist>>

\* The first probe.  A module that cannot log completions opens the gate
\* unproven; a link that went away makes the probe inconclusive.
Gate ==
  /\ start = "gate"
  /\ start' \in {"link", IF iface # "up" THEN "idle"
                         ELSE IF Completes THEN "link" ELSE "guard"}
  /\ UNCHANGED <<iface, fw, tree, healthy, files, tries, again, win, obs, hist, ups>>

\* Mutant: the gate does not ask for a template.
MutGuard ==
  /\ start = "guard"
  /\ start' = "off" /\ tries' = Enables
  /\ UNCHANGED <<iface, fw, tree, healthy, files, again, win, obs, hist, ups>>

\* No awdl=0 while the GET shows a template.
Guard ==
  /\ start = "guard"
  /\ \E seen \in TemplateReads :
       \/ seen /\ Give /\ UNCHANGED <<tries, slips>>
       \/ ~seen /\ start' = "off" /\ tries' = Enables /\ Missed
  /\ UNCHANGED <<iface, fw, tree, healthy, files, again, win, obs, hist, up>>

\* Nobody looks whether the SETs of the retoggle failed.
Off ==
  /\ start = "off"
  /\ \/ Reaches /\ Disable /\ iface' = "down"
     \/ ~Answers /\ UNCHANGED <<awdl, parked, hung, iface>>
  /\ start' = "on" /\ tries' = tries - 1
  /\ UNCHANGED <<tmpl, tree, healthy, files, again, win, obs, hist, ups>>

\* The path parks, or not, on every enable; the netdev may stay down.
On ==
  /\ start = "on"
  /\ \/ Reaches /\ awdl' = TRUE /\ parked' \in BOOLEAN /\ iface' \in {"down", "up"}
     \/ ~Answers /\ UNCHANGED <<awdl, parked, iface>>
  /\ again' = TRUE /\ start' = "probe"
  /\ UNCHANGED <<tmpl, hung, tree, healthy, files, tries, win, obs, hist, ups>>

\* Two probes per enable, then the next enable, then parked.
Probe ==
  /\ start = "probe"
  /\ \/ iface # "up" /\ GateDone("idle")
     \/ iface = "up" /\ Completes /\ GateDone("link")
     \/ iface = "up" /\ ~Completes /\ again /\ again' = FALSE /\ UNCHANGED <<start, tries>>
     \/ iface = "up" /\ ~Completes /\ ~again /\ tries # 0 /\ start' = "off"
        /\ UNCHANGED <<tries, again>>
     \/ iface = "up" /\ ~Completes /\ ~again /\ tries = 0 /\ GateDone("idle")
  /\ UNCHANGED <<iface, fw, tree, healthy, files, win, obs, hist, ups>>

\* The link the toggles dropped, and its address within 15 s.
Link ==
  /\ start = "link"
  /\ \/ iface # "absent" /\ iface' = "up" /\ start' = "identity"
     \/ Give /\ UNCHANGED iface
  /\ UNCHANGED <<fw, tree, healthy, files, tries, again, win, obs, hist, ups>>

-----------------------------------------------------------------------------
(* write_identity and radio_tick: track_election, read and then write. *)
See(s) == last' = s /\ twice' = (s = last)

\* election.state is removed, so the first template write is immediate.
Identity ==
  /\ start = "identity"
  /\ recorded' = None /\ pending' = None
  /\ \E s \in Observed : obs' = s /\ last' = s
  /\ twice' = FALSE /\ start' = "write" /\ slips' = slips \ {"rebuilt"}
  /\ UNCHANGED <<iface, fw, tree, healthy, tries, again, win, up>>

\* Nothing to write: unchanged, or the first sighting of a change.
Settled(s) == s = recorded
MutFlapped(s) == recorded # None /\ s # recorded
Flapped(s) == recorded # None /\ s # recorded /\ s # pending

TickQuiet ==
  /\ win /\ obs = None
  /\ \E s \in Observed :
       /\ \/ Settled(s) /\ pending' = None
          \/ Flapped(s) /\ pending' = s
       /\ See(s)
  /\ iface' = IF iface = "down" THEN "up" ELSE iface
  /\ UNCHANGED <<fw, tree, healthy, recorded, gates, win, obs, ups>>

TickChanged ==
  /\ win /\ obs = None
  /\ \E s \in Observed : ~Settled(s) /\ ~Flapped(s) /\ See(s) /\ obs' = s
  /\ pending' = None
  /\ iface' = IF iface = "down" THEN "up" ELSE iface
  /\ UNCHANGED <<fw, tree, healthy, recorded, gates, win, ups>>

\* (history) A template written between awdl-up's GETs and its awdl=0.
Raced == slips' = IF up = "apply" /\ tmpl' # None THEN slips \cup {"race"} ELSE slips

\* Mutant: a write is recorded whether the firmware accepted it or not.
MutWriteTemplate ==
  /\ obs # None
  /\ \/ MaySucceed /\ tmpl' = obs
     \/ MayFail /\ UNCHANGED tmpl
  /\ recorded' = obs /\ obs' = None
  /\ start' = IF start = "write" THEN "open" ELSE start
  /\ Raced
  /\ UNCHANGED <<iface, awdl, parked, hung, tree, healthy, pending, tries, again, win,
                 hist, up>>

\* Only a write the firmware accepted is recorded.
WriteTemplate ==
  /\ obs # None
  /\ \/ MaySucceed /\ tmpl' = obs /\ recorded' = obs
     \/ MayFail /\ UNCHANGED <<tmpl, recorded>>
  /\ obs' = None
  /\ start' = IF start = "write" THEN "open" ELSE start
  /\ Raced
  /\ UNCHANGED <<iface, awdl, parked, hung, tree, healthy, pending, tries, again, win,
                 hist, up>>

Open ==
  /\ start = "open"
  /\ win' = TRUE /\ start' = "idle"
  /\ UNCHANGED <<iface, fw, tree, healthy, files, tries, again, obs, hist, ups>>

\* Expiry or stop; the template stays loaded.
Close ==
  /\ win /\ obs = None /\ win' = FALSE
  /\ UNCHANGED <<iface, fw, tree, healthy, files, gates, obs, hist, ups>>

\* stop cancels a start still in its radio work.
Cancel ==
  /\ start # "idle" /\ GateDone("idle") /\ obs' = None
  /\ UNCHANGED <<iface, fw, tree, healthy, files, win, hist, ups>>

-----------------------------------------------------------------------------
(* awdl-up, run at boot, by hand, by a hook or by a start; one at a time.   *)
(* It may be killed, or give up waiting for the station, before any step.   *)
Advertising == win \/ start \in {"write", "open"}

\* A missing awdl0 is built; on one that is there the link is brought up and
\* the schedule applied, unless AWDL reads as enabled or a template as loaded.
AwdlUp ==
  /\ up = "idle"
  /\ \/ Rebuild
     \/ /\ iface # "absent" /\ iface' = "up"
        /\ \E on \in Reads(awdl), seen \in TemplateReads :
             IF on \/ seen THEN UNCHANGED ups ELSE up' = "apply" /\ Missed
  /\ UNCHANGED <<fw, tree, healthy, files, gates, win, obs, hist>>

\* --reload starts the firmware over, or fails to unload the module; either
\* way it falls through to the create path.
Reload ==
  /\ up = "idle" /\ up' = "create"
  /\ \/ /\ awdl' = FALSE /\ tmpl' = None /\ parked' = FALSE /\ hung' = FALSE
        /\ iface' = "absent" /\ slips' = slips \cap {"rebuilt"}
     \/ UNCHANGED <<fw, iface, slips>>
  /\ UNCHANGED <<tree, healthy, files, gates, win, obs, hist>>

\* The create path, which does not ask for a template.
Create ==
  /\ up = "create" /\ up' = "apply" /\ iface' = "up"
  /\ slips' = slips \cup (IF tmpl # None THEN {"create"} ELSE {})
                   \cup (IF Advertising THEN {"rebuilt"} ELSE {})
  /\ UNCHANGED <<fw, tree, healthy, files, gates, win, obs, hist>>

\* apply_schedule: its first SET is awdl=0.
Apply ==
  /\ up = "apply" /\ up' = "idle" /\ Reaches /\ Disable
  /\ UNCHANGED <<iface, tmpl, tree, healthy, files, gates, win, obs, hist, slips>>

AwdlUpEnds ==
  /\ up # "idle" /\ up' = "idle"
  /\ UNCHANGED <<iface, fw, tree, healthy, files, gates, win, obs, hist, slips>>

-----------------------------------------------------------------------------
(* The environment *)
Elect ==
  /\ \E t \in Trees \ {tree} : tree' = t
  /\ UNCHANGED <<iface, fw, healthy, files, gates, win, obs, hist, ups>>

Park ==
  /\ awdl /\ ~parked /\ parked' = TRUE
  /\ UNCHANGED <<iface, awdl, tmpl, hung, tree, healthy, files, gates, win, obs, hist, ups>>

Health ==
  /\ healthy' = ~healthy
  /\ UNCHANGED <<iface, fw, tree, files, gates, win, obs, hist, ups>>

\* Wi-Fi off and on removes awdl0 and leaves the module loaded; the firmware
\* keeps its template, or starts over.
WifiToggle ==
  /\ iface # "absent" /\ iface' = "absent"
  /\ \/ UNCHANGED <<awdl, parked, tmpl>>
     \/ awdl' = FALSE /\ parked' = FALSE /\ tmpl' \in {tmpl, None}
  /\ UNCHANGED <<hung, tree, healthy, files, gates, win, obs, hist, ups>>

LinkDrop ==
  /\ iface = "up" /\ iface' = "down"
  /\ UNCHANGED <<fw, tree, healthy, files, gates, win, obs, hist, ups>>

StartStep == Begin \/ Ready \/ Gate \/ Guard \/ Off \/ On \/ Probe \/ Link \/ Identity \/ Open
Tick      == TickQuiet \/ TickChanged
Env       == Elect \/ Park \/ Health \/ WifiToggle \/ LinkDrop

Next ==
  \/ StartStep \/ Tick \/ WriteTemplate \/ Close \/ Cancel
  \/ AwdlUp \/ Reload \/ Create \/ Apply \/ AwdlUpEnds \/ Env

Spec == Init /\ [][Next]_vars

\* The supervisor's loop keeps ticking and finishes the write it began.
FairSpec == Spec /\ WF_vars(Tick) /\ WF_vars(WriteTemplate)

-----------------------------------------------------------------------------
(* Properties *)

\* The firmware hangs, which only a module reload clears (023513Z), in no way
\* but three: awdl-up's create path met a template that outlived awdl0
\* (awdl-up:276 does not ask), a guard's GET failed and read as no template
\* (omdrop-broadcom.sh:137, awdl-up:83), or a template was written between
\* awdl-up's GETs and its awdl=0.  No sequence of starts, cancels, retoggles,
\* failed SETs and reloads adds a fourth.
HungOnlyBySlip == hung => slips \cap {"create", "get", "race"} # {}

\* While a window is open on a present awdl0 that awdl-up did not rebuild under
\* it, the election state it recorded is the one the template on air
\* advertises: track_election records what the firmware accepted and nothing
\* takes the template away behind it.
RecordedAdvertised ==
  win /\ iface # "absent" /\ recorded # None /\ "rebuilt" \notin slips => tmpl = recorded

\* Once a window has a template, it is rewritten only to a state observed
\* twice in a row, however the root flaps.
FlapsIgnored ==
  [][recorded # None /\ recorded' # recorded /\ recorded' # None =>
       recorded' = last /\ twice]_vars

\* A window whose election settles, on a radio that answers, comes to
\* advertise that election.
TracksElection ==
  \A t \in Trees :
    <>[](win /\ tree = t /\ healthy /\ iface # "absent" /\ awdl /\ ~hung) => <>[](tmpl = t)
=============================================================================
