-------------------------------- MODULE Peers --------------------------------
(***************************************************************************)
(* awdl-peer-watch.py: the firmware's peer table, the permanent neighbours *)
(* that record what this software put in it, and the watcher that fills    *)
(* both from the frames it hears and empties both when it ends.  The       *)
(* firmware keeps its entries across everything except a driver reload;    *)
(* the watcher is TERMed, KILLed or dies at any step.  A second process    *)
(* primes one peer and exits.                                              *)
(***************************************************************************)
EXTENDS Naturals, FiniteSets, Sequences, SequencesExt

CONSTANTS
  Peer,      \* MAC addresses seen on the air
  NoPeer,
  Slots,     \* --max-peers, and what the firmware's table holds
  LinkLoss,  \* may awdl0 go down with entries in the table?
  DelFails,  \* may the firmware refuse a peer_op DEL?
  PrimeAny   \* may a peer be primed while a watcher runs?

ASSUME PeerAssumption  == NoPeer \notin Peer /\ IsFiniteSet(Peer)
ASSUME SlotsAssumption  == Slots \in Nat \ {0}
ASSUME PeersSwitches   == LinkLoss \in BOOLEAN /\ DelFails \in BOOLEAN /\ PrimeAny \in BOOLEAN

VARIABLES
  hw,         \* the firmware's peer entries
  neigh,      \* awdl0's permanent neighbours
  registered, \* the watcher's dict in insertion order, oldest first
  watch,      \* where the watcher is
  cur,        \* the peer it is registering or forgetting
  todo,       \* what is left of resync's or release's list
  prime,      \* where the priming process is
  target      \* the peer it primes

table     == <<hw, neigh>>
watcher   == <<registered, watch, cur, todo>>
primer    == <<prime, target>>
peersVars == <<table, watcher, primer>>

PeersTypeOK ==
  /\ hw \subseteq Peer /\ neigh \subseteq Peer /\ todo \subseteq Peer
  /\ registered \in Seq(Peer) /\ Len(registered) <= Slots /\ IsInjective(registered)
  /\ watch \in {"off", "resync", "unpin", "idle", "evict", "evicted", "pin", "add", "record",
                "release", "released"}
  /\ cur \in Peer \cup {NoPeer} /\ target \in Peer \cup {NoPeer}
  /\ prime \in {"off", "pin", "add"}

PeersInit ==
  /\ hw = {} /\ neigh = {} /\ registered = <<>> /\ watch = "off" /\ cur = NoPeer
  /\ todo = {} /\ prime = "off" /\ target = NoPeer

Known == {registered[i] : i \in 1..Len(registered)}

-----------------------------------------------------------------------------
\* peer_op: the table takes an entry it has or has room for.
Fits(p)   == p \in hw \/ Cardinality(hw) < Slots
FwAdd(p)  == Fits(p) /\ hw' = hw \cup {p}
FwDel(p)  == hw' = hw \ {p} \/ (DelFails /\ hw' = hw)
Unpin(p)  == neigh' = neigh \ {p}

\* resync lists the permanent neighbours and deletes their entries.
Start ==
  /\ watch = "off" /\ (PrimeAny \/ prime = "off")
  /\ watch' = IF neigh = {} THEN "idle" ELSE "resync"
  /\ todo' = neigh /\ registered' = <<>>
  /\ UNCHANGED <<table, cur, primer>>

ResyncDel ==
  /\ watch = "resync"
  /\ \E p \in todo : FwDel(p) /\ cur' = p
  /\ watch' = "unpin"
  /\ UNCHANGED <<neigh, registered, todo, primer>>

ResyncUnpin ==
  /\ watch = "unpin"
  /\ Unpin(cur) /\ todo' = todo \ {cur} /\ cur' = NoPeer
  /\ watch' = IF todo' = {} THEN "idle" ELSE "resync"
  /\ UNCHANGED <<hw, registered, primer>>

\* A frame of a registered peer makes it the newest.
HearKnown(p) ==
  /\ watch = "idle" /\ p \in Known
  /\ registered' = Append(Remove(registered, p), p)
  /\ UNCHANGED <<table, watch, cur, todo, primer>>

\* The first frame of another peer: make room, then pin and add it.
HearNew(p) ==
  /\ watch = "idle" /\ p \notin Known
  /\ cur' = p
  /\ watch' = IF Len(registered) >= Slots THEN "evict" ELSE "pin"
  /\ UNCHANGED <<table, registered, todo, primer>>

\* forget(oldest), call by call; what DEL answered is not looked at.
Evict ==
  /\ watch = "evict"
  /\ FwDel(Head(registered)) /\ watch' = "evicted"
  /\ UNCHANGED <<neigh, registered, cur, todo, primer>>

Evicted ==
  /\ watch = "evicted"
  /\ Unpin(Head(registered)) /\ registered' = Tail(registered)
  /\ watch' = IF Len(registered) > Slots THEN "evict" ELSE "pin"
  /\ UNCHANGED <<hw, cur, todo, primer>>

\* ip neigh replace; when it fails the peer waits for its next frame.
MutPin ==
  /\ watch = "pin"
  /\ UNCHANGED neigh /\ watch' = "add"
  /\ UNCHANGED <<hw, registered, cur, todo, primer>>

Pin ==
  /\ watch = "pin"
  /\ \/ neigh' = neigh \cup {cur} /\ watch' = "add" /\ UNCHANGED cur
     \/ watch' = "idle" /\ cur' = NoPeer /\ UNCHANGED neigh
  /\ UNCHANGED <<hw, registered, todo, primer>>

Add ==
  /\ watch = "add"
  /\ FwAdd(cur) /\ watch' = "record"
  /\ UNCHANGED <<neigh, registered, cur, todo, primer>>

\* Refused, for want of a slot or of an answer: the peer stays pinned only.
MutAddRefused ==
  /\ watch = "add"
  /\ watch' = "idle" /\ cur' = NoPeer /\ registered' = Append(registered, cur)
  /\ UNCHANGED <<table, todo, primer>>

AddRefused ==
  /\ watch = "add"
  /\ watch' = "idle" /\ cur' = NoPeer
  /\ UNCHANGED <<table, registered, todo, primer>>

Record ==
  /\ watch = "record"
  /\ registered' = Append(registered, cur) /\ watch' = "idle" /\ cur' = NoPeer
  /\ UNCHANGED <<table, todo, primer>>

\* release, in the signal handler: a peer added but not yet recorded is not in
\* its list.
Busy == watch \notin {"off", "release", "released"}

Term ==
  /\ Busy
  /\ todo' = Known /\ cur' = NoPeer
  /\ watch' = IF registered = <<>> THEN "off" ELSE "release"
  /\ UNCHANGED <<table, registered, primer>>

ReleaseDel ==
  /\ watch = "release"
  /\ \E p \in todo : FwDel(p) /\ cur' = p
  /\ watch' = "released"
  /\ UNCHANGED <<neigh, registered, todo, primer>>

ReleaseUnpin ==
  /\ watch = "released"
  /\ Unpin(cur) /\ todo' = todo \ {cur} /\ cur' = NoPeer
  /\ registered' = Remove(registered, cur)
  /\ watch' = IF todo' = {} THEN "off" ELSE "release"
  /\ UNCHANGED <<hw, primer>>

\* KILL, or a timeout no handler catches.
Die ==
  /\ watch # "off" /\ watch' = "off" /\ registered' = <<>> /\ todo' = {} /\ cur' = NoPeer
  /\ UNCHANGED <<table, primer>>

-----------------------------------------------------------------------------
(* --prime, a process with a dict of its own, always empty *)
Prime(p) ==
  /\ prime = "off" /\ (PrimeAny \/ watch = "off")
  /\ prime' = "pin" /\ target' = p
  /\ UNCHANGED <<table, watcher>>

PrimePin ==
  /\ prime = "pin"
  /\ \/ neigh' = neigh \cup {target} /\ prime' = "add" /\ UNCHANGED target
     \/ prime' = "off" /\ target' = NoPeer /\ UNCHANGED neigh
  /\ UNCHANGED <<hw, watcher>>

PrimeAdd ==
  /\ prime = "add"
  /\ FwAdd(target) \/ UNCHANGED hw
  /\ prime' = "off" /\ target' = NoPeer
  /\ UNCHANGED <<neigh, watcher>>

-----------------------------------------------------------------------------
(* The environment *)

\* A link that goes down drops its neighbours and breaks the packet socket.
LinkDown ==
  /\ LinkLoss \/ (hw = {} /\ prime = "off")
  /\ neigh' = {} /\ watch' = "off" /\ registered' = <<>> /\ todo' = {} /\ cur' = NoPeer
  /\ UNCHANGED <<hw, primer>>

\* A driver reload, while nothing runs on awdl0.
PeersReload ==
  /\ watch = "off" /\ prime = "off"
  /\ hw' = {} /\ neigh' = {}
  /\ UNCHANGED <<watcher, primer>>

Hear(p)  == HearKnown(p) \/ HearNew(p)
Resync   == ResyncDel \/ ResyncUnpin
Register == Evict \/ Evicted \/ Pin \/ Add \/ AddRefused \/ Record
Release  == ReleaseDel \/ ReleaseUnpin
Priming  == PrimePin \/ PrimeAdd

PeersNext ==
  \/ Start \/ Resync \/ Register \/ Term \/ Release \/ Die \/ Priming \/ LinkDown \/ PeersReload
  \/ \E p \in Peer : Hear(p) \/ Prime(p)

PeersSpec == PeersInit /\ [][PeersNext]_peersVars

PinSucceeds(p) == cur = p /\ Pin /\ watch' = "add"
AddSucceeds(p) == cur = p /\ Add

\* The loop runs; every peer keeps sending; nothing is refused for ever.
PeersFairSpec ==
  /\ PeersSpec /\ WF_peersVars(Resync) /\ WF_peersVars(Register) /\ WF_peersVars(Release) /\ WF_peersVars(Priming)
  /\ \A p \in Peer : SF_peersVars(Hear(p)) /\ SF_peersVars(PinSucceeds(p)) /\ SF_peersVars(AddSucceeds(p))

-----------------------------------------------------------------------------
(* Properties *)

\* Every entry in the firmware's table has the permanent neighbour by which a
\* later resync finds it, whatever step the watcher or a prime died at: resync
\* "is the guarantee".
Recoverable == hw \subseteq neigh

\* While a watcher keeps running, a peer that keeps sending is reachable again
\* and again, however many share the slots.
Reachable == \A p \in Peer : <>[]Busy => []<>(p \in hw)
=============================================================================
