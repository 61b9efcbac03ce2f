------------------------------- MODULE Identity -------------------------------
(***************************************************************************)
(* awdl_identity.py: which identity a program presents (select_identity),  *)
(* how it reads what that depends on, one read after another beside the    *)
(* windows omdrop opens and closes (resolve_identity), and how the         *)
(* self-signed pair comes into being once (_create_self_signed).  Secrets  *)
(* are the names of the fetches and of the programs that made them.        *)
(***************************************************************************)
EXTENDS Naturals, FiniteSets

CONSTANTS
  Users,    \* programs that may create the self-signed pair
  Readers,  \* root's programs and the advertiser, which may not
  Other,    \* a program that places a complete pair without the lock
  Ids,      \* fetches from 1Password: fetch_id with its hard_expiry
  Nobody,
  Unlocked  \* does Other exist?

ASSUME ProcsAssumption == /\ Users \cap Readers = {} /\ Other \notin Users \cup Readers
                          /\ Nobody \notin Users \cup Readers \cup {Other} \cup Ids
ASSUME IdsAssumption   == (Ids \cup {Nobody}) \cap {"disk", "self-signed", "1password",
                                                   "unparseable", "malformed"} = {}
ASSUME UnlockedAssumption == Unlocked \in BOOLEAN

Procs == Users \cup Readers

-----------------------------------------------------------------------------
(* select_identity.  A window is None, "unparseable", "disk", "self-signed" *)
(* or the fetch it was opened with; a cache None, "malformed" or a fetch.   *)
Modes == {"disk", "self-signed", "1password", "junk"}
Disks == [certificate : BOOLEAN, key : BOOLEAN, match : BOOLEAN, record : BOOLEAN]
Pairs == [certificate : BOOLEAN, key : BOOLEAN]

Fail(why)              == [identity |-> "error", why |-> why]
Present(who, rec, new) == [identity |-> who, record |-> rec, create |-> new]

SelectCache(w, cache, dead) ==
  IF w \in dead THEN Fail("window-expired")
  ELSE IF cache = Nobody THEN Fail("cache-missing")
  ELSE IF cache = "malformed" THEN Fail("cache-malformed")
  ELSE IF cache # w THEN Fail("cache-mismatch")
  ELSE IF cache \in dead THEN Fail("cache-expired")
  ELSE Present("cache", TRUE, FALSE)

SelectSelf(pair, root) ==
  IF pair.certificate # pair.key THEN Fail("self-signed-half-pair")
  ELSE IF ~pair.certificate /\ root THEN Fail("self-signed-missing")
  ELSE Present("self-signed", FALSE, ~pair.certificate)

MutSelect(mode, w, cache, disk, pair, root, dead) ==
  LET both == disk.certificate /\ disk.key
      from == IF w = Nobody THEN mode ELSE w
  IN  IF w = "unparseable" THEN Fail("window-unparseable")
      ELSE IF w \in Ids THEN SelectCache(w, cache, dead)
      ELSE IF from = "disk" /\ both /\ disk.match THEN Present("disk", disk.record, FALSE)
      ELSE SelectSelf(pair, root)

Select(mode, w, cache, disk, pair, root, dead) ==
  LET both == disk.certificate /\ disk.key
      from == IF w = Nobody THEN mode ELSE w
  IN  IF w = "unparseable" THEN Fail("window-unparseable")
      ELSE IF w \in Ids THEN SelectCache(w, cache, dead)
      ELSE IF from = "disk" /\ w # Nobody /\ ~both THEN Fail("disk-missing")
      ELSE IF from = "disk" /\ w # Nobody /\ ~disk.match THEN Fail("disk-mismatch")
      ELSE IF from = "disk" /\ both /\ disk.match THEN Present("disk", disk.record, FALSE)
      ELSE SelectSelf(pair, root)

-----------------------------------------------------------------------------
VARIABLES
  mode, disk,     \* identity_source and the disk trio
  window, cache,  \* $XDG_RUNTIME_DIR/omdrop/window and the keyring
  dead,           \* the fetches past their hard expiry
  cert, key,      \* who made the self-signed files
  idLock,         \* who holds .identity.lock
  pc,             \* where each program is
  win, seen, old, \* the window, the payload and the clock it read
  sawCert,        \* certificate.self-signed.pem existed when it looked
  res,            \* the last answer a program got
  crashed         \* (history) a program died holding the lock

outside == <<mode, disk, window, cache, dead>>
pairs   == <<cert, key>>
read    == <<win, seen, old, sawCert>>
identityVars == <<outside, pairs, idLock, pc, read, res, crashed>>

Makers == Users \cup {Other, Nobody}

IdentityTypeOK ==
  /\ mode \in Modes /\ disk \in Disks
  /\ window \in Ids \cup {Nobody, "unparseable", "disk", "self-signed"}
  /\ cache \in Ids \cup {Nobody, "malformed"} /\ dead \subseteq Ids
  /\ cert \in Makers /\ key \in Makers /\ idLock \in Users \cup {Nobody}
  /\ pc \in [Procs -> {"idle", "cache", "cert", "key", "lock", "check", "make", "link",
                       "linkCert", "undo"}]
  /\ win \in [Procs -> Ids \cup {Nobody, "unparseable", "disk", "self-signed"}]
  /\ seen \in [Procs -> Ids \cup {Nobody, "malformed"}]
  /\ old \in [Procs -> SUBSET Ids] /\ sawCert \in [Procs -> BOOLEAN]
  /\ res = Nobody \/ res.identity \in {"error", "cache", "disk", "self-signed"}
  /\ \A p \in Procs : pc[p] \in {"check", "make", "link", "linkCert", "undo"} <=> idLock = p

InitBut(m, d) ==
  /\ mode = m /\ disk = d /\ window = Nobody /\ cache = Nobody /\ dead = {}
  /\ cert = Nobody /\ key = Nobody /\ idLock = Nobody /\ pc = [p \in Procs |-> "idle"]
  /\ win = [p \in Procs |-> Nobody] /\ seen = [p \in Procs |-> Nobody]
  /\ old = [p \in Procs |-> {}] /\ sawCert = [p \in Procs |-> FALSE]
  /\ res = Nobody /\ crashed = FALSE

IdentityInit == \E m \in Modes, d \in Disks : InitBut(m, d)

Go(p, to)     == pc' = [pc EXCEPT ![p] = to]
Finish(p, r)  == Go(p, "idle") /\ res' = r
Raise(p, why) == Finish(p, Fail(why))

-----------------------------------------------------------------------------
(* resolve_identity *)

\* The window file, then the clock, kept for the whole call.
Refuse(p) ==
  /\ pc[p] = "idle" /\ window \in dead \cup {"unparseable"}
  /\ Raise(p, IF window \in dead THEN "window-expired" ELSE "window-unparseable")
  /\ UNCHANGED <<outside, pairs, idLock, read, crashed>>

Resolve(p) ==
  /\ pc[p] = "idle" /\ window \notin dead \cup {"unparseable"}
  /\ win' = [win EXCEPT ![p] = window] /\ old' = [old EXCEPT ![p] = dead]
  /\ res' = Nobody /\ Go(p, IF window \in Ids THEN "cache" ELSE "cert")
  /\ UNCHANGED <<outside, pairs, idLock, seen, sawCert, crashed>>

ReadCache(p) ==
  /\ pc[p] = "cache"
  /\ seen' = [seen EXCEPT ![p] = cache] /\ Go(p, "cert")
  /\ UNCHANGED <<outside, pairs, idLock, win, old, sawCert, res, crashed>>

\* The certificate's existence is tested before the key's.
TestCert(p) ==
  /\ pc[p] = "cert"
  /\ sawCert' = [sawCert EXCEPT ![p] = cert # Nobody] /\ Go(p, "key")
  /\ UNCHANGED <<outside, pairs, idLock, win, seen, old, res, crashed>>

Forget(p) ==
  /\ win' = [win EXCEPT ![p] = Nobody] /\ seen' = [seen EXCEPT ![p] = Nobody]
  /\ old' = [old EXCEPT ![p] = {}] /\ sawCert' = [sawCert EXCEPT ![p] = FALSE]

Decide(p) ==
  /\ pc[p] = "key"
  /\ LET r == Select(mode, win[p], seen[p], disk,
                     [certificate |-> sawCert[p], key |-> key # Nobody], p \in Readers, old[p])
     IN  IF r.identity = "self-signed" /\ r.create
         THEN Go(p, "lock") /\ UNCHANGED res
         ELSE Finish(p, r)
  /\ Forget(p)
  /\ UNCHANGED <<outside, pairs, idLock, crashed>>

-----------------------------------------------------------------------------
(* _create_self_signed *)

Lock(p) ==
  /\ pc[p] = "lock" /\ idLock = Nobody
  /\ idLock' = p /\ Go(p, "check")
  /\ UNCHANGED <<outside, pairs, read, res, crashed>>

\* What the pair's state is under the lock: half a pair is an error, a whole
\* one is used.
Settle(p, absent) ==
  IF (cert = Nobody) # (key = Nobody) THEN Raise(p, "self-signed-half-pair") /\ idLock' = Nobody
  ELSE IF cert # Nobody THEN Finish(p, Present("self-signed", FALSE, FALSE)) /\ idLock' = Nobody
  ELSE absent

Check(p) ==
  /\ pc[p] = "check"
  /\ Settle(p, Go(p, "make") /\ UNCHANGED <<res, idLock>>)
  /\ UNCHANGED <<outside, pairs, read, crashed>>

\* openssl req in a temporary directory.
Make(p) ==
  /\ pc[p] = "make"
  /\ \/ Go(p, "link") /\ UNCHANGED <<res, idLock>>
     \/ Raise(p, "self-signed-create-failed") /\ idLock' = Nobody
  /\ UNCHANGED <<outside, pairs, read, crashed>>

MutLinkKey(p) ==
  /\ pc[p] = "link"
  /\ key' = p /\ Go(p, "linkCert") /\ UNCHANGED <<res, idLock>>
  /\ UNCHANGED <<outside, cert, read, crashed>>

LinkKey(p) ==
  /\ pc[p] = "link"
  /\ \/ key = Nobody /\ key' = p /\ Go(p, "linkCert") /\ UNCHANGED <<res, idLock>>
     \/ key # Nobody /\ UNCHANGED key /\ Settle(p, Raise(p, "self-signed-missing") /\ idLock' = Nobody)
     \/ key = Nobody /\ UNCHANGED key /\ Raise(p, "self-signed-create-failed") /\ idLock' = Nobody
  /\ UNCHANGED <<outside, cert, read, crashed>>

MutLinkCert(p) ==
  /\ pc[p] = "linkCert"
  /\ \/ /\ cert = Nobody /\ cert' = p
        /\ Finish(p, Present("self-signed", FALSE, TRUE)) /\ idLock' = Nobody
     \/ UNCHANGED cert /\ Raise(p, "self-signed-create-failed") /\ idLock' = Nobody
  /\ UNCHANGED <<outside, key, read, crashed>>

LinkCert(p) ==
  /\ pc[p] = "linkCert"
  /\ \/ /\ cert = Nobody /\ cert' = p
        /\ Finish(p, Present("self-signed", FALSE, TRUE)) /\ idLock' = Nobody
     \/ UNCHANGED <<cert, res, idLock>> /\ Go(p, "undo")
  /\ UNCHANGED <<outside, key, read, crashed>>

\* The second link failed: the key this run linked goes again.
Undo(p) ==
  /\ pc[p] = "undo"
  /\ key' = IF key = p THEN Nobody ELSE key
  /\ Raise(p, "self-signed-create-failed") /\ idLock' = Nobody
  /\ UNCHANGED <<outside, cert, read, crashed>>

\* A program dies; the kernel releases its lock.
Die(p) ==
  /\ pc[p] # "idle" /\ Raise(p, "killed")
  /\ idLock' = (IF idLock = p THEN Nobody ELSE idLock)
  /\ crashed' = (crashed \/ idLock = p)
  /\ Forget(p) /\ UNCHANGED <<outside, pairs>>

OtherPair ==
  /\ Unlocked /\ cert = Nobody /\ key = Nobody
  /\ cert' = Other /\ key' = Other
  /\ UNCHANGED <<outside, idLock, pc, read, res, crashed>>

-----------------------------------------------------------------------------
(* omdrop: publish and open, close and revoke; a fetch expires *)
Publish(i) ==
  /\ window = Nobody /\ i \notin dead /\ cache' = i
  /\ UNCHANGED <<mode, disk, window, dead, pairs, idLock, pc, read, res, crashed>>

OpenWindow ==
  /\ window = Nobody
  /\ window' \in {"disk", "self-signed", "unparseable"} \cup ({cache} \cap Ids)
  /\ UNCHANGED <<mode, disk, cache, dead, pairs, idLock, pc, read, res, crashed>>

CloseWindow ==
  /\ window # Nobody /\ window' = Nobody
  /\ UNCHANGED <<mode, disk, cache, dead, pairs, idLock, pc, read, res, crashed>>

Revoke ==
  /\ cache # Nobody /\ cache' \in {Nobody, "malformed"}
  /\ UNCHANGED <<mode, disk, window, dead, pairs, idLock, pc, read, res, crashed>>

Expire(i) ==
  /\ dead' = dead \cup {i} /\ dead' # dead
  /\ UNCHANGED <<mode, disk, window, cache, pairs, idLock, pc, read, res, crashed>>

Call(p) == Refuse(p) \/ Resolve(p) \/ ReadCache(p) \/ TestCert(p) \/ Decide(p)
Creation(p) == Check(p) \/ Make(p) \/ LinkKey(p) \/ LinkCert(p) \/ Undo(p)
Omdrop == OpenWindow \/ CloseWindow \/ Revoke \/ \E i \in Ids : Publish(i) \/ Expire(i)

IdentityNext ==
  \/ OtherPair \/ Omdrop
  \/ \E p \in Procs : Call(p) \/ Lock(p) \/ Creation(p) \/ Die(p)

IdentitySpec == IdentityInit /\ [][IdentityNext]_identityVars

-----------------------------------------------------------------------------
(* Properties *)

\* The identity contract's tables, first matching row, cause for cause.
WindowRow(w, c, d, t) ==
  CASE w = "unparseable"                      -> Fail("window-unparseable")
    [] w \in Ids \cap t                       -> Fail("window-expired")
    [] w \in Ids \ t /\ c = Nobody              -> Fail("cache-missing")
    [] w \in Ids \ t /\ c = "malformed"       -> Fail("cache-malformed")
    [] w \in Ids \ t /\ c \in Ids \ {w}       -> Fail("cache-mismatch")
    [] w \in Ids \ t /\ c = w                 -> Present("cache", TRUE, FALSE)
    [] w = "disk" /\ ~(d.certificate /\ d.key) -> Fail("disk-missing")
    [] w = "disk" /\ d.certificate /\ d.key /\ ~d.match -> Fail("disk-mismatch")
    [] w = "disk" /\ d.certificate /\ d.key /\ d.match  -> Present("disk", d.record, FALSE)

PairRow(p, root) ==
  CASE p.certificate /\ p.key   -> Present("self-signed", FALSE, FALSE)
    [] ~p.certificate /\ ~p.key -> IF root THEN Fail("self-signed-missing")
                                   ELSE Present("self-signed", FALSE, TRUE)
    [] OTHER                    -> Fail("self-signed-half-pair")

Contract(m, w, c, d, p, root, t) ==
  IF w \notin {Nobody, "self-signed"} THEN WindowRow(w, c, d, t)
  ELSE IF w = Nobody /\ m = "disk" /\ d.certificate /\ d.key /\ d.match
       THEN Present("disk", d.record, FALSE)
       ELSE PairRow(p, root)

\* A program answers with the contract's row for what it read, cause for
\* cause, and goes on to create a pair only where that row asks for one.
AnswersByContract ==
  [][\A p \in Procs :
       LET pair == [certificate |-> sawCert[p], key |-> key # Nobody]
           row  == Contract(mode, win[p], seen[p], disk, pair, p \in Readers, old[p])
       IN  pc[p] = "key" /\ pc'[p] # "key" /\ res' # Fail("killed") =>
             IF pc'[p] = "lock" THEN row = Present("self-signed", FALSE, TRUE)
             ELSE res' = row]_identityVars

\* Certificate and key, when both are there, were made together: nobody loads
\* a key beside another program's certificate.
PairOfOne == cert # Nobody /\ key # Nobody => cert = key

\* Without a crash, half a pair exists only while its creator holds the lock.
NoHalfLeft == idLock = Nobody /\ ~crashed => (cert = Nobody <=> key = Nobody)

\* A complete pair stays: no later creation replaces or removes it.
PairStays == [][cert # Nobody /\ key # Nobody => UNCHANGED pairs]_identityVars
=============================================================================
