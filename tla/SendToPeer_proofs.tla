--------------------------- MODULE SendToPeer_proofs ---------------------------
(***************************************************************************)
(* Theorems about SendToPeer for any peers and ports, with TERM and KILL    *)
(* at every step: the wake's three promises about the air and the port of   *)
(* a peer that answered.                                                    *)
(***************************************************************************)
EXTENDS SendToPeer, TLAPS

Raising == {"spawn", "gap", "read", "give"}
Ending  == {"stop", "reap"}
Working == pc \notin {"leave", "gone"}

\* Which scopes the main thread can be in where, and where in a wake it can
\* be; never in two scopes, and in none without --wake.
ScopeInv ==
  /\ wk \in {"no"} \cup Raising \cup Ending /\ sc \in Scopes
  /\ active \subseteq Scopes /\ held \subseteq active /\ \A s, u \in active : s = u
  /\ wk # "no" => sc \in active
  /\ active # {} => wakes
  /\ "send" \in active => announced
  /\ pc \in {"begin", "choose"} => active = {}
  /\ pc \in {"ask", "check", "collect", "rescan", "named"} => active \subseteq {"lookup"}
  /\ pc = "named" /\ wk = "no" => active = {}
  /\ pc \in {"first", "sending"} => active \subseteq {"send"}
  /\ pc \in {"poll", "reread"} => active \subseteq {IF announced THEN "send" ELSE "wait"}
  /\ pc = "swap" => announced /\ wakes /\ active \subseteq {"wait"} /\ (wk = "no" => active = {})
  /\ pc = "run" => active \subseteq {"send"} \/ (active \subseteq {"wait"} /\ wk \in Ending)
  /\ wk \in Raising => pc \in {"ask", "first", "poll", "run"}
  /\ wk \in Ending => pc \in {"named", "run", "swap", "leave"} /\ (sc # "send" \/ pc = "leave")

-----------------------------------------------------------------------------
(* Scopes *)

LEMMA ScopeStep == ASSUME ScopeInv, [Next]_vars PROVE ScopeInv'
<1> USE DEF Raising, Ending, Scopes
<1>1. CASE WakeSpawn
  <2>1. /\ wk = "spawn" /\ wk' \in {"gap", "no"}
        /\ UNCHANGED <<wakes, pc, sc, active, held, announced>>
    BY <1>1 DEF WakeSpawn, sending
  <2>2. QED
    BY <2>1 DEF ScopeInv
<1>2. CASE WakeTry
  <2>1. wk = "gap" /\ wk' = "read" /\ UNCHANGED <<wakes, pc, sc, active, held, announced>>
    BY <1>2 DEF WakeTry, sending
  <2>2. QED
    BY <2>1 DEF ScopeInv
<1>3. CASE WakeRead
  <2>1. /\ wk = "read" /\ wk' \in {"no", "give"}
        /\ UNCHANGED <<wakes, pc, sc, active, held, announced>>
    BY <1>3 DEF WakeRead, sending
  <2>2. QED
    BY <2>1 DEF ScopeInv
<1>4. CASE WakeGive
  <2>1. /\ wk = "give" /\ wk' = "no" /\ held' = held \cup {sc}
        /\ UNCHANGED <<wakes, pc, sc, active, announced>>
    BY <1>4 DEF WakeGive, sending
  <2>2. QED
    BY <2>1 DEF ScopeInv
<1>5. CASE WakeStop \/ WakeReap
  <2>1. /\ wk \in Ending /\ UNCHANGED <<wakes, pc, announced>>
        /\ (wk' = "reap" /\ UNCHANGED <<sc, active, held>>) \/ Left
    BY <1>5 DEF WakeStop, WakeReap, sending
  <2>2. CASE Left
    BY <2>1, <2>2 DEF ScopeInv, Left
  <2>3. CASE wk' = "reap" /\ UNCHANGED <<sc, active, held>>
    BY <2>1, <2>3 DEF ScopeInv
  <2>4. QED
    BY <2>1, <2>2, <2>3
<1>6. CASE Begin
  <2>1. pc = "begin" /\ wk = "no" /\ UNCHANGED <<wakes, announced>>
    BY <1>6 DEF Begin, At
  <2>2. \/ pc' \in {"leave", "choose", "ask"} /\ UNCHANGED waking
        \/ pc' = "ask" /\ wakes /\ Enter("lookup")
    BY <1>6 DEF Begin, EnterIf
  <2>3. CASE UNCHANGED waking
    BY <2>1, <2>2, <2>3 DEF ScopeInv, waking
  <2>4. QED
    BY <2>1, <2>2, <2>3 DEF ScopeInv, Enter
<1>7. CASE Ask \/ Collect \/ Rescan \/ Named \/ Sent
  <2>1. /\ wk = "no" /\ UNCHANGED <<wakes, announced, wk, sc, active, held>>
        /\ \/ pc \in {"ask", "collect", "rescan"} /\ pc' \in {"check", "rescan"}
           \/ pc = "named" /\ pc' \in {"choose", "leave"}
           \/ pc = "sending" /\ pc' = "leave"
    BY <1>7 DEF Ask, Collect, Rescan, Named, Sent, At, waking, sending
  <2>2. QED
    BY <2>1 DEF ScopeInv
<1>8. CASE Check
  <2>1. pc = "check" /\ wk = "no" /\ UNCHANGED <<wakes, announced>>
    BY <1>8 DEF Check, At, sending
  <2>2. \/ pc' = "collect" /\ UNCHANGED waking
        \/ pc' = "named" /\ "lookup" \in active /\ Leave("lookup")
        \/ pc' = "named" /\ "lookup" \notin active /\ UNCHANGED waking
    BY <1>8 DEF Check
  <2>3. CASE UNCHANGED waking
    BY <2>1, <2>2, <2>3 DEF ScopeInv, waking, Leave
  <2>4. QED
    BY <2>1, <2>2, <2>3 DEF ScopeInv, Leave
<1>9. CASE Choose
  <2>1. pc = "choose" /\ wk = "no" /\ pc' \in {"first", "run"} /\ UNCHANGED wakes
    BY <1>9 DEF Choose, At
  <2>2. (wakes /\ announced' /\ Enter("send")) \/ UNCHANGED waking
    BY <1>9 DEF Choose, EnterIf
  <2>3. CASE UNCHANGED waking
    BY <2>1, <2>3 DEF ScopeInv, waking
  <2>4. QED
    BY <2>1, <2>2, <2>3 DEF ScopeInv, Enter
<1>10. CASE First
  <2>1. pc = "first" /\ wk = "no" /\ UNCHANGED <<wakes, announced>>
    BY <1>10 DEF First, At, sending
  <2>2. \/ pc' \in {"run", "poll"} /\ UNCHANGED waking
        \/ pc' = "poll" /\ wakes /\ ~announced /\ Enter("wait")
    BY <1>10 DEF First, EnterIf
  <2>3. CASE UNCHANGED waking
    BY <2>1, <2>2, <2>3 DEF ScopeInv, waking
  <2>4. QED
    BY <2>1, <2>2, <2>3 DEF ScopeInv, Enter
<1>11. CASE Poll
  <2>1. pc = "poll" /\ wk = "no" /\ UNCHANGED <<wakes, announced>>
    BY <1>11 DEF Poll, At, sending
  <2>2. \/ pc' \in {"leave", "reread"} /\ UNCHANGED waking
        \/ pc' = "run" /\ "wait" \in active /\ Leave("wait")
        \/ pc' = "run" /\ "wait" \notin active /\ UNCHANGED waking
    BY <1>11 DEF Poll
  <2>3. CASE UNCHANGED waking
    BY <2>1, <2>2, <2>3 DEF ScopeInv, waking, Leave
  <2>4. QED
    BY <2>1, <2>2, <2>3 DEF ScopeInv, Leave
<1>12. CASE Reread
  <2>1. pc = "reread" /\ wk = "no" /\ UNCHANGED wakes
    BY <1>12 DEF Reread, At
  <2>2. \/ pc' = "poll" /\ UNCHANGED <<waking, announced>>
        \/ /\ ~announced /\ announced' = TRUE /\ pc' = IF wakes THEN "swap" ELSE "poll"
           /\ \/ "wait" \in active /\ Leave("wait")
              \/ "wait" \notin active /\ UNCHANGED waking
    BY <1>12 DEF Reread
  <2>3. CASE UNCHANGED waking
    BY <2>1, <2>2, <2>3 DEF ScopeInv, waking, Leave
  <2>4. QED
    BY <2>1, <2>2, <2>3 DEF ScopeInv, Leave
<1>13. CASE Swap
  <2>1. pc = "swap" /\ wk = "no" /\ pc' = "poll" /\ Enter("send") /\ UNCHANGED <<wakes, announced>>
    BY <1>13 DEF Swap, At, sending
  <2>2. QED
    BY <2>1 DEF ScopeInv, Enter
<1>14. CASE Run
  <2>1. /\ pc = "run" /\ wk = "no" /\ pc' = "sending"
        /\ UNCHANGED <<wakes, announced, wk, sc, active, held>>
    BY <1>14 DEF Run, At, waking
  <2>2. QED
    BY <2>1 DEF ScopeInv
<1>15. CASE LeaveStep
  <2>1. pc = "leave" /\ wk = "no" /\ UNCHANGED <<wakes, announced>>
    BY <1>15 DEF LeaveStep, At, sending
  <2>2. \/ pc' = "gone" /\ UNCHANGED waking
        \/ pc' = "leave" /\ active # {} /\ Leave(Inner)
    BY <2>1, <1>15 DEF LeaveStep
  <2>3. CASE UNCHANGED waking
    BY <2>1, <2>2, <2>3 DEF ScopeInv, waking, Leave
  <2>4. QED
    BY <2>1, <2>2, <2>3 DEF ScopeInv, Leave, Inner
<1>16. CASE Raise
  <2>1. active # {} /\ pc' = "leave" /\ UNCHANGED <<wakes, announced>>
    BY <1>16 DEF Raise
  <2>2. \/ wk \in {"read"} /\ wk' = "reap" /\ UNCHANGED <<sc, active, held>>
        \/ wk \in Ending /\ Left
        \/ wk = "no" /\ Leave(Inner)
        \/ wk' = "no" /\ UNCHANGED <<sc, active, held>>
    BY <1>16 DEF Raise
  <2>3. CASE Left
    BY <2>1, <2>3 DEF ScopeInv, Left
  <2>4. CASE Leave(Inner)
    BY <2>1, <2>4 DEF ScopeInv, Leave, Inner
  <2>5. QED
    BY <2>1, <2>2, <2>3, <2>4 DEF ScopeInv
<1>17. CASE Kill \/ (active = {} /\ pc # "gone" /\ Gone /\ UNCHANGED shot)
  <2>1. pc' = "gone" /\ wk' = "no" /\ UNCHANGED <<wakes, announced, sc, active, held>>
    BY <1>17 DEF Kill, Gone
  <2>2. QED
    BY <2>1 DEF ScopeInv
<1>18. CASE Deadline \/ (\E m \in Mac : ThreadStep(m)) \/ UNCHANGED vars
  <2>1. UNCHANGED <<wakes, pc, announced, wk, sc, active, held>>
    BY <1>18 DEF Deadline, ThreadStep, Knock, Knocked, Dial, Answer, Thread, vars, waking, sending
  <2>2. QED
    BY <2>1 DEF ScopeInv
<1>19. CASE \E s \in Scopes : KidStarts(s) \/ KidRefused(s) \/ KidEnds(s)
  <2>1. UNCHANGED <<wakes, pc, announced, wk, sc, active, held>>
    BY <1>19 DEF KidStarts, KidRefused, KidEnds, KidExits, KidExpires, KidStops, KidStep,
       waking, sending
  <2>2. QED
    BY <2>1 DEF ScopeInv
<1>20. QED
  BY <1>1, <1>2, <1>3, <1>4, <1>5, <1>6, <1>7, <1>8, <1>9, <1>10, <1>11, <1>12, <1>13,
     <1>14, <1>15, <1>16, <1>17, <1>18, <1>19 DEF Next, Main, Term

-----------------------------------------------------------------------------
(* Advertisers *)

Known(s) == s \in held \/ (sc = s /\ wk \in {"gap", "read", "give"})

\* Before the end a live advertiser is one the main thread knows or is just
\* starting; on the way out it is one it knows or has told to stop.
KidInv ==
  /\ told \in [Scopes -> BOOLEAN]
  /\ kid \in [Scopes -> {"none", "boot", "air", "failed", "dead"}]
  /\ said \in [Scopes -> {"nothing", "START", "FAILED"}]
  /\ OneAdvert
  /\ Working => \A s \in Scopes : Alive(s) => Known(s)
  /\ wk = "reap" => told[sc]
  /\ pc = "leave" /\ ~cut => \A s \in Scopes : Alive(s) => told[s] \/ s \in held
  /\ NothingLeftOnAir

\* Steps that leave the advertisers to themselves and know no fewer of them.
LEMMA Quiet ==
  ASSUME ScopeInv, KidInv, ScopeInv', UNCHANGED <<kids, cut>>, wk' # "reap",
         \/ pc' \notin {"leave", "gone"}
         \/ pc' = "leave" /\ (pc = "leave" \/ wk = "no")
         \/ pc' = "gone" /\ (pc = "gone" \/ active = {} \/ shot'),
         pc = "leave" => pc' \in {"leave", "gone"},
         pc = "gone" => pc' = "gone" /\ shot' = shot,
         \A s \in Scopes : Working /\ Known(s) /\ pc' # "gone" => Known(s)',
         pc = "leave" => held' = held
  PROVE  KidInv'
<1> USE DEF kids, Alive, Working
<1>1. OneAdvert'
  BY DEF KidInv, OneAdvert
<1>2. Working' => \A s \in Scopes : Alive(s)' => Known(s)'
  BY DEF KidInv
<1>3. pc' = "leave" /\ ~cut' => \A s \in Scopes : Alive(s)' => told'[s] \/ s \in held'
  <2> SUFFICES ASSUME pc' = "leave", ~cut', NEW s \in Scopes, Alive(s)'
               PROVE  told'[s] \/ s \in held'
    OBVIOUS
  <2>1. CASE pc = "leave"
    BY <2>1 DEF KidInv
  <2>2. CASE pc # "leave" /\ wk = "no"
    <3>1. Known(s)'
      BY <2>2 DEF KidInv
    <3>2. wk' \notin {"gap", "read", "give"}
      BY DEF ScopeInv, Raising
    <3>3. QED
      BY <3>1, <3>2 DEF Known
  <2>3. QED
    BY <2>1, <2>2
<1>4. NothingLeftOnAir'
  <2>1. CASE pc = "gone"
    BY <2>1 DEF KidInv, NothingLeftOnAir
  <2>2. CASE pc # "gone" /\ active = {}
    BY <2>2 DEF KidInv, ScopeInv, Known, NothingLeftOnAir
  <2>3. CASE pc # "gone" /\ active # {}
    BY <2>3 DEF NothingLeftOnAir
  <2>4. QED
    BY <2>1, <2>2, <2>3
<1>5. QED
  BY <1>1, <1>2, <1>3, <1>4 DEF KidInv

LEMMA KidStepInv ==
  ASSUME ScopeInv, KidInv, [Next]_vars, ScopeInv'
  PROVE  KidInv'
<1> USE DEF Scopes
<1>1. CASE WakeSpawn
  <2>1. /\ wk = "spawn" /\ UNCHANGED <<pc, sc, active, held, said, told, cut, shot>>
        /\ \/ wk' = "gap" /\ kid' = [kid EXCEPT ![sc] = "boot"]
           \/ wk' = "no" /\ UNCHANGED kid
    BY <1>1 DEF WakeSpawn, ends
  <2>2. Working /\ \A s \in Scopes : Alive(s) => s \in held /\ s = sc
    BY <2>1 DEF ScopeInv, KidInv, Known, Working, Raising
  <2>3. CASE wk' = "no" /\ UNCHANGED kid
    BY <2>1, <2>2, <2>3 DEF KidInv, Known, Alive, OneAdvert, NothingLeftOnAir, Working
  <2>4. CASE wk' = "gap" /\ kid' = [kid EXCEPT ![sc] = "boot"]
    <3>1. \A s \in Scopes : Alive(s)' => s = sc
      BY <2>2, <2>4 DEF Alive, KidInv
    <3>2. QED
      BY <2>1, <2>2, <2>4, <3>1 DEF KidInv, ScopeInv, Known, OneAdvert, NothingLeftOnAir, Working
  <2>5. QED
    BY <2>1, <2>3, <2>4
<1>2. CASE WakeTry \/ WakeGive
  <2>1. /\ wk \in Raising /\ wk' \in {"read", "no"} /\ UNCHANGED <<pc, sc, active, kids, cut, shot>>
        /\ held \subseteq held' /\ \A s \in Scopes : Known(s) => Known(s)'
    BY <1>2 DEF WakeTry, WakeGive, Known, ends, Raising
  <2>2. pc' \notin {"leave", "gone"}
    BY <2>1 DEF ScopeInv, Raising
  <2>3. QED
    BY <2>1, <2>2, Quiet
<1>3. CASE WakeRead
  <2>1. /\ wk = "read" /\ UNCHANGED <<pc, sc, active, held, kids, cut, shot>>
        /\ wk' = "give" \/ (wk' = "no" /\ kid[sc] = "dead")
    BY <1>3 DEF WakeRead, ends
  <2>2. pc' \notin {"leave", "gone"}
    BY <2>1 DEF ScopeInv, Raising
  <2>3. CASE wk' = "give"
    BY <2>1, <2>2, <2>3, Quiet DEF Known
  <2>4. CASE wk' = "no" /\ kid[sc] = "dead"
    BY <2>1, <2>2, <2>4 DEF KidInv, Known, Alive, kids, OneAdvert, NothingLeftOnAir, Working
  <2>5. QED
    BY <2>1, <2>3, <2>4
<1>4. CASE WakeStop
  <2>1. wk = "stop" /\ UNCHANGED <<pc, kid, said, cut, shot>>
    BY <1>4 DEF WakeStop, ends
  <2>2. pc # "gone"
    BY <2>1 DEF ScopeInv, Ending, Raising
  <2>3. CASE wk' = "reap" /\ told' = [told EXCEPT ![sc] = TRUE] /\ UNCHANGED <<sc, active, held>>
    BY <2>1, <2>2, <2>3 DEF KidInv, ScopeInv, Known, Alive, OneAdvert, NothingLeftOnAir, Working
  <2>4. CASE ~(sc \in held /\ Alive(sc)) /\ Left /\ UNCHANGED told
    BY <2>1, <2>2, <2>4 DEF KidInv, Left, Known, Alive, OneAdvert, NothingLeftOnAir, Working
  <2>5. QED
    BY <1>4, <2>3, <2>4 DEF WakeStop
<1>5. CASE WakeReap
  <2>1. /\ wk = "reap" /\ kid' = [kid EXCEPT ![sc] = "dead"] /\ Left
        /\ UNCHANGED <<pc, said, told, cut, shot>>
    BY <1>5 DEF WakeReap, ends
  <2>2. pc # "gone"
    BY <2>1 DEF ScopeInv, Ending, Raising
  <2>3. \A s \in Scopes : Alive(s)' => Alive(s) /\ s # sc
    BY <2>1 DEF KidInv, ScopeInv, Alive
  <2>4. QED
    BY <2>1, <2>2, <2>3 DEF KidInv, Left, Known, OneAdvert, NothingLeftOnAir, Working
<1>6. CASE \E s \in Scopes : KidStarts(s) \/ KidRefused(s) \/ KidEnds(s)
  <2> PICK s \in Scopes : KidStarts(s) \/ KidRefused(s) \/ KidEnds(s)
    BY <1>6
  <2> said[s] \in {"nothing", "START", "FAILED"}
    BY DEF KidInv
  <2>1. PICK state \in {"air", "failed", "dead"}, word \in {"nothing", "START", "FAILED"} :
          Alive(s) /\ KidStep(s, state, word)
    <3>1. Alive(s)
      BY DEF KidStarts, KidRefused, KidEnds, KidExits, KidExpires, KidStops, Alive
    <3>2. \/ KidStep(s, "air", "START") \/ KidStep(s, "failed", "FAILED")
          \/ KidStep(s, "dead", said[s])
      BY DEF KidStarts, KidRefused, KidEnds, KidExits, KidExpires, KidStops
    <3>3. QED
      BY <3>1, <3>2
  <2>2. /\ kid' = [kid EXCEPT ![s] = state] /\ said' = [said EXCEPT ![s] = word]
        /\ UNCHANGED <<pc, wk, sc, held, told, cut, shot>>
    BY <2>1 DEF KidStep, waking, ends
  <2>3. \A u \in Scopes : Alive(u)' => Alive(u)
    BY <2>1, <2>2 DEF Alive, KidInv
  <2>4. QED
    BY <2>2, <2>3 DEF KidInv, Known, OneAdvert, NothingLeftOnAir, Working
<1>7. CASE Raise
  <2>1. /\ pc # "gone" /\ pc' = "leave" /\ UNCHANGED <<kid, said, shot>>
        /\ cut' = (cut \/ (Gap /\ Alive(sc)))
    BY <1>7 DEF Raise
  <2>2. CASE wk = "read"
    <3>1. told' = [told EXCEPT ![sc] = TRUE] /\ wk' = "reap" /\ UNCHANGED <<sc, active, held>>
      BY <1>7, <2>2 DEF Raise
    <3>2. \A s \in Scopes : Alive(s) => told'[s] \/ s \in held
      BY <2>2, <3>1 DEF KidInv, ScopeInv, Known, Working, Raising
    <3>3. QED
      BY <2>1, <3>1, <3>2 DEF KidInv, ScopeInv, Alive, OneAdvert, NothingLeftOnAir, Working
  <2>3. CASE wk # "read"
    <3>1. UNCHANGED told /\ wk' # "reap"
      BY <1>7, <2>3 DEF Raise, Left, Leave
    <3>2. \A s \in Scopes : Alive(s) /\ ~cut' => told[s] \/ s \in held'
      <4> SUFFICES ASSUME NEW s \in Scopes, Alive(s), ~cut' PROVE told[s] \/ s \in held'
        OBVIOUS
      <4>1. told[s] \/ s \in held
        BY <2>1, <2>3, ZenonT(40) DEF KidInv, ScopeInv, Known, Working, Gap
      <4>2. CASE held' = held
        BY <4>1, <4>2
      <4>3. CASE wk \in {"stop", "reap"} /\ Left
        BY <2>1, <4>1, <4>3 DEF KidInv, Left, Gap
      <4>4. QED
        BY <1>7, <2>3, <4>2, <4>3 DEF Raise, Leave
    <3>3. QED
      BY <2>1, <3>1, <3>2 DEF KidInv, Alive, OneAdvert, NothingLeftOnAir, Working
  <2>4. QED
    BY <2>2, <2>3
<1>8. CASE Kill \/ (active = {} /\ pc # "gone" /\ Gone /\ UNCHANGED shot)
  <2>1. /\ pc # "gone" /\ pc' = "gone" /\ wk' = "no" /\ UNCHANGED <<kids, held, cut>>
        /\ active = {} \/ shot'
    BY <1>8 DEF Kill, Gone
  <2>2. QED
    BY <2>1, Quiet
<1>9. CASE Deadline \/ (\E m \in Mac : ThreadStep(m)) \/ UNCHANGED vars
  <2>1. UNCHANGED <<pc, wk, sc, active, held, kids, cut, shot>>
    BY <1>9 DEF Deadline, ThreadStep, Knock, Knocked, Dial, Answer, Thread, vars, waking, ends
  <2>2. QED
    BY <2>1 DEF KidInv, Known, Alive, kids, OneAdvert, NothingLeftOnAir, Working
<1>10. CASE LeaveStep
  <2>1. /\ pc = "leave" /\ wk = "no" /\ UNCHANGED <<kids, held, cut, shot>> /\ wk' # "reap"
        /\ pc' = "leave" \/ (pc' = "gone" /\ active = {})
    BY <1>10 DEF LeaveStep, At, Leave, waking, ends
  <2>2. QED
    BY <2>1, Quiet DEF Working
<1>11. CASE \/ Begin \/ Ask \/ Check \/ Collect \/ Rescan \/ Named
            \/ Choose \/ First \/ Poll \/ Reread \/ Swap \/ Run \/ Sent
  <2>1. /\ wk = "no" /\ pc \notin {"leave", "gone"} /\ pc' # "gone"
        /\ UNCHANGED <<kids, cut, shot>>
    BY <1>11 DEF At, Begin, Ask, Check, Collect, Rescan, Named, Choose, First, Poll, Reread,
       Swap, Run, Sent, ends
  <2>2. wk' # "reap" /\ held' = held
    BY <1>11 DEF At, Begin, Ask, Check, Collect, Rescan, Named, Choose, First, Poll, Reread,
       Swap, Run, Sent, waking, EnterIf, Enter, Leave
  <2>3. QED
    BY <2>1, <2>2, Quiet DEF Known
<1>12. QED
  BY <1>1, <1>2, <1>3, <1>4, <1>5, <1>6, <1>7, <1>8, <1>9, <1>10, <1>11 DEF Next, Main, Term

-----------------------------------------------------------------------------
(* The transfer *)

\* The sender runs where the main thread waits for it, and its advert, once it
\* said a word, is one nobody has ended.
SendInv ==
  /\ sender = "run" <=> pc = "sending"
  /\ pc = "sending" => wk = "no"
  /\ Working => ~told["send"]
  /\ Working /\ said["send"] # "nothing" => Known("send")

LEMMA SendStep ==
  ASSUME ScopeInv, KidInv, SendInv, [Next]_vars
  PROVE  SendInv'
<1> USE DEF Working, Known
<1>1. CASE WakeSpawn
  <2>1. wk = "spawn" /\ UNCHANGED <<pc, sc, held, said, told, sender>> /\ wk' \in {"gap", "no"}
    BY <1>1 DEF WakeSpawn, sending
  <2>2. QED
    BY <2>1 DEF SendInv
<1>2. CASE WakeTry \/ WakeGive
  <2>1. /\ wk \in Raising /\ UNCHANGED <<pc, said, told, sender>>
        /\ Known("send") => Known("send")'
    BY <1>2 DEF WakeTry, WakeGive, sending, kids, Raising
  <2>2. pc # "sending"
    BY <2>1 DEF ScopeInv, Raising
  <2>3. QED
    BY <2>1, <2>2 DEF SendInv
<1>3. CASE WakeRead
  <2>1. /\ wk = "read" /\ UNCHANGED <<pc, sc, held, said, told, sender>>
        /\ wk' = "give" \/ (wk' = "no" /\ said[sc] = "nothing")
    BY <1>3 DEF WakeRead, sending, kids
  <2>2. pc # "sending"
    BY <2>1 DEF ScopeInv, Raising
  <2>3. QED
    BY <2>1, <2>2 DEF SendInv
<1>4. CASE WakeStop \/ WakeReap
  <2>1. /\ wk \in Ending /\ UNCHANGED <<pc, said, sender>>
        /\ UNCHANGED told \/ told' = [told EXCEPT ![sc] = TRUE]
        /\ UNCHANGED held \/ held' = held \ {sc}
    BY <1>4 DEF WakeStop, WakeReap, Left, sending, Ending
  <2>2. pc # "sending" /\ (Working => sc # "send")
    BY <2>1 DEF ScopeInv, Ending, Raising
  <2>3. QED
    BY <2>1, <2>2 DEF SendInv, KidInv, Ending, Scopes
<1>5. CASE \E s \in Scopes : KidStarts(s) \/ KidRefused(s) \/ KidEnds(s)
  <2> PICK s \in Scopes : KidStarts(s) \/ KidRefused(s) \/ KidEnds(s)
    BY <1>5
  <2>1. Alive(s) /\ UNCHANGED <<pc, wk, sc, held, told, sender>>
    BY DEF KidStarts, KidRefused, KidEnds, KidExits, KidExpires, KidStops, Alive, KidStep,
       waking, sending
  <2>2. \E word \in {"nothing", "START", "FAILED"} : said' = [said EXCEPT ![s] = word]
    <3>1. said[s] \in {"nothing", "START", "FAILED"}
      BY DEF KidInv
    <3>2. QED
      BY <3>1 DEF KidStarts, KidRefused, KidEnds, KidExits, KidExpires, KidStops, KidStep
  <2>3. QED
    BY <2>1, <2>2 DEF SendInv, KidInv, Scopes
<1>6. CASE Raise \/ Kill \/ (active = {} /\ pc # "gone" /\ Gone /\ UNCHANGED shot)
  <2>1. pc' \in {"leave", "gone"} /\ sender' # "run"
    BY <1>6 DEF Raise, Kill, Gone
  <2>2. QED
    BY <2>1 DEF SendInv
<1>7. CASE Deadline \/ (\E m \in Mac : ThreadStep(m)) \/ UNCHANGED vars
  <2>1. UNCHANGED <<pc, wk, sc, held, said, told, sender>>
    BY <1>7 DEF Deadline, ThreadStep, Knock, Knocked, Dial, Answer, Thread, vars, waking,
       kids, sending
  <2>2. QED
    BY <2>1 DEF SendInv
<1>8. CASE Run \/ Sent \/ LeaveStep
  <2>1. /\ wk = "no" /\ UNCHANGED <<said, told>>
        /\ \/ pc = "run" /\ pc' = "sending" /\ sender' = "run" /\ UNCHANGED waking
           \/ pc = "sending" /\ pc' = "leave" /\ sender' = "done"
           \/ pc = "leave" /\ pc' \in {"leave", "gone"} /\ UNCHANGED sender
    BY <1>8 DEF Run, Sent, LeaveStep, At, kids, sending
  <2>2. QED
    BY <2>1 DEF SendInv, waking
<1>9. CASE \/ Begin \/ Ask \/ Check \/ Collect \/ Rescan \/ Named
           \/ Choose \/ First \/ Poll \/ Reread \/ Swap
  <2>1. /\ wk = "no" /\ pc \notin {"leave", "gone", "sending"} /\ pc' # "sending"
        /\ UNCHANGED <<said, told, sender>>
    BY <1>9 DEF At, Begin, Ask, Check, Collect, Rescan, Named, Choose, First, Poll, Reread,
       Swap, kids, sending
  <2>2. held' = held
    BY <1>9 DEF At, Begin, Ask, Check, Collect, Rescan, Named, Choose, First, Poll, Reread,
       Swap, waking, EnterIf, Enter, Leave
  <2>3. QED
    BY <2>1, <2>2 DEF SendInv
<1>10. QED
  BY <1>1, <1>2, <1>3, <1>4, <1>5, <1>6, <1>7, <1>8, <1>9 DEF Next, Main, Term

LEMMA SendSafe == ASSUME ScopeInv, KidInv, SendInv PROVE WakeThroughTransfer
<1> SUFFICES ASSUME sender = "run" PROVE WakeThroughTransfer
  BY DEF WakeThroughTransfer
<1>1. pc = "sending" /\ wk = "no" /\ held \subseteq active /\ active \subseteq {"send"}
  BY DEF SendInv, ScopeInv
<1>2. \A s \in Scopes : Alive(s) => s \in held
  BY <1>1 DEF KidInv, Working, Known
<1>3. QED
  BY <1>1, <1>2 DEF WakeThroughTransfer, SendInv, ScopeInv, Working, Known, Scopes

-----------------------------------------------------------------------------
(* The main thread's and the table's types *)

MainTypes ==
  /\ wakes \in BOOLEAN /\ ready \in BOOLEAN /\ late \in BOOLEAN
  /\ pc \in {"begin", "ask", "check", "collect", "rescan", "named", "choose", "first", "poll",
             "reread", "swap", "run", "sending", "leave", "gone"}
  /\ PORTS \in [Mac -> Ports] /\ mac \in Mac \cup {None} /\ port \in Ports
  /\ announced \in BOOLEAN /\ sender \in {"no", "run", "done", "killed", "orphan"}
  /\ cut \in BOOLEAN /\ shot \in BOOLEAN
  /\ pc \in {"choose", "first", "poll", "reread", "swap", "run", "sending"} => mac \in Mac

LEMMA PeersTypes ==
  ASSUME PORTS \in [Mac -> Ports], NEW found \in SUBSET Mac, Peers(found)
  PROVE  PORTS' \in [Mac -> Ports] /\ kept' \in [Mac -> BOOLEAN]
<1>1. PICK ports \in [Mac -> Ports] :
        /\ KeepPorts(found, ports)
        /\ kept' = [m \in Mac |-> th[m] = "none" \/ (kept[m] /\ m \in found
                                                  /\ ports[m] \in {AIRDROP_PORT, at[m]})]
  BY DEF Peers
<1>2. PORTS' \in [Mac -> Ports]
  <2>1. AIRDROP_PORT \in Ports
    BY DEF Ports
  <2>2. QED
    BY <1>1, <2>1 DEF KeepPorts
<1>3. kept' \in [Mac -> BOOLEAN]
  BY <1>1, Zenon
<1>4. QED
  BY <1>2, <1>3

LEMMA MainStep == ASSUME MainTypes, [Next]_vars PROVE MainTypes'
<1>1. CASE WakeSpawn \/ WakeTry \/ WakeGive \/ WakeStop \/ WakeReap \/ UNCHANGED vars \/
           (\E m \in Mac : ThreadStep(m)) \/
           (\E s \in Scopes : KidStarts(s) \/ KidRefused(s) \/ KidEnds(s))
  <2>1. UNCHANGED <<wakes, ready, late, pc, PORTS, mac, port, announced, sender, cut, shot>>
    BY <1>1 DEF WakeSpawn, WakeTry, WakeGive, WakeStop, WakeReap, vars, ThreadStep, Knock,
       Knocked, Dial, Answer, Thread, KidStarts, KidRefused, KidEnds, KidExits, KidExpires,
       KidStops, KidStep, sending, ends
  <2>2. QED
    BY <2>1 DEF MainTypes
<1>2. CASE WakeRead \/ Deadline
  <2>1. UNCHANGED <<wakes, pc, PORTS, mac, port, announced, sender, cut, shot>>
    BY <1>2 DEF WakeRead, Deadline, sending, ends
  <2>2. ready' \in BOOLEAN /\ late' \in BOOLEAN
    BY <1>2 DEF WakeRead, Deadline, MainTypes
  <2>3. QED
    BY <2>1, <2>2 DEF MainTypes
<1>3. CASE Begin
  <2>1. UNCHANGED <<wakes, ready, late, port, announced, sender, cut, shot>>
    BY <1>3 DEF Begin, ends
  <2>2. \/ pc' \in {"leave", "ask"} /\ mac' = mac
        \/ pc' = "choose" /\ mac' \in Mac
    BY <1>3 DEF Begin
  <2>3. PORTS' = PORTS \/ \E found \in SUBSET Mac : Peers(found)
    BY <1>3 DEF Begin
  <2>4. PORTS' \in [Mac -> Ports]
    BY <2>3, PeersTypes DEF MainTypes
  <2>5. QED
    BY <2>1, <2>2, <2>4 DEF MainTypes
<1>4. CASE Ask \/ Check \/ Collect \/ First \/ Poll \/ Swap \/ LeaveStep
  <2>1. UNCHANGED <<wakes, ready, late, PORTS, mac, port, announced, sender, cut, shot>>
    BY <1>4 DEF Ask, Check, Collect, First, Poll, Swap, LeaveStep, sending, ends
  <2>2. \/ pc' \in {"check", "collect", "rescan", "named", "leave", "gone"}
        \/ pc \in {"first", "poll", "swap"} /\ pc' \in {"run", "poll", "reread"}
    BY <1>4 DEF Ask, Check, Collect, First, Poll, Swap, LeaveStep, At, MainTypes
  <2>3. QED
    BY <2>1, <2>2 DEF MainTypes
<1>5. CASE Rescan
  <2>1. pc' = "check" /\ UNCHANGED <<wakes, ready, late, mac, port, announced, sender, cut, shot>>
    BY <1>5 DEF Rescan, sending, ends
  <2>2. PORTS' = PORTS \/ \E found \in SUBSET Mac : Peers(found)
    BY <1>5 DEF Rescan
  <2>3. PORTS' \in [Mac -> Ports]
    BY <2>2, PeersTypes DEF MainTypes
  <2>4. QED
    BY <2>1, <2>3 DEF MainTypes
<1>6. CASE Named
  <2>1. UNCHANGED <<wakes, ready, late, PORTS, port, announced, sender, cut, shot>>
    BY <1>6 DEF Named, ends
  <2>2. (pc' = "choose" /\ mac' \in Mac) \/ (pc' = "leave" /\ mac' = mac)
    BY <1>6 DEF Named
  <2>3. QED
    BY <2>1, <2>2 DEF MainTypes
<1>7. CASE Choose
  <2>1. /\ pc = "choose" /\ pc' \in {"first", "run"} /\ port' = PORTS[mac]
        /\ announced' = (PORTS[mac] # AIRDROP_PORT) /\ late' = FALSE /\ ready' = FALSE
        /\ UNCHANGED <<wakes, PORTS, mac, sender, cut, shot>>
    BY <1>7 DEF Choose, At, ends
  <2>2. QED
    BY <2>1 DEF MainTypes
<1>8. CASE Reread
  <2>1. pc = "reread" /\ UNCHANGED <<wakes, ready, late, mac, sender, cut, shot>>
    BY <1>8 DEF Reread, At, ends
  <2>2. PORTS' = PORTS \/ \E found \in SUBSET Mac : Peers(found)
    BY <1>8 DEF Reread
  <2>3. PORTS' \in [Mac -> Ports]
    BY <2>2, PeersTypes DEF MainTypes
  <2>4. /\ pc' \in {"poll", "swap"}
        /\ UNCHANGED <<port, announced>> \/ (port' = PORTS'[mac] /\ announced' = TRUE)
    BY <1>8 DEF Reread
  <2>5. QED
    BY <2>1, <2>3, <2>4 DEF MainTypes
<1>9. CASE Run \/ Sent
  <2>1. /\ UNCHANGED <<wakes, ready, late, PORTS, mac, port, announced, cut, shot>>
        /\ sender' \in {"run", "done"}
        /\ (pc = "run" /\ pc' = "sending") \/ pc' = "leave"
    BY <1>9 DEF Run, Sent, At, ends
  <2>2. QED
    BY <2>1 DEF MainTypes
<1>10. CASE Raise
  <2>1. /\ pc' = "leave" /\ cut' = (cut \/ (Gap /\ Alive(sc)))
        /\ sender' = (IF sender = "run" THEN "killed" ELSE sender)
        /\ UNCHANGED <<wakes, ready, late, PORTS, mac, port, announced, shot>>
    BY <1>10 DEF Raise
  <2>2. QED
    BY <2>1 DEF MainTypes
<1>11. CASE Kill \/ (active = {} /\ pc # "gone" /\ Gone /\ UNCHANGED shot)
  <2>1. /\ pc' = "gone" /\ sender' = (IF sender = "run" THEN "orphan" ELSE sender)
        /\ UNCHANGED <<wakes, ready, late, PORTS, mac, port, announced, cut>>
        /\ shot' = TRUE \/ shot' = shot
    BY <1>11 DEF Kill, Gone
  <2>2. QED
    BY <2>1 DEF MainTypes
<1>12. QED
  BY <1>1, <1>2, <1>3, <1>4, <1>5, <1>6, <1>7, <1>8, <1>9, <1>10, <1>11 DEF Next, Main, Term

-----------------------------------------------------------------------------
(* The threads, and the ports they try *)

\* A thread under way tries the port its peer has, unless a read of the table
\* moved it; and knocks at most twice.
ThreadInv ==
  /\ th \in [Mac -> {"none", "knock", "knocking", "answered", "ignored", "asking", "done", "got"}]
  /\ at \in [Mac -> Ports] /\ tries \in [Mac -> 0..3]
  /\ ans \in [Mac -> {"none", "name", "other"}] /\ kept \in [Mac -> BOOLEAN]
  /\ \A m \in Mac : th[m] \in {"none", "knock", "knocking"} => tries[m] <= 2
  /\ \A m \in Mac : th[m] \notin {"none", "knock", "ignored"} /\ kept[m] => PORTS[m] = at[m]
  /\ pc = "begin" => \A m \in Mac : th[m] = "none"

\* A read of the table moves no port without a note of it.
LEMMA PeersKeep ==
  ASSUME ThreadInv, NEW found \in SUBSET Mac, Peers(found),
         NEW m \in Mac, th[m] \notin {"none", "knock", "ignored"}, kept'[m]
  PROVE  PORTS'[m] = at[m]
<1>1. PICK ports \in [Mac -> Ports] :
        /\ KeepPorts(found, ports)
        /\ kept' = [n \in Mac |-> th[n] = "none" \/ (kept[n] /\ n \in found
                                                  /\ ports[n] \in {AIRDROP_PORT, at[n]})]
  BY DEF Peers
<1>2. kept[m] /\ m \in found /\ ports[m] \in {AIRDROP_PORT, at[m]}
  BY <1>1
<1>3. PORTS'[m] = IF ports[m] # AIRDROP_PORT THEN ports[m] ELSE PORTS[m]
  BY <1>1, <1>2 DEF KeepPorts
<1>4. QED
  BY <1>2, <1>3 DEF ThreadInv

LEMMA ForgetTypes == ASSUME Forget, pc' # "begin" PROVE ThreadInv'
  BY DEF Forget, NoThreads, ThreadInv, Ports

LEMMA ThreadsStep == ASSUME MainTypes, ThreadInv, [Next]_vars PROVE ThreadInv'
<1>1. CASE WakeSpawn \/ WakeTry \/ WakeRead \/ WakeGive \/ WakeStop \/ WakeReap \/ Ask \/
          Check \/ Named \/ First \/ Poll \/ Swap \/ Run \/ Sent \/ Deadline \/ Raise \/
          UNCHANGED vars \/ (\E s \in Scopes : KidStarts(s) \/ KidRefused(s) \/ KidEnds(s))
  <2>1. UNCHANGED <<th, at, tries, ans, kept, PORTS>>
    BY <1>1 DEF WakeSpawn, WakeTry, WakeRead, WakeGive, WakeStop, WakeReap, Ask, Check, Named,
       First, Poll, Swap, Run, Sent, Deadline, Raise, vars, threads, KidStarts, KidRefused,
       KidEnds, KidExits, KidExpires, KidStops, KidStep
  <2>2. pc' = "begin" => pc = "begin"
    BY <1>1 DEF WakeSpawn, WakeTry, WakeRead, WakeGive, WakeStop, WakeReap, Ask, Check, Named,
       First, Poll, Swap, Run, Sent, Deadline, Raise, vars, KidStarts, KidRefused,
       KidEnds, KidExits, KidExpires, KidStops, KidStep
  <2>3. QED
    BY <2>1, <2>2 DEF ThreadInv
<1>2. CASE Choose \/ LeaveStep \/ Kill \/ (active = {} /\ pc # "gone" /\ Gone /\ UNCHANGED shot)
  <2>1. Forget /\ pc' # "begin"
    BY <1>2 DEF Choose, LeaveStep, Kill, Gone, At
  <2>2. QED
    BY <2>1, ForgetTypes
<1>3. CASE Collect
  <2>1. /\ th' = [m \in Mac |-> IF th[m] = "done" THEN "got" ELSE th[m]]
        /\ UNCHANGED <<at, tries, ans, kept, PORTS>> /\ pc' # "begin"
    BY <1>3 DEF Collect
  <2>2. QED
    BY <2>1 DEF ThreadInv
<1>4. CASE Begin \/ Rescan \/ Reread
  <2>1. UNCHANGED <<at, tries, ans>> /\ pc' # "begin"
    BY <1>4 DEF Begin, Rescan, Reread, threads
  <2>2. \/ UNCHANGED <<th, PORTS, kept>>
        \/ \E found \in SUBSET Mac :
             /\ Peers(found)
             /\ \/ UNCHANGED th
                \/ /\ \A m \in Mac : th[m] = "none"
                   /\ th' = [m \in Mac |-> IF m \in found THEN "knock" ELSE "none"]
                \/ th' = [m \in Mac |-> IF m \in found \ Asked THEN "knock" ELSE th[m]]
    BY <1>4 DEF Begin, Rescan, Reread, threads, At, ThreadInv
  <2>3. CASE UNCHANGED <<th, PORTS, kept>>
    BY <2>1, <2>3 DEF ThreadInv
  <2>4. ASSUME NEW found \in SUBSET Mac, Peers(found), UNCHANGED th PROVE ThreadInv'
    <3>1. kept' \in [Mac -> BOOLEAN]
      BY <2>4, PeersTypes DEF MainTypes
    <3>2. \A m \in Mac :
            th'[m] \notin {"none", "knock", "ignored"} /\ kept'[m] => PORTS'[m] = at'[m]
      BY <2>1, <2>4, PeersKeep
    <3>3. QED
      BY <2>1, <2>4, <3>1, <3>2 DEF ThreadInv
  <2>5. ASSUME NEW found \in SUBSET Mac, Peers(found),
               th' = [m \in Mac |-> IF m \in found \ Asked THEN "knock" ELSE th[m]]
        PROVE  ThreadInv'
    <3>1. kept' \in [Mac -> BOOLEAN]
      BY <2>5, PeersTypes DEF MainTypes
    <3>2. \A m \in Mac :
            th'[m] \notin {"none", "knock", "ignored"} /\ kept'[m] => PORTS'[m] = at'[m]
      BY <2>1, <2>5, PeersKeep
    <3>3. QED
      BY <2>1, <2>5, <3>1, <3>2 DEF ThreadInv, Asked
  <2>6. ASSUME NEW found \in SUBSET Mac, Peers(found), \A m \in Mac : th[m] = "none",
               th' = [m \in Mac |-> IF m \in found THEN "knock" ELSE "none"]
        PROVE  ThreadInv'
    <3>1. kept' \in [Mac -> BOOLEAN]
      BY <2>6, PeersTypes DEF MainTypes
    <3>2. QED
      BY <2>1, <2>6, <3>1 DEF ThreadInv
  <2>7. QED
    BY <2>2, <2>3, <2>4, <2>5, <2>6
<1>5. ASSUME NEW m \in Mac, ThreadStep(m) PROVE ThreadInv'
  <2> UNCHANGED <<pc, PORTS>> /\ PORTS \in [Mac -> Ports] /\ pc # "begin"
    BY <1>5 DEF ThreadStep, Knock, Knocked, Dial, Answer, Thread, MainTypes
  <2>1. CASE Knock(m)
    <3>1. th[m] = "knock" /\ UNCHANGED ans
      BY <2>1 DEF Knock
    <3>2. CASE th' = [th EXCEPT ![m] = "ignored"] /\ UNCHANGED <<at, tries, kept>>
      BY <3>1, <3>2 DEF ThreadInv
    <3>3. CASE /\ ~(~ready /\ tries[m] = 2) /\ th' = [th EXCEPT ![m] = "knocking"]
               /\ at' = [at EXCEPT ![m] = PORTS[m]] /\ kept' = [kept EXCEPT ![m] = TRUE]
               /\ tries' = IF ready THEN tries ELSE [tries EXCEPT ![m] = @ + 1]
      <4>1. tries' \in [Mac -> 0..3] /\ \A n \in Mac : n # m => tries'[n] = tries[n]
        BY <3>1, <3>3 DEF ThreadInv
      <4>2. tries'[m] <= 2
        BY <3>1, <3>3 DEF ThreadInv
      <4>3. QED
        BY <3>1, <3>3, <4>1, <4>2 DEF ThreadInv
    <3>4. QED
      BY <2>1, <3>2, <3>3 DEF Knock
  <2>2. CASE Knocked(m)
    BY <2>2 DEF Knocked, ThreadInv
  <2>3. CASE Dial(m)
    BY <2>3 DEF Dial, ThreadInv
  <2>4. CASE Answer(m)
    BY <2>4 DEF Answer, ThreadInv
  <2>5. QED
    BY <1>5, <2>1, <2>2, <2>3, <2>4 DEF ThreadStep
<1>6. QED
  BY <1>1, <1>2, <1>3, <1>4, <1>5 DEF Next, Main, Term

\* A thread goes from its knocks to its asks only by Dial, and the main thread
\* to the wait or the transfer only by Choose.
LEMMA PortStep ==
  ASSUME MainTypes, ThreadInv, [Next]_vars
  PROVE  /\ \A m \in Mac : th[m] = "answered" /\ th'[m] = "asking" => at'[m] = PORTS[m]
         /\ At("choose") /\ pc' \in {"first", "run"} => port' = PORTS[mac]
<1>1. ASSUME NEW m \in Mac, th[m] = "answered", th'[m] = "asking"
      PROVE  at'[m] = PORTS[m]
  <2>1. CASE \/ WakeSpawn \/ WakeTry \/ WakeRead \/ WakeGive \/ WakeStop \/ WakeReap
             \/ Ask \/ Check \/ Named \/ First \/ Poll \/ Swap \/ Run \/ Sent \/ Reread
             \/ Deadline \/ Raise \/ UNCHANGED vars
             \/ (\E s \in Scopes : KidStarts(s) \/ KidRefused(s) \/ KidEnds(s))
    <3>1. UNCHANGED th
      BY <2>1 DEF WakeSpawn, WakeTry, WakeRead, WakeGive, WakeStop, WakeReap, Ask, Check,
         Named, First, Poll, Swap, Run, Sent, Reread, Deadline, Raise, vars, threads,
         KidStarts, KidRefused, KidEnds, KidExits, KidExpires, KidStops, KidStep
    <3>2. QED
      BY <1>1, <3>1
  <2>2. CASE Begin
    BY <1>1, <2>2 DEF Begin
  <2>3. CASE Collect \/ Rescan
    BY <1>1, <2>3 DEF Collect, Rescan
  <2>4. CASE Choose \/ LeaveStep \/ Kill \/ (active = {} /\ pc # "gone" /\ Gone /\ UNCHANGED shot)
    <3>1. th' = [n \in Mac |-> "none"]
      BY <2>4 DEF Choose, LeaveStep, Kill, Gone, Forget, NoThreads
    <3>2. QED
      BY <1>1, <3>1
  <2>5. ASSUME NEW n \in Mac, ThreadStep(n) PROVE at'[m] = PORTS[m]
    <3>1. CASE Dial(n)
      BY <1>1, <3>1 DEF Dial, ThreadInv
    <3>2. CASE Knock(n) \/ Knocked(n) \/ Answer(n)
      BY <1>1, <3>2 DEF Knock, Knocked, Answer, ThreadInv
    <3>3. QED
      BY <2>5, <3>1, <3>2 DEF ThreadStep
  <2>6. QED
    BY <2>1, <2>2, <2>3, <2>4, <2>5 DEF Next, Main, Term
<1>2. ASSUME pc = "choose", wk = "no", pc' \in {"first", "run"}
      PROVE  port' = PORTS[mac]
  <2>1. pc' # pc /\ pc' \notin {"leave", "gone"}
    BY <1>2
  <2>2. Choose
    <3>1. CASE Deadline \/ UNCHANGED vars \/ (\E m \in Mac : ThreadStep(m)) \/
               (\E s \in Scopes : KidStarts(s) \/ KidRefused(s) \/ KidEnds(s))
      BY <2>1, <3>1 DEF Deadline, vars, ThreadStep, Knock, Knocked, Dial, Answer, Thread,
         KidStarts, KidRefused, KidEnds, KidExits, KidExpires, KidStops, KidStep
    <3>2. CASE Term \/ Kill
      BY <2>1, <3>2 DEF Term, Raise, Kill, Gone
    <3>3. CASE Main
      BY <1>2, <3>3 DEF Main, WakeSpawn, WakeTry, WakeRead, WakeGive, WakeStop, WakeReap, At,
         Begin, Ask, Check, Collect, Rescan, Named, First, Poll, Reread, Swap, Run, Sent,
         LeaveStep
    <3>4. QED
      BY <3>1, <3>2, <3>3 DEF Next
  <2>3. QED
    BY <2>2 DEF Choose
<1>3. QED
  BY <1>1, <1>2 DEF At

-----------------------------------------------------------------------------
(* Theorems *)

\* All that holds of a command in any state.
Invariant == ScopeInv /\ KidInv /\ SendInv /\ MainTypes /\ ThreadInv

LEMMA Initially == Init => Invariant
<1> SUFFICES ASSUME Init PROVE Invariant
  OBVIOUS
<1>1. ScopeInv
  BY DEF Init, ScopeInv, Raising, Ending, Scopes
<1>2. KidInv
  BY DEF Init, KidInv, OneAdvert, NothingLeftOnAir, Alive, Known
<1>3. SendInv
  BY DEF Init, SendInv, Scopes
<1>4. MainTypes
  BY DEF Init, MainTypes, Ports
<1>5. ThreadInv
  BY DEF Init, ThreadInv, NoThreads, Ports
<1>6. QED
  BY <1>1, <1>2, <1>3, <1>4, <1>5 DEF Invariant

LEMMA Inductive == Invariant /\ [Next]_vars => Invariant'
  BY ScopeStep, KidStepInv, SendStep, MainStep, ThreadsStep DEF Invariant

LEMMA Always == Spec => []Invariant
  BY Initially, Inductive, PTL DEF Spec

\* Every variable of the command keeps its type: a thread knocks twice and
\* asks three times at most, and the scopes whose advertiser is known are ones
\* the main thread is in.
THEOREM TypeCorrect == Spec => []TypeOK
<1>1. Invariant => TypeOK
  BY DEF Invariant, ScopeInv, KidInv, MainTypes, ThreadInv, TypeOK, Raising, Ending
<1>2. QED
  BY <1>1, Always, PTL

\* One advert at a time, whichever scopes follow or replace one another (wake,
\* and main's swap of the wait's advert for the transfer's).
THEOREM OneAtATime == Spec => []OneAdvert
<1>1. Invariant => OneAdvert
  BY DEF Invariant, KidInv
<1>2. QED
  BY <1>1, Always, PTL

\* Whatever ends the command, outside the gaps between a spawn and the variable
\* a finally looks at, no advertiser is left on the air untold.
THEOREM NoneLeft == Spec => []NothingLeftOnAir
<1>1. Invariant => NothingLeftOnAir
  BY DEF Invariant, KidInv
<1>2. QED
  BY <1>1, Always, PTL

\* A transfer to a peer that announced its port runs under an advert nobody
\* has ended, and one to another peer under none.
THEOREM WakeLasts == Spec => []WakeThroughTransfer
<1>1. Invariant => WakeThroughTransfer
  BY SendSafe DEF Invariant
<1>2. QED
  BY <1>1, Always, PTL

\* The port a thread knocked at is the one it asks, and the one it asked the
\* one the transfer goes to, unless a read of the peer table said otherwise.
THEOREM PortKept == Spec => AnsweredPortKept
<1>1. Invariant /\ [Next]_vars =>
        [/\ \A m \in Mac : th[m] = "answered" /\ th'[m] = "asking" /\ kept[m] => at'[m] = at[m]
         /\ At("choose") /\ pc' \in {"first", "run"} /\ th[mac] = "got" /\ kept[mac] =>
              port' = at[mac]]_vars
  <2> SUFFICES ASSUME Invariant, [Next]_vars
               PROVE  /\ \A m \in Mac : th[m] = "answered" /\ th'[m] = "asking" /\ kept[m] =>
                           at'[m] = at[m]
                      /\ At("choose") /\ pc' \in {"first", "run"} /\ th[mac] = "got"
                           /\ kept[mac] => port' = at[mac]
    OBVIOUS
  <2>1. \A m \in Mac : th[m] \in {"answered", "got"} /\ kept[m] => PORTS[m] = at[m]
    BY DEF Invariant, ThreadInv
  <2>2. At("choose") => mac \in Mac
    BY DEF Invariant, MainTypes, At
  <2>3. QED
    BY <2>1, <2>2, PortStep DEF Invariant
<1>2. QED
  BY <1>1, Always, PTL DEF Spec, AnsweredPortKept
=============================================================================
