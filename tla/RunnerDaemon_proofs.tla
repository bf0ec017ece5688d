------------------------ MODULE RunnerDaemon_proofs ------------------------
(***************************************************************************)
(* Proofs about RunnerDaemon for every set of sids and of instances.       *)
(***************************************************************************)
EXTENDS RunnerDaemon, TLAPS

\* A slot holds an instance of its sid, which no task has popped.
Slots ==
  \A s \in Sid : table[s] # None =>
    /\ sid[table[s]] = s
    /\ closedBy[table[s]] \in {"nobody", "teardown"}

\* An instance that was not created yet does nothing.
Unused ==
  \A i \in Inst : sid[i] = None =>
    /\ client[i] = "none" /\ opening[i] = "no" /\ turn[i] = "none"
    /\ closer[i] = "no" /\ closedBy[i] = "nobody" /\ i \notin todo

\* A session that is opening is in its slot, unless it was closed meanwhile.
Openings ==
  \A i \in Inst :
    /\ client[i] = "connecting" => opening[i] = "starting"
    /\ opening[i] # "no" => table[sid[i]] = i \/ sid[i] \in hasty

\* A closing task goes on only when the turn is over, and is somebody's.
Closers ==
  \A i \in Inst :
    /\ closer[i] # "no" => closedBy[i] # "nobody"
    /\ closer[i] \notin {"no", "turn"} => ~InFlight(i)
    /\ i \in goodbye => closer[i] = "done" /\ closedBy[i] \in {"handler", "reaper"}

\* The reaper closes one session at a time, and none when it is not at it.
ReaperCloses ==
  /\ reaper # "busy" => Closing("reaper") = {}
  /\ \A i, j \in Closing("reaper") : i = j

\* How far the teardown has got.
TeardownStage ==
  /\ conn = "up" => /\ teardown = "no"
                    /\ \A i \in Inst : turn[i] # "raised"
  /\ teardown \notin {"no", "reaper"} =>
       /\ reaper = "dead"
       /\ \A i \in Inst : opening[i] = "no"
  /\ (\E i \in Inst : closedBy[i] = "teardown") => teardown \in {"sessions",
    "done", "aborted"}
  /\ teardown \in {"sessions", "done"} => Closing("handler") = {}
  /\ teardown = "done" => Closing("teardown") = {}
  /\ todo # {} => teardown \in {"sessions", "aborted"}
  /\ \A i \in todo : closedBy[i] = "nobody"

Excused(i) == turn[i] = "raised" \/ sid[i] \in hasty

\* Until the teardown is over a client is in its slot or about to be stopped ...
Owned ==
  teardown # "done" => \A i \in Inst : Up(i) =>
    table[sid[i]] = i \/ closer[i] = "turn" \/ Excused(i)

\* ... and from its list of sessions on, it is on the list or the teardown is at it.
Listed ==
  teardown \in {"sessions", "done"} => \A i \in Inst : Up(i) =>
    i \in todo \/ (closer[i] = "turn" /\ closedBy[i] = "teardown") \/ Excused(i)

DaemonInv ==
  /\ TypeOK
  /\ Slots /\ Unused /\ Openings /\ Closers
  /\ ReaperCloses /\ TeardownStage
  /\ Owned /\ Listed
  /\ ClosedIsLastWord

-----------------------------------------------------------------------------

\* A connection that has just come up.
LEMMA DaemonInvInit == Init => DaemonInv
  BY NoneIsNoInstance DEF Init, DaemonInv, TypeOK, Client, Turn, Closer, ClosedBy,
    Teardown, Slots, Unused, Openings, Closers, ReaperCloses, TeardownStage, Owned,
    Listed, ClosedIsLastWord, Closing, Up, InFlight

\* Every step keeps it; under each action are the conjuncts it can disturb, and as
\* one step those whose variables it leaves alone.
LEMMA DaemonInvKept == DaemonInv /\ [Next]_vars => DaemonInv'
<1> SUFFICES ASSUME DaemonInv, [Next]_vars PROVE DaemonInv'
  OBVIOUS
<1> USE NoneIsNoInstance, AskedAreInst
<1> USE DEF DaemonInv, slotVars, closeVars, reaperVars, downVars, saidVars
<1>1. ASSUME NEW i \in Inst, NEW s \in Sid, Open(i, s) PROVE DaemonInv'
  <2>1. TypeOK'
    BY <1>1 DEF TypeOK, Client, Open
  <2>2. Slots'
    BY <1>1 DEF TypeOK, Slots, Unused, Open
  <2>3. Unused'
    BY <1>1 DEF TypeOK, Unused, Open
  <2>4. Openings'
    BY <1>1 DEF TypeOK, Openings, Open
  <2>5. TeardownStage'
    BY <1>1 DEF TeardownStage, Open
  <2>6. Owned'
    BY <1>1 DEF TypeOK, Owned, Excused, Up, Open
  <2>7. Listed'
    BY <1>1 DEF TeardownStage, Listed, Open
  <2>8. ClosedIsLastWord'
    BY <1>1 DEF TypeOK, ClosedIsLastWord, Open
  <2>9. Closers' /\ ReaperCloses'
    BY <1>1 DEF Closers, ReaperCloses, Open, InFlight, Closing
  <2>10. QED
    BY <2>1, <2>2, <2>3, <2>4, <2>5, <2>6, <2>7, <2>8, <2>9
<1>2. ASSUME NEW i \in Inst, OpenConnects(i) PROVE DaemonInv'
  <2>1. TypeOK'
    BY <1>2 DEF TypeOK, Word, Client, OpenConnects, Say
  <2>2. Unused'
    BY <1>2 DEF Unused, OpenConnects
  <2>3. Openings'
    BY <1>2 DEF TypeOK, Openings, OpenConnects
  <2>4. TeardownStage'
    BY <1>2 DEF TeardownStage, OpenConnects
  <2>5. Owned'
    BY <1>2 DEF Openings, Owned, Excused, Up, OpenConnects
  <2>6. Listed'
    BY <1>2 DEF TeardownStage, Listed, OpenConnects
  <2>7. ClosedIsLastWord'
    BY <1>2 DEF TypeOK, Word, Slots, Unused, Openings, Closers, ClosedIsLastWord,
      OpenConnects, Say
  <2>8. Slots' /\ Closers' /\ ReaperCloses'
    BY <1>2 DEF Slots, Closers, ReaperCloses, OpenConnects, InFlight, Closing
  <2>9. QED
    BY <2>1, <2>2, <2>3, <2>4, <2>5, <2>6, <2>7, <2>8
<1>3. ASSUME NEW i \in Inst, OpenFails(i) PROVE DaemonInv'
  <2>1. TypeOK'
    <3>1. late' \subseteq Inst \X Word
      BY <1>3 DEF TypeOK, Word, OpenFails, Say
    <3>2. QED
      BY <1>3, <3>1 DEF TypeOK, Client, OpenFails
  <2>2. Slots'
    BY <1>3 DEF Slots, OpenFails
  <2>3. Unused'
    BY <1>3 DEF Unused, OpenFails
  <2>4. Openings'
    BY <1>3 DEF TypeOK, Openings, OpenFails
  <2>5. TeardownStage'
    BY <1>3 DEF TeardownStage, OpenFails
  <2>6. Owned'
    BY <1>3 DEF TypeOK, Openings, Owned, Excused, Up, OpenFails
  <2>7. Listed'
    BY <1>3 DEF Listed, Excused, Up, OpenFails
  <2>8. ClosedIsLastWord'
    BY <1>3, <2>1 DEF TypeOK, Word, Slots, Openings, Closers, ClosedIsLastWord,
      OpenFails, Say
  <2>9. Closers' /\ ReaperCloses'
    BY <1>3 DEF Closers, ReaperCloses, OpenFails, InFlight, Closing
  <2>10. QED
    BY <2>1, <2>2, <2>3, <2>4, <2>5, <2>6, <2>7, <2>8, <2>9
<1>4. ASSUME NEW i \in Inst, OpenReplies(i) PROVE DaemonInv'
  <2>1. TypeOK'
    BY <1>4 DEF TypeOK, Word, OpenReplies, Say
  <2>2. Unused'
    BY <1>4 DEF Unused, OpenReplies
  <2>3. Openings'
    BY <1>4 DEF Openings, OpenReplies
  <2>4. TeardownStage'
    BY <1>4 DEF TeardownStage, OpenReplies
  <2>5. ClosedIsLastWord'
    BY <1>4 DEF TypeOK, Word, Slots, Unused, Openings, Closers, ClosedIsLastWord,
      OpenReplies, Say
  <2>6. Slots' /\ Closers' /\ ReaperCloses' /\ Owned' /\ Listed'
    BY <1>4 DEF Slots, Closers, ReaperCloses, Owned, Listed, OpenReplies,
      Excused, Up, InFlight, Closing
  <2>7. QED
    BY <2>1, <2>2, <2>3, <2>4, <2>5, <2>6
<1>5. ASSUME NEW i \in Inst, Send(i) PROVE DaemonInv'
  <2>1. TypeOK'
    BY <1>5 DEF TypeOK, Turn, Send
  <2>2. Unused'
    BY <1>5 DEF Unused, Send
  <2>3. Closers'
    BY <1>5 DEF TypeOK, Slots, Closers, TeardownStage, InFlight, Send
  <2>4. TeardownStage'
    BY <1>5 DEF TeardownStage, Send
  <2>5. Owned'
    BY <1>5 DEF Owned, Excused, Up, Send
  <2>6. Listed'
    BY <1>5 DEF TeardownStage, Listed, Send
  <2>7. Slots' /\ Openings' /\ ReaperCloses' /\ ClosedIsLastWord'
    BY <1>5 DEF Slots, Openings, ReaperCloses, ClosedIsLastWord, Send, Closing
  <2>8. QED
    BY <2>1, <2>2, <2>3, <2>4, <2>5, <2>6, <2>7
<1>6. ASSUME NEW i \in Inst, TurnStreams(i) PROVE DaemonInv'
  <2>1. TypeOK'
    BY <1>6 DEF TypeOK, Word, TurnStreams, Say
  <2>2. ClosedIsLastWord'
    BY <1>6 DEF Closers, ClosedIsLastWord, InFlight, TurnStreams, Say
  <2>3. Slots' /\ Unused' /\ Openings' /\ Closers' /\ ReaperCloses' /\
        TeardownStage' /\ Owned' /\ Listed'
    BY <1>6 DEF Slots, Unused, Openings, Closers, ReaperCloses, TeardownStage,
      Owned, Listed, TurnStreams, Excused, Up, InFlight, Closing
  <2>4. QED
    BY <2>1, <2>2, <2>3
<1>7. ASSUME NEW i \in Inst, TurnEnds(i) PROVE DaemonInv'
  <2>1. TypeOK'
    BY <1>7 DEF TypeOK, Word, Turn, TurnEnds, Say
  <2>2. Unused'
    BY <1>7 DEF Unused, InFlight, TurnEnds
  <2>3. Closers'
    BY <1>7 DEF Closers, InFlight, TurnEnds
  <2>4. TeardownStage'
    BY <1>7 DEF TeardownStage, Closing, TurnEnds
  <2>5. Owned'
    BY <1>7 DEF Owned, Excused, Up, InFlight, TurnEnds
  <2>6. Listed'
    BY <1>7 DEF Listed, Excused, Up, InFlight, TurnEnds
  <2>7. ClosedIsLastWord'
    BY <1>7 DEF Closers, ClosedIsLastWord, TurnEnds, Say
  <2>8. Slots' /\ Openings' /\ ReaperCloses'
    BY <1>7 DEF Slots, Openings, ReaperCloses, TurnEnds, Closing
  <2>9. QED
    BY <2>1, <2>2, <2>3, <2>4, <2>5, <2>6, <2>7, <2>8
<1>8. ASSUME NEW i \in Inst, FallsIdle(i) PROVE DaemonInv'
  <2>1. TypeOK'
    BY <1>8 DEF TypeOK, FallsIdle
  <2>2. Slots' /\ Unused' /\ Openings' /\ Closers' /\ ReaperCloses' /\
        TeardownStage' /\ Owned' /\ Listed' /\ ClosedIsLastWord'
    BY <1>8 DEF Slots, Unused, Openings, Closers, ReaperCloses, TeardownStage,
      Owned, Listed, ClosedIsLastWord, FallsIdle, Excused, Up, InFlight, Closing
  <2>3. QED
    BY <2>1, <2>2
<1>24. ASSUME NEW i \in Inst, Ask(i) PROVE DaemonInv'
  <2>1. TypeOK'
    BY <1>24 DEF TypeOK, Ask
  <2>2. Slots' /\ Unused' /\ Openings' /\ Closers' /\ ReaperCloses' /\
        TeardownStage' /\ Owned' /\ Listed' /\ ClosedIsLastWord'
    BY <1>24 DEF Slots, Unused, Openings, Closers, ReaperCloses, TeardownStage,
      Owned, Listed, ClosedIsLastWord, Ask, Excused, Up, InFlight, Closing
  <2>3. QED
    BY <2>1, <2>2
<1>25. ASSUME NEW i \in Inst, AskDone(i) PROVE DaemonInv'
  <2>1. TypeOK'
    BY <1>25 DEF TypeOK, AskDone
  <2>2. Slots' /\ Unused' /\ Openings' /\ Closers' /\ ReaperCloses' /\
        TeardownStage' /\ Owned' /\ Listed' /\ ClosedIsLastWord'
    BY <1>25 DEF Slots, Unused, Openings, Closers, ReaperCloses, TeardownStage,
      Owned, Listed, ClosedIsLastWord, AskDone, Excused, Up, InFlight, Closing
  <2>3. QED
    BY <2>1, <2>2
<1>26. ASSUME NEW i \in Inst, AskFails(i) PROVE DaemonInv'
  <2>1. TypeOK'
    BY <1>26 DEF TypeOK, Word, AskFails, Say
  <2>2. ClosedIsLastWord'
    BY <1>26 DEF ClosedIsLastWord, AskFails, Say
  <2>3. Slots' /\ Unused' /\ Openings' /\ Closers' /\ ReaperCloses' /\
        TeardownStage' /\ Owned' /\ Listed'
    BY <1>26 DEF Slots, Unused, Openings, Closers, ReaperCloses, TeardownStage,
      Owned, Listed, AskFails, Excused, Up, InFlight, Closing
  <2>4. QED
    BY <2>1, <2>2, <2>3
<1>9. ASSUME NEW i \in Inst, Close(i) PROVE DaemonInv'
  <2>1. TypeOK'
    BY <1>9 DEF TypeOK, Closer, ClosedBy, Turn, Client, Close, PopAndClose,
      StartClosing, Stop
  <2>2. Slots'
    BY <1>9 DEF TypeOK, Slots, Close, PopAndClose, StartClosing
  <2>3. Unused'
    BY <1>9 DEF TypeOK, Unused, Close, PopAndClose, StartClosing, Stop
  <2>4. Openings'
    BY <1>9 DEF TypeOK, Openings, Close, PopAndClose, StartClosing, Stop
  <2>5. Closers'
    BY <1>9 DEF TypeOK, Slots, Closers, InFlight, Close, PopAndClose, StartClosing
  <2>6. ReaperCloses'
    BY <1>9 DEF TypeOK, ReaperCloses, Closing, Close, PopAndClose, StartClosing
  <2>7. TeardownStage'
    BY <1>9 DEF TypeOK, TeardownStage, Close, PopAndClose, StartClosing
  <2>8. Owned'
    BY <1>9 DEF TypeOK, Openings, Owned, Excused, Up, Close, PopAndClose,
      StartClosing, Stop
  <2>9. Listed'
    BY <1>9 DEF TeardownStage, Listed, Close
  <2>10. ClosedIsLastWord'
    BY <1>9 DEF ClosedIsLastWord, Close, PopAndClose
  <2>11. QED
    BY <2>1, <2>2, <2>3, <2>4, <2>5, <2>6, <2>7, <2>8, <2>9, <2>10
<1>10. ASSUME NEW i \in Inst, AwaitTurn(i) PROVE DaemonInv'
  <2>1. TypeOK'
    BY <1>10 DEF TypeOK, Closer, Client, Teardown, AwaitTurn, Abandon, Stop
  <2>2. Unused'
    BY <1>10 DEF TypeOK, Unused, AwaitTurn, Abandon, Stop
  <2>3. Openings'
    BY <1>10 DEF TypeOK, Openings, AwaitTurn, Abandon, Stop
  <2>4. Closers'
    BY <1>10 DEF TypeOK, Closers, InFlight, AwaitTurn, Abandon
  <2>5. ReaperCloses'
    BY <1>10 DEF TypeOK, ReaperCloses, Closing, AwaitTurn, Abandon
  <2>6. TeardownStage'
    BY <1>10 DEF TypeOK, TeardownStage, Closing, AwaitTurn, Abandon
  <2>7. Owned'
    BY <1>10 DEF TypeOK, Openings, TeardownStage, Owned, Excused, Up, Closing,
      AwaitTurn, Abandon, Stop
  <2>8. Listed'
    BY <1>10 DEF TypeOK, Openings, TeardownStage, Listed, Excused, Up, AwaitTurn,
      Abandon, Stop
  <2>9. Slots' /\ ClosedIsLastWord'
    BY <1>10 DEF Slots, ClosedIsLastWord, AwaitTurn
  <2>10. QED
    BY <2>1, <2>2, <2>3, <2>4, <2>5, <2>6, <2>7, <2>8, <2>9
<1>11. ASSUME NEW i \in Inst, StopReturns(i) PROVE DaemonInv'
  <2>1. TypeOK'
    BY <1>11 DEF TypeOK, Client, Closer, StopReturns
  <2>2. Unused'
    BY <1>11 DEF Unused, StopReturns
  <2>3. Openings'
    BY <1>11 DEF Openings, StopReturns
  <2>4. Closers'
    BY <1>11 DEF Closers, InFlight, StopReturns
  <2>5. ReaperCloses'
    BY <1>11 DEF ReaperCloses, Closing, StopReturns
  <2>6. TeardownStage'
    BY <1>11 DEF TeardownStage, Closing, StopReturns
  <2>7. Owned'
    BY <1>11 DEF Owned, Excused, Up, StopReturns
  <2>8. Listed'
    BY <1>11 DEF Listed, Excused, Up, StopReturns
  <2>9. Slots' /\ ClosedIsLastWord'
    BY <1>11 DEF Slots, ClosedIsLastWord, StopReturns
  <2>10. QED
    BY <2>1, <2>2, <2>3, <2>4, <2>5, <2>6, <2>7, <2>8, <2>9
<1>12. ASSUME NEW i \in Inst, SayClosed(i) PROVE DaemonInv'
  <2>1. TypeOK'
    BY <1>12 DEF TypeOK, Closer, SayClosed
  <2>2. Unused'
    BY <1>12 DEF Unused, SayClosed
  <2>3. Closers'
    BY <1>12 DEF TypeOK, ClosedBy, Closers, TeardownStage, InFlight, SayClosed
  <2>4. ReaperCloses'
    BY <1>12 DEF ReaperCloses, Closing, SayClosed
  <2>5. TeardownStage'
    BY <1>12 DEF TeardownStage, Closing, SayClosed
  <2>6. Owned'
    BY <1>12 DEF Owned, Excused, Up, SayClosed
  <2>7. Listed'
    BY <1>12 DEF Listed, Excused, Up, SayClosed
  <2>8. Slots' /\ Openings' /\ ClosedIsLastWord'
    BY <1>12 DEF Slots, Openings, ClosedIsLastWord, SayClosed
  <2>9. QED
    BY <2>1, <2>2, <2>3, <2>4, <2>5, <2>6, <2>7, <2>8
<1>13. CASE ReaperSleeps
  <2>1. TypeOK'
    BY <1>13 DEF TypeOK, ReaperSleeps
  <2>2. ReaperCloses'
    BY <1>13 DEF ReaperCloses, Closing, ReaperSleeps
  <2>3. TeardownStage'
    BY <1>13 DEF TeardownStage, ReaperSleeps
  <2>4. Slots' /\ Unused' /\ Openings' /\ Closers' /\ Owned' /\ Listed' /\
        ClosedIsLastWord'
    BY <1>13 DEF Slots, Unused, Openings, Closers, Owned, Listed,
      ClosedIsLastWord, ReaperSleeps, Excused, Up, InFlight
  <2>5. QED
    BY <2>1, <2>2, <2>3, <2>4
<1>14. ASSUME NEW s \in Sid, ReaperScans(s) PROVE DaemonInv'
  <2>1. TypeOK'
    BY <1>14 DEF TypeOK, Closer, ClosedBy, Turn, Client, ReaperScans, ReapSlot,
      PopAndClose, StartClosing, Stop, Slots
  <2>2. Slots'
    BY <1>14 DEF TypeOK, Slots, ReaperScans, ReapSlot, PopAndClose, StartClosing
  <2>3. Unused'
    BY <1>14 DEF TypeOK, Slots, Unused, ReaperScans, ReapSlot, PopAndClose,
      StartClosing, Stop
  <2>4. Openings'
    BY <1>14 DEF TypeOK, Slots, Unused, Openings, ReaperScans, ReapSlot,
      PopAndClose, StartClosing, Stop
  <2>5. Closers'
    BY <1>14 DEF TypeOK, Slots, Closers, InFlight, ReaperScans, ReapSlot,
      PopAndClose, StartClosing
  <2>6. ReaperCloses'
    BY <1>14 DEF TypeOK, ReaperCloses, Closing, ReaperScans, ReapSlot,
      PopAndClose, StartClosing
  <2>7. TeardownStage'
    BY <1>14 DEF TypeOK, TeardownStage, ReaperScans, ReapSlot, PopAndClose,
      StartClosing
  <2>8. Owned'
    BY <1>14 DEF TypeOK, Slots, Unused, Openings, Owned, Excused, Up,
      ReaperScans, ReapSlot, PopAndClose, StartClosing, Stop
  <2>9. Listed'
    BY <1>14 DEF TeardownStage, Listed, ReaperScans
  <2>10. ClosedIsLastWord'
    BY <1>14 DEF ClosedIsLastWord, ReaperScans, ReapSlot, PopAndClose
  <2>11. QED
    BY <2>1, <2>2, <2>3, <2>4, <2>5, <2>6, <2>7, <2>8, <2>9, <2>10
<1>15. ASSUME NEW s \in Sid, ReaperGoesOn(s) PROVE DaemonInv'
  <2>1. TypeOK'
    BY <1>15 DEF TypeOK, Closer, ClosedBy, Turn, Client, ReaperGoesOn, ReapSlot,
      PopAndClose, StartClosing, Stop, Slots
  <2>2. Slots'
    BY <1>15 DEF TypeOK, Slots, ReaperGoesOn, ReapSlot, PopAndClose, StartClosing
  <2>3. Unused'
    BY <1>15 DEF TypeOK, Slots, Unused, ReaperGoesOn, ReapSlot, PopAndClose,
      StartClosing, Stop
  <2>4. Openings'
    BY <1>15 DEF TypeOK, Slots, Unused, Openings, ReaperGoesOn, ReapSlot,
      PopAndClose, StartClosing, Stop
  <2>5. Closers'
    BY <1>15 DEF TypeOK, Slots, Closers, InFlight, ReaperGoesOn, ReapSlot,
      PopAndClose, StartClosing
  <2>6. ReaperCloses'
    BY <1>15 DEF TypeOK, ReaperCloses, Closing, ReaperGoesOn, ReapSlot,
      PopAndClose, StartClosing
  <2>7. TeardownStage'
    BY <1>15 DEF TypeOK, TeardownStage, ReaperGoesOn, ReapSlot, PopAndClose,
      StartClosing
  <2>8. Owned'
    BY <1>15 DEF TypeOK, Slots, Unused, Openings, Owned, Excused, Up,
      ReaperGoesOn, ReapSlot, PopAndClose, StartClosing, Stop
  <2>9. Listed'
    BY <1>15 DEF TeardownStage, Listed, ReaperGoesOn
  <2>10. ClosedIsLastWord'
    BY <1>15 DEF ClosedIsLastWord, ReaperGoesOn, ReapSlot, PopAndClose
  <2>11. QED
    BY <2>1, <2>2, <2>3, <2>4, <2>5, <2>6, <2>7, <2>8, <2>9, <2>10
<1>16. CASE Drop
  <2>1. TypeOK'
    BY <1>16 DEF TypeOK, Drop
  <2>2. TeardownStage'
    BY <1>16 DEF TeardownStage, Drop
  <2>3. Slots' /\ Unused' /\ Openings' /\ Closers' /\ ReaperCloses' /\ Owned' /\
        Listed' /\ ClosedIsLastWord'
    BY <1>16 DEF Slots, Unused, Openings, Closers, ReaperCloses, Owned, Listed,
      ClosedIsLastWord, Drop, Excused, Up, InFlight, Closing
  <2>4. QED
    BY <2>1, <2>2, <2>3
<1>17. CASE TeardownBegins
  <2>1. TypeOK'
    BY <1>17 DEF TypeOK, Teardown, Closer, Client, TeardownBegins, CancelClosers
  <2>2. Unused'
    BY <1>17 DEF Unused, TeardownBegins, CancelClosers
  <2>3. Openings'
    BY <1>17 DEF Openings, TeardownBegins, CancelClosers
  <2>4. Closers'
    BY <1>17 DEF Closers, InFlight, TeardownBegins, CancelClosers
  <2>5. ReaperCloses'
    BY <1>17 DEF ReaperCloses, Closing, TeardownBegins, CancelClosers
  <2>6. TeardownStage'
    BY <1>17 DEF TeardownStage, TeardownBegins
  <2>7. Owned'
    BY <1>17 DEF Owned, Excused, Up, TeardownBegins, CancelClosers
  <2>8. Listed'
    BY <1>17 DEF Listed, TeardownBegins
  <2>9. Slots' /\ ClosedIsLastWord'
    BY <1>17 DEF Slots, ClosedIsLastWord, TeardownBegins
  <2>10. QED
    BY <2>1, <2>2, <2>3, <2>4, <2>5, <2>6, <2>7, <2>8, <2>9
<1>18. CASE CancelDispatch
  <2>1. TypeOK'
    BY <1>18 DEF TypeOK, Teardown, Closer, Client, CancelDispatch, CancelClosers
  <2>2. Unused'
    BY <1>18 DEF Unused, CancelDispatch, CancelClosers
  <2>3. Openings'
    BY <1>18 DEF Openings, CancelDispatch, CancelClosers
  <2>4. Closers'
    BY <1>18 DEF Closers, InFlight, CancelDispatch, CancelClosers
  <2>5. ReaperCloses'
    BY <1>18 DEF ReaperCloses, Closing, CancelDispatch, CancelClosers
  <2>6. TeardownStage'
    BY <1>18 DEF TeardownStage, CancelDispatch
  <2>7. Owned'
    BY <1>18 DEF Openings, Owned, Excused, Up, CancelDispatch, CancelClosers
  <2>8. Listed'
    BY <1>18 DEF Listed, CancelDispatch
  <2>9. Slots' /\ ClosedIsLastWord'
    BY <1>18 DEF Slots, ClosedIsLastWord, CancelDispatch
  <2>10. QED
    BY <2>1, <2>2, <2>3, <2>4, <2>5, <2>6, <2>7, <2>8, <2>9
<1>19. CASE DrainTimesOut
  <2>1. TypeOK'
    BY <1>19 DEF TypeOK, Closer, Client, DrainTimesOut, CancelClosers
  <2>2. Unused'
    BY <1>19 DEF Unused, DrainTimesOut, CancelClosers
  <2>3. Openings'
    BY <1>19 DEF Openings, DrainTimesOut, CancelClosers
  <2>4. Closers'
    BY <1>19 DEF Closers, InFlight, DrainTimesOut, CancelClosers
  <2>5. ReaperCloses'
    BY <1>19 DEF ReaperCloses, Closing, DrainTimesOut, CancelClosers
  <2>6. TeardownStage'
    BY <1>19 DEF TeardownStage, DrainTimesOut
  <2>7. Owned'
    BY <1>19 DEF Openings, Owned, Excused, Up, DrainTimesOut, CancelClosers
  <2>8. Listed'
    BY <1>19 DEF Listed, DrainTimesOut
  <2>9. Slots' /\ ClosedIsLastWord'
    BY <1>19 DEF Slots, ClosedIsLastWord, DrainTimesOut
  <2>10. QED
    BY <2>1, <2>2, <2>3, <2>4, <2>5, <2>6, <2>7, <2>8, <2>9
<1>20. CASE ListSessions
  <2>1. TypeOK'
    BY <1>20 DEF TypeOK, Teardown, ListSessions
  <2>2. Unused'
    BY <1>20 DEF Slots, Unused, ListSessions
  <2>3. TeardownStage'
    BY <1>20 DEF Slots, TeardownStage, Closing, ListSessions
  <2>4. Owned'
    BY <1>20 DEF Owned, Excused, Up, ListSessions
  <2>5. Listed'
    BY <1>20 DEF TypeOK, ClosedBy, Unused, Closers, ReaperCloses, TeardownStage,
      Owned, Listed, Excused, Up, Closing, ListSessions
  <2>6. Slots' /\ Openings' /\ Closers' /\ ReaperCloses' /\ ClosedIsLastWord'
    BY <1>20 DEF Slots, Openings, Closers, ReaperCloses, ClosedIsLastWord,
      ListSessions, InFlight, Closing
  <2>7. QED
    BY <2>1, <2>2, <2>3, <2>4, <2>5, <2>6
<1>21. CASE TeardownEnds
  <2>1. TypeOK'
    BY <1>21 DEF TypeOK, Teardown, TeardownEnds
  <2>2. Slots'
    BY <1>21 DEF Slots, TeardownEnds
  <2>3. Openings'
    BY <1>21 DEF Openings, TeardownStage, TeardownEnds
  <2>4. TeardownStage'
    BY <1>21 DEF TeardownStage, Closing, TeardownEnds
  <2>5. Owned'
    BY <1>21 DEF Owned, TeardownEnds
  <2>6. Listed'
    BY <1>21 DEF Listed, Excused, Up, TeardownEnds
  <2>7. Unused' /\ Closers' /\ ReaperCloses' /\ ClosedIsLastWord'
    BY <1>21 DEF Unused, Closers, ReaperCloses, ClosedIsLastWord, TeardownEnds,
      InFlight, Closing
  <2>8. QED
    BY <2>1, <2>2, <2>3, <2>4, <2>5, <2>6, <2>7
<1>22. ASSUME NEW i \in Inst, TeardownSession(i) PROVE DaemonInv'
  <2>1. TypeOK'
    BY <1>22 DEF TypeOK, Closer, ClosedBy, Turn, Client, TeardownSession,
      StartClosing, Stop
  <2>2. Slots'
    BY <1>22 DEF Slots, TeardownSession, StartClosing
  <2>3. Unused'
    BY <1>22 DEF TypeOK, Unused, TeardownSession, StartClosing, Stop
  <2>4. Openings'
    BY <1>22 DEF TypeOK, Openings, TeardownSession, StartClosing, Stop
  <2>5. Closers'
    BY <1>22 DEF TypeOK, Closers, TeardownStage, InFlight, TeardownSession,
      StartClosing
  <2>6. ReaperCloses'
    BY <1>22 DEF TypeOK, ReaperCloses, Closing, TeardownSession, StartClosing
  <2>7. TeardownStage'
    BY <1>22 DEF TypeOK, TeardownStage, Closing, TeardownSession, StartClosing
  <2>8. Owned'
    BY <1>22 DEF TypeOK, Openings, Owned, Excused, Up, TeardownSession,
      StartClosing, Stop
  <2>9. Listed'
    BY <1>22 DEF TypeOK, Openings, TeardownStage, Listed, Excused, Up,
      TeardownSession, StartClosing, Stop
  <2>10. ClosedIsLastWord'
    BY <1>22 DEF ClosedIsLastWord, TeardownSession
  <2>11. QED
    BY <2>1, <2>2, <2>3, <2>4, <2>5, <2>6, <2>7, <2>8, <2>9, <2>10
<1>23. CASE UNCHANGED vars
  BY <1>23 DEF vars, TypeOK, Slots, Unused, Openings, Closers, ReaperCloses,
    TeardownStage, Owned, Listed, ClosedIsLastWord, Excused, Up, InFlight,
    Closing
<1>27. QED
  BY <1>1, <1>2, <1>3, <1>4, <1>5, <1>6, <1>7, <1>8, <1>9, <1>10, <1>11, <1>12,
    <1>13, <1>14, <1>15, <1>16, <1>17, <1>18, <1>19, <1>20, <1>21, <1>22,
    <1>23, <1>24, <1>25, <1>26 DEF Next, Envelope, Task, Reaper, TearingDown

\* The invariant behind the daemon: which task may be at which session, and how far
\* the teardown has got.
THEOREM DaemonSafety == Spec => []DaemonInv
<1>1. QED
  BY DaemonInvInit, DaemonInvKept, PTL DEF Spec

\* Every variable of a connection stays in its type, whatever interleaves.
THEOREM DaemonTypes == Spec => []TypeOK
<1>1. DaemonInv => TypeOK
  BY DEF DaemonInv
<1>2. QED
  BY <1>1, DaemonSafety, PTL

\* While the link is up no SDK client is orphaned, whichever of open, close, reaper
\* and turns meet at it.
THEOREM ClientsAreOwnedAlways == Spec => []ClientsAreOwned
<1>1. DaemonInv => ClientsAreOwned
  BY DEF DaemonInv, TeardownStage, Owned, Excused, ClientsAreOwned
<1>2. QED
  BY <1>1, DaemonSafety, PTL

\* No stream, TURN_END or OPENED of a session follows its CLOSED, for every close
\* that is not hasty.
THEOREM ClosedIsLastWordAlways == Spec => []ClosedIsLastWord
<1>1. DaemonInv => ClosedIsLastWord
  BY DEF DaemonInv
<1>2. QED
  BY <1>1, DaemonSafety, PTL

\* A teardown that runs to its end leaves no client up, whichever handlers and
\* reaper it interrupted.
THEOREM TeardownLeavesNothingAlways == Spec => []TeardownLeavesNothing
<1>1. DaemonInv => TeardownLeavesNothing
  <2> SUFFICES ASSUME DaemonInv, teardown = "done", NEW i \in Inst, Up(i)
               PROVE  Excused(i)
    BY DEF TeardownLeavesNothing, Excused
  <2>1. todo = {} /\ Closing("teardown") = {}
    BY DEF DaemonInv, TeardownStage
  <2>2. QED
    BY <2>1 DEF DaemonInv, Listed, Closing
<1>2. QED
  BY <1>1, DaemonSafety, PTL

=============================================================================
