---------------------------- MODULE Turns_proofs ----------------------------
(***************************************************************************)
(* Proofs about Turns for every set of messages and all bounds.            *)
(***************************************************************************)
EXTENDS Turns, TLAPS

\* A message whose handler has the lock.
Busy(m) == task[m] \in {"streaming", "ending", "deleting", "posting"}

\* One handler at a time is past the lock: the one at its head.
OneAtATime == \A m \in Msg : Busy(m) => lock # <<>> /\ Head(lock) = m

\* From the deletion of its message on, the heartbeat task is over; and when the
\* answer is posted, no heartbeat message is known that was not deleted.
BeatIsOver ==
  \A m \in Msg :
    /\ task[m] \in {"deleting", "posting"} => heartbeat = "over"
    /\ task[m] = "posting" => ~known

\* A heartbeat message in the topic is known, short of a mishap.
BeatIsKnown == (working /\ ~mishap) => known

BeatInv == BeatIsOver /\ BeatIsKnown

\* The envelopes in a channel or queue.
In(s) == {s[i] : i \in DOMAIN s}

\* What ends a turn for certain; an error of no turn may be the re-open's.
Final == {e \in Event : e.type \in Ends /\ ~(e.type = "error" /\ e.of = None)}

\* HasEnd, by what is certain to end the turn of m.
HasFinal(m) ==
  \/ \E e \in In(queue.items) : e.type \in Ends
  \/ \E e \in In(down) : e \in Final
  \/ Envelope("send", m) \in In(up)
  \/ drive = m /\ Driving

\* A message that waits for events has a queue, and an end to come.
WaitsForFinal ==
  \A m \in Msg : task[m] = "streaming" =>
    queue.on /\ (tracked /\ ~swallowed => HasFinal(m))

TurnsInv ==
  /\ TypeOK
  /\ OneAtATime
  /\ BeatInv
  /\ WaitsForFinal

-----------------------------------------------------------------------------
(* Types.                                                                  *)

Flags ==
  /\ tracked \in BOOLEAN /\ opened \in BOOLEAN /\ closed \in BOOLEAN
  /\ closing \in BOOLEAN /\ named \in BOOLEAN /\ errored \in BOOLEAN /\ known \in BOOLEAN
  /\ working \in BOOLEAN /\ mishap \in BOOLEAN
  /\ clean \in BOOLEAN /\ swallowed \in BOOLEAN

Channels ==
  /\ queue \in [on : BOOLEAN, items : Seq(Event)]
  /\ up \in Seq(Request) /\ down \in Seq(Event)

Places ==
  /\ task \in [Msg -> {"new", "waiting", "streaming", "ending", "deleting", "posting",
                       "done"}]
  /\ lock \in Seq(Msg)
  /\ present \in {"no", "starting", "open"}
  /\ link \in {"up", "down", "dialled"}
  /\ drive \in Msg \cup {None} /\ stage \in {"idle", "streaming", "ended"}
  /\ emitted \in 0 .. MaxEvents /\ said \in 0 .. emitted
  /\ faults \in 0 .. MaxFaults
  /\ buffer \in Seq(Msg \cup {None})
  /\ heartbeat \in {"over", "delay", "sending", "on"}

\* TypeOK in three parts: Booleans, sequences of envelopes, and the rest.
LEMMA TypeParts == TypeOK <=> Flags /\ Channels /\ Places
  BY DEF TypeOK, Flags, Channels, Places

EventKind == {"text", "result", "end", "error", "opened", "closed", "dropped"}

\* What is put into the channels is typed.
LEMMA Enveloped ==
  /\ \A k \in EventKind, m \in Msg \cup {None} :
       Envelope(k, m) \in Event /\ <<Envelope(k, m)>> \in Seq(Event)
  /\ \A k, l \in EventKind, m, n \in Msg \cup {None} :
       <<Envelope(k, m), Envelope(l, n)>> \in Seq(Event)
  /\ \A k \in {"send", "open", "close"}, m \in Msg \cup {None} :
       Envelope(k, m) \in Request
<1>1. \A e \in Event : <<e>> \in Seq(Event)
  OBVIOUS
<1>2. \A e, f \in Event : <<e, f>> \in Seq(Event)
  OBVIOUS
<1>3. \A k \in EventKind, m \in Msg \cup {None} : Envelope(k, m) \in Event
  BY DEF EventKind, Event, Envelope
<1>4. \A k \in {"send", "open", "close"}, m \in Msg \cup {None} :
        Envelope(k, m) \in Request
  BY DEF Request, Envelope
<1>5. QED
  BY <1>1, <1>2, <1>3, <1>4

\* What is taken out of them is typed.
LEMMA TakenOut ==
  ASSUME NEW S, NEW s \in Seq(S), s # <<>>
  PROVE  Head(s) \in S /\ Tail(s) \in Seq(S)
  OBVIOUS

\* So is what is joined from typed parts ...
LEMMA Joined ==
  ASSUME NEW S, NEW s \in Seq(S), NEW t \in Seq(S)
  PROVE  s \o t \in Seq(S)
  OBVIOUS

\* ... or appended.
LEMMA Appended ==
  ASSUME NEW S, NEW s \in Seq(S), NEW x \in S
  PROVE  Append(s, x) \in Seq(S)
  OBVIOUS

\* Steps keep the flags Boolean.
LEMMA FlagsKept ==
  TypeOK /\ [Next]_vars => Flags'
<1> SUFFICES ASSUME TypeOK, [Next]_vars PROVE Flags'
  OBVIOUS
<1> USE DEF TypeOK, Flags, Connected, Driving, turnVars, stateVars, wireVars,
  runnerVars, beatVars, showVars, pastVars
<1>1. CASE UNCHANGED vars
  BY <1>1 DEF vars
<1>2. CASE HandleSend
  BY <1>2 DEF HandleSend, Handles, StartTurn, FailAtOnce, Reports
<1>3. CASE HandleOpen
  BY <1>3 DEF HandleOpen, Handles, Reports
<1>4. CASE StartReturns
  BY <1>4 DEF StartReturns, Reports
<1>5. CASE HandleClose
  BY <1>5 DEF HandleClose, Handles, Stops, Reports
<1>6. CASE Reap
  BY <1>6 DEF Reap, Stops, Reports
<1>7. CASE Refuse
  BY <1>7 DEF Refuse, Reports
<1>8. ASSUME NEW k \in {"text", "result"}, Emit(k) PROVE Flags'
  BY <1>8 DEF Emit, Reports
<1>9. CASE EndTurn
  BY <1>9 DEF EndTurn, Reports
<1>10. CASE TaskDone
  BY <1>10 DEF TaskDone
<1>11. CASE Deliver
  BY <1>11 DEF Deliver, Tells
<1>12. CASE Drop
  BY <1>12 DEF Drop, Cut, Tells
<1>13. CASE Dial
  BY <1>13 DEF Dial
<1>14. CASE Reopen
  BY <1>14 DEF Reopen, Tells
<1>15. CASE Close
  BY <1>15 DEF Close
<1>16. CASE CloseTimesOut
  BY <1>16 DEF CloseTimesOut
<1>17. ASSUME NEW m \in Msg, Arrive(m) PROVE Flags'
  BY <1>17 DEF Arrive, Goes
<1>18. ASSUME NEW m \in Msg, Begin(m) PROVE Flags'
  BY <1>18 DEF Begin, Goes, NewRenderer, Holds
<1>19. ASSUME NEW m \in Msg, BeginFails(m) PROVE Flags'
  BY <1>19 DEF BeginFails, Goes, NewRenderer, Holds
<1>20. ASSUME NEW m \in Msg, TakeText(m) PROVE Flags'
  BY <1>20 DEF TakeText, Takes, Rest, First
<1>21. ASSUME NEW m \in Msg, TakeResult(m) PROVE Flags'
  BY <1>21 DEF TakeResult, Takes, Rest, First
<1>22. ASSUME NEW m \in Msg, TakeEnd(m) PROVE Flags'
  BY <1>22 DEF TakeEnd, Takes, Goes, NoQueue, First
<1>23. ASSUME NEW m \in Msg, TakeError(m) PROVE Flags'
  BY <1>23 DEF TakeError, Takes, Goes, NoQueue, First
<1>24. ASSUME NEW m \in Msg, CancelBeat(m) PROVE Flags'
  BY <1>24 DEF CancelBeat, Goes
<1>25. ASSUME NEW m \in Msg, Deleted(m) PROVE Flags'
  BY <1>25 DEF Deleted, Goes
<1>26. ASSUME NEW m \in Msg, DeleteFails(m) PROVE Flags'
  BY <1>26 DEF DeleteFails, Leaves, Goes, NewRenderer
<1>27. ASSUME NEW m \in Msg, Posted(m) PROVE Flags'
  BY <1>27 DEF Posted, Leaves, Goes, NewRenderer
<1>28. CASE BeatSends
  BY <1>28 DEF BeatSends
<1>29. CASE BeatSent
  BY <1>29 DEF BeatSent
<1>30. QED
  BY <1>1, <1>2, <1>3, <1>4, <1>5, <1>6, <1>7, <1>8, <1>9, <1>10, <1>11, <1>12,
    <1>13, <1>14, <1>15, <1>16, <1>17, <1>18, <1>19, <1>20, <1>21, <1>22, <1>23,
    <1>24, <1>25, <1>26, <1>27, <1>28, <1>29 DEF Next, Take, Ending

\* The queue of a turn that is told an event.
LEMMA TellsTyped ==
  ASSUME Channels, NEW e \in Event, Tells(e)
  PROVE  queue' \in [on : BOOLEAN, items : Seq(Event)]
  BY Appended DEF Channels, Tells

\* What a session that stops reports.
LEMMA StopsTyped ==
  ASSUME TypeOK, Stops
  PROVE  down' \in Seq(Event)
<1> DEFINE cancelled == IF Driving THEN <<Envelope("end", drive)>> ELSE <<>>
<1>1. <<Envelope("closed", None)>> \in Seq(Event) /\ <<Envelope("end", drive)>> \in Seq(Event)
  BY Enveloped DEF EventKind, TypeOK
<1>2. cancelled \in Seq(Event)
  BY <1>1
<1>3. cancelled \o <<Envelope("closed", None)>> \in Seq(Event)
  BY <1>1, <1>2, Joined
<1> HIDE DEF cancelled
<1>4. down \o (cancelled \o <<Envelope("closed", None)>>) \in Seq(Event)
  BY <1>3, Joined DEF TypeOK
<1> QED
  BY <1>4 DEF Stops, Reports, cancelled

\* Steps keep the channels typed.
LEMMA ChannelsKept ==
  TypeOK /\ [Next]_vars => Channels'
<1> SUFFICES ASSUME TypeOK, [Next]_vars PROVE Channels'
  OBVIOUS
<1> USE DEF TypeOK, Channels, turnVars, stateVars, wireVars, runnerVars,
  beatVars, showVars, pastVars
<1>1. CASE UNCHANGED vars
  BY <1>1 DEF vars
<1>2. CASE HandleSend
  <2>1. queue' \in [on : BOOLEAN, items : Seq(Event)]
    BY <1>2 DEF HandleSend
  <2>2. up' \in Seq(Request)
    BY <1>2, TakenOut DEF HandleSend, Handles
  <2>3. down' \in Seq(Event)
    <3> DEFINE m == Head(up).of
    <3>1. Head(up) \in Request
      BY <1>2, TakenOut DEF HandleSend, Handles
    <3>2. m \in Msg \cup {None}
      BY <3>1 DEF Request
    <3>3. /\ <<Envelope("error", m)>> \in Seq(Event)
          /\ <<Envelope("error", m), Envelope("end", m)>> \in Seq(Event)
      BY <3>2, Enveloped DEF EventKind
    <3>4. \/ down' = down
          \/ down' = down \o <<Envelope("error", m)>>
          \/ down' = down \o <<Envelope("error", m), Envelope("end", m)>>
      BY <1>2 DEF HandleSend, StartTurn, FailAtOnce, Reports
    <3>5. /\ down \o <<Envelope("error", m)>> \in Seq(Event)
          /\ down \o <<Envelope("error", m), Envelope("end", m)>> \in Seq(Event)
      BY <3>3, Joined
    <3>6. QED
      BY <3>4, <3>5
  <2>4. QED
    BY <2>1, <2>2, <2>3
<1>3. CASE HandleOpen
  <2>1. queue' \in [on : BOOLEAN, items : Seq(Event)]
    BY <1>3 DEF HandleOpen
  <2>2. up' \in Seq(Request)
    BY <1>3, TakenOut DEF HandleOpen, Handles
  <2>3. down' \in Seq(Event)
    <3>1. <<Envelope("error", None)>> \in Seq(Event)
      BY Enveloped DEF EventKind
    <3>2. down \o <<Envelope("error", None)>> \in Seq(Event)
      BY <3>1, Joined
    <3>3. QED
      BY <1>3, <3>2 DEF HandleOpen, Reports
  <2>4. QED
    BY <2>1, <2>2, <2>3
<1>4. CASE StartReturns
  <2>1. queue' \in [on : BOOLEAN, items : Seq(Event)]
    BY <1>4 DEF StartReturns
  <2>2. up' \in Seq(Request)
    BY <1>4 DEF StartReturns
  <2>3. down' \in Seq(Event)
    <3>1. /\ <<Envelope("error", None)>> \in Seq(Event)
          /\ <<Envelope("opened", None)>> \in Seq(Event)
      BY Enveloped DEF EventKind
    <3>2. /\ down \o <<Envelope("error", None)>> \in Seq(Event)
          /\ down \o <<Envelope("opened", None)>> \in Seq(Event)
      BY <3>1, Joined
    <3>3. QED
      BY <1>4, <3>2 DEF StartReturns, Reports
  <2>4. QED
    BY <2>1, <2>2, <2>3
<1>5. CASE HandleClose
  <2>1. queue' \in [on : BOOLEAN, items : Seq(Event)]
    BY <1>5 DEF HandleClose
  <2>2. up' \in Seq(Request)
    BY <1>5, TakenOut DEF HandleClose, Handles
  <2>3. down' \in Seq(Event)
    BY <1>5, StopsTyped DEF HandleClose
  <2>4. QED
    BY <2>1, <2>2, <2>3
<1>6. CASE Reap
  <2>1. queue' \in [on : BOOLEAN, items : Seq(Event)]
    BY <1>6 DEF Reap
  <2>2. up' \in Seq(Request)
    BY <1>6 DEF Reap
  <2>3. down' \in Seq(Event)
    BY <1>6, StopsTyped DEF Reap
  <2>4. QED
    BY <2>1, <2>2, <2>3
<1>7. CASE Refuse
  <2>1. queue' \in [on : BOOLEAN, items : Seq(Event)]
    BY <1>7 DEF Refuse
  <2>2. up' \in Seq(Request)
    BY <1>7 DEF Refuse
  <2>3. down' \in Seq(Event)
    <3>1. <<Envelope("error", None)>> \in Seq(Event)
      BY Enveloped DEF EventKind
    <3>2. QED
      BY <1>7, <3>1, Joined DEF Refuse, Reports
  <2>4. QED
    BY <2>1, <2>2, <2>3
<1>8. ASSUME NEW k \in {"text", "result"}, Emit(k) PROVE Channels'
  <2>1. queue' \in [on : BOOLEAN, items : Seq(Event)]
    BY <1>8 DEF Emit
  <2>2. up' \in Seq(Request)
    BY <1>8 DEF Emit
  <2>3. down' \in Seq(Event)
    <3>1. <<Envelope(k, drive)>> \in Seq(Event)
      BY <1>8, Enveloped DEF EventKind
    <3>2. QED
      BY <1>8, <3>1, Joined DEF Emit, Reports
  <2>4. QED
    BY <2>1, <2>2, <2>3
<1>9. CASE EndTurn
  <2>1. queue' \in [on : BOOLEAN, items : Seq(Event)]
    BY <1>9 DEF EndTurn
  <2>2. up' \in Seq(Request)
    BY <1>9 DEF EndTurn
  <2>3. down' \in Seq(Event)
    <3>1. /\ <<Envelope("end", drive)>> \in Seq(Event)
          /\ <<Envelope("error", drive), Envelope("end", drive)>> \in Seq(Event)
      BY Enveloped DEF EventKind
    <3>2. /\ down \o <<Envelope("end", drive)>> \in Seq(Event)
          /\ down \o <<Envelope("error", drive), Envelope("end",
            drive)>> \in Seq(Event)
      BY <3>1, Joined
    <3>3. QED
      BY <1>9, <3>2 DEF EndTurn, Reports
  <2>4. QED
    BY <2>1, <2>2, <2>3
<1>10. CASE TaskDone
  BY <1>10 DEF TaskDone
<1>11. CASE Deliver
  <2>1. queue' \in [on : BOOLEAN, items : Seq(Event)]
    <3>1. Head(down) \in Event
      BY <1>11, TakenOut DEF Deliver
    <3>2. queue' = queue \/ Tells(Head(down))
      BY <1>11 DEF Deliver
    <3>3. QED
      BY <3>1, <3>2, TellsTyped
  <2>2. up' \in Seq(Request)
    BY <1>11 DEF Deliver
  <2>3. down' \in Seq(Event)
    BY <1>11, TakenOut DEF Deliver
  <2>4. QED
    BY <2>1, <2>2, <2>3
<1>12. CASE Drop
  <2>1. queue' \in [on : BOOLEAN, items : Seq(Event)]
    <3>1. Envelope("dropped", None) \in Event
      BY Enveloped DEF EventKind
    <3>2. queue' = queue \/ Tells(Envelope("dropped", None))
      BY <1>12 DEF Drop
    <3>3. QED
      BY <3>1, <3>2, TellsTyped
  <2>2. up' \in Seq(Request)
    BY <1>12 DEF Drop, Cut
  <2>3. down' \in Seq(Event)
    BY <1>12 DEF Drop, Cut
  <2>4. QED
    BY <2>1, <2>2, <2>3
<1>13. CASE Dial
  BY <1>13 DEF Dial
<1>14. CASE Reopen
  <2>1. queue' \in [on : BOOLEAN, items : Seq(Event)]
    <3>1. Envelope("closed", None) \in Event
      BY Enveloped DEF EventKind
    <3>2. queue' = queue \/ Tells(Envelope("closed", None))
      BY <1>14 DEF Reopen
    <3>3. QED
      BY <3>1, <3>2, TellsTyped
  <2>2. up' \in Seq(Request)
    <3>1. Envelope("open", None) \in Request
      BY Enveloped
    <3>2. Append(up, Envelope("open", None)) \in Seq(Request)
      BY <3>1, Appended
    <3>3. QED
      BY <1>14, <3>2 DEF Reopen
  <2>3. down' \in Seq(Event)
    BY <1>14 DEF Reopen
  <2>4. QED
    BY <2>1, <2>2, <2>3
<1>15. CASE Close
  <2>1. queue' \in [on : BOOLEAN, items : Seq(Event)]
    BY <1>15 DEF Close
  <2>2. up' \in Seq(Request)
    <3>1. Envelope("close", None) \in Request
      BY Enveloped
    <3>2. QED
      BY <1>15, <3>1, Appended DEF Close
  <2>3. down' \in Seq(Event)
    BY <1>15 DEF Close
  <2>4. QED
    BY <2>1, <2>2, <2>3
<1>16. CASE CloseTimesOut
  BY <1>16 DEF CloseTimesOut
<1>17. ASSUME NEW m \in Msg, Arrive(m) PROVE Channels'
  BY <1>17 DEF Arrive, Goes
<1>18. ASSUME NEW m \in Msg, Begin(m) PROVE Channels'
  <2>1. queue' \in [on : BOOLEAN, items : Seq(Event)]
    BY <1>18 DEF Begin
  <2>2. up' \in Seq(Request)
    <3>1. Envelope("send", m) \in Request
      BY Enveloped
    <3>2. QED
      BY <1>18, <3>1, Appended DEF Begin
  <2>3. down' \in Seq(Event)
    BY <1>18 DEF Begin
  <2>4. QED
    BY <2>1, <2>2, <2>3
<1>19. ASSUME NEW m \in Msg, BeginFails(m) PROVE Channels'
  BY <1>19 DEF BeginFails, Goes, NewRenderer, Holds
<1>20. ASSUME NEW m \in Msg, TakeText(m) PROVE Channels'
  <2>1. queue.items \in Seq(Event) /\ Tail(queue.items) \in Seq(Event)
    BY <1>20, TakenOut DEF TakeText, Takes
  <2>2. QED
    BY <1>20, <2>1 DEF TakeText, Rest
<1>21. ASSUME NEW m \in Msg, TakeResult(m) PROVE Channels'
  <2>1. queue.items \in Seq(Event) /\ Tail(queue.items) \in Seq(Event)
    BY <1>21, TakenOut DEF TakeResult, Takes
  <2>2. QED
    BY <1>21, <2>1 DEF TakeResult, Rest
<1>22. ASSUME NEW m \in Msg, TakeEnd(m) PROVE Channels'
  BY <1>22 DEF TakeEnd, Takes, Goes, NoQueue, First
<1>23. ASSUME NEW m \in Msg, TakeError(m) PROVE Channels'
  BY <1>23 DEF TakeError, Takes, Goes, NoQueue, First
<1>24. ASSUME NEW m \in Msg, CancelBeat(m) PROVE Channels'
  BY <1>24 DEF CancelBeat, Goes
<1>25. ASSUME NEW m \in Msg, Deleted(m) PROVE Channels'
  BY <1>25 DEF Deleted, Goes
<1>26. ASSUME NEW m \in Msg, DeleteFails(m) PROVE Channels'
  BY <1>26 DEF DeleteFails, Leaves, Goes, NewRenderer
<1>27. ASSUME NEW m \in Msg, Posted(m) PROVE Channels'
  BY <1>27 DEF Posted, Leaves, Goes, NewRenderer
<1>28. CASE BeatSends
  BY <1>28 DEF BeatSends
<1>29. CASE BeatSent
  BY <1>29 DEF BeatSent
<1>30. QED
  BY <1>1, <1>2, <1>3, <1>4, <1>5, <1>6, <1>7, <1>8, <1>9, <1>10, <1>11, <1>12,
    <1>13, <1>14, <1>15, <1>16, <1>17, <1>18, <1>19, <1>20, <1>21, <1>22, <1>23,
    <1>24, <1>25, <1>26, <1>27, <1>28, <1>29 DEF Next, Take, Ending

\* Steps keep everything else typed.
LEMMA PlacesKept ==
  TypeOK /\ OneAtATime /\ [Next]_vars => Places'
<1> SUFFICES ASSUME TypeOK, OneAtATime, [Next]_vars PROVE Places'
  OBVIOUS
<1> USE BoundsAreNaturals, NoneIsNoMessage
<1> USE DEF TypeOK, Places, Connected, Driving, turnVars, stateVars, wireVars,
  runnerVars, beatVars, showVars, pastVars
<1>1. CASE UNCHANGED vars
  BY <1>1 DEF vars
<1>2. CASE HandleSend
  <2>1. Head(up) \in Request
    BY <1>2, TakenOut DEF HandleSend, Handles
  <2>2. Head(up).of \in Msg \cup {None}
    BY <2>1 DEF Request
  <2>3. QED
    BY <1>2, <2>2 DEF HandleSend, StartTurn, FailAtOnce
<1>3. CASE HandleOpen
  BY <1>3 DEF HandleOpen, Handles, Reports
<1>4. CASE StartReturns
  BY <1>4 DEF StartReturns, Reports
<1>5. CASE HandleClose
  BY <1>5 DEF HandleClose, Handles, Stops, Reports
<1>6. CASE Reap
  BY <1>6 DEF Reap, Stops, Reports
<1>7. CASE Refuse
  BY <1>7 DEF Refuse, Reports
<1>8. ASSUME NEW k \in {"text", "result"}, Emit(k) PROVE Places'
  BY <1>8 DEF Emit, Reports
<1>9. CASE EndTurn
  BY <1>9 DEF EndTurn, Reports
<1>10. CASE TaskDone
  BY <1>10 DEF TaskDone
<1>11. CASE Deliver
  BY <1>11 DEF Deliver, Tells
<1>12. CASE Drop
  BY <1>12 DEF Drop, Cut, Tells
<1>13. CASE Dial
  BY <1>13 DEF Dial
<1>14. CASE Reopen
  BY <1>14 DEF Reopen, Tells
<1>15. CASE Close
  BY <1>15 DEF Close
<1>16. CASE CloseTimesOut
  BY <1>16 DEF CloseTimesOut
<1>17. ASSUME NEW m \in Msg, Arrive(m) PROVE Places'
  BY <1>17 DEF Arrive, Goes
<1>18. ASSUME NEW m \in Msg, Begin(m) PROVE Places'
  BY <1>18 DEF Begin, Goes, NewRenderer, Holds
<1>19. ASSUME NEW m \in Msg, BeginFails(m) PROVE Places'
  BY <1>19 DEF BeginFails, Goes, NewRenderer, Holds
<1>20. ASSUME NEW m \in Msg, TakeText(m) PROVE Places'
  <2>1. First \in Event
    BY <1>20, TakenOut DEF TakeText, Takes, First
  <2>2. First.of \in Msg \cup {None}
    BY <2>1 DEF Event
  <2>3. buffer' \in Seq(Msg \cup {None})
    BY <1>20, <2>2, Appended DEF TakeText
  <2>4. QED
    BY <1>20, <2>3 DEF TakeText
<1>21. ASSUME NEW m \in Msg, TakeResult(m) PROVE Places'
  BY <1>21 DEF TakeResult, Takes, Rest, First
<1>22. ASSUME NEW m \in Msg, TakeEnd(m) PROVE Places'
  BY <1>22 DEF TakeEnd, Takes, Goes, NoQueue, First
<1>23. ASSUME NEW m \in Msg, TakeError(m) PROVE Places'
  BY <1>23 DEF TakeError, Takes, Goes, NoQueue, First
<1>24. ASSUME NEW m \in Msg, CancelBeat(m) PROVE Places'
  BY <1>24 DEF CancelBeat, Goes
<1>25. ASSUME NEW m \in Msg, Deleted(m) PROVE Places'
  BY <1>25 DEF Deleted, Goes
<1>26. ASSUME NEW m \in Msg, DeleteFails(m) PROVE Places'
  <2>1. lock' \in Seq(Msg)
    BY <1>26, TakenOut DEF DeleteFails, Leaves, Goes, OneAtATime, Busy
  <2>2. buffer' \in Seq(Msg \cup {None})
    BY <1>26 DEF DeleteFails, Leaves, NewRenderer
  <2>3. QED
    BY <1>26, <2>1, <2>2 DEF DeleteFails, Leaves, Goes, NewRenderer
<1>27. ASSUME NEW m \in Msg, Posted(m) PROVE Places'
  <2>1. lock' \in Seq(Msg)
    BY <1>27, TakenOut DEF Posted, Leaves, Goes, OneAtATime, Busy
  <2>2. buffer' \in Seq(Msg \cup {None})
    BY <1>27 DEF Posted, Leaves, NewRenderer
  <2>3. QED
    BY <1>27, <2>1, <2>2 DEF Posted, Leaves, Goes, NewRenderer
<1>28. CASE BeatSends
  BY <1>28 DEF BeatSends
<1>29. CASE BeatSent
  BY <1>29 DEF BeatSent
<1>30. QED
  BY <1>1, <1>2, <1>3, <1>4, <1>5, <1>6, <1>7, <1>8, <1>9, <1>10, <1>11, <1>12,
    <1>13, <1>14, <1>15, <1>16, <1>17, <1>18, <1>19, <1>20, <1>21, <1>22, <1>23,
    <1>24, <1>25, <1>26, <1>27, <1>28, <1>29 DEF Next, Take, Ending

-----------------------------------------------------------------------------
(* The lock and the heartbeat.                                             *)

\* Whoever is past the lock leaves it only as the last thing it does.
LEMMA OneAtATimeKept ==
  TypeOK /\ TypeOK' /\ OneAtATime /\ [Next]_vars => OneAtATime'
<1> SUFFICES ASSUME TypeOK, TypeOK', OneAtATime, [Next]_vars PROVE OneAtATime'
  OBVIOUS
<1> USE DEF TypeOK, OneAtATime, Busy, turnVars, stateVars, wireVars, runnerVars,
  beatVars, showVars, pastVars
<1>1. CASE UNCHANGED vars
  BY <1>1 DEF vars
<1>2. CASE HandleSend
  BY <1>2 DEF HandleSend, Handles, StartTurn, FailAtOnce, Reports
<1>3. CASE HandleOpen
  BY <1>3 DEF HandleOpen, Handles, Reports
<1>4. CASE StartReturns
  BY <1>4 DEF StartReturns, Reports
<1>5. CASE HandleClose
  BY <1>5 DEF HandleClose, Handles, Stops, Reports
<1>6. CASE Reap
  BY <1>6 DEF Reap, Stops, Reports
<1>7. CASE Refuse
  BY <1>7 DEF Refuse, Reports
<1>8. ASSUME NEW k \in {"text", "result"}, Emit(k) PROVE OneAtATime'
  BY <1>8 DEF Emit, Reports
<1>9. CASE EndTurn
  BY <1>9 DEF EndTurn, Reports
<1>10. CASE TaskDone
  BY <1>10 DEF TaskDone
<1>11. CASE Deliver
  BY <1>11 DEF Deliver, Tells
<1>12. CASE Drop
  BY <1>12 DEF Drop, Cut, Tells
<1>13. CASE Dial
  BY <1>13 DEF Dial
<1>14. CASE Reopen
  BY <1>14 DEF Reopen, Tells
<1>15. CASE Close
  BY <1>15 DEF Close
<1>16. CASE CloseTimesOut
  BY <1>16 DEF CloseTimesOut
<1>17. ASSUME NEW m \in Msg, Arrive(m) PROVE OneAtATime'
  <2>1. lock # <<>> => Head(lock') = Head(lock)
    BY <1>17 DEF Arrive
  <2>2. QED
    BY <1>17, <2>1 DEF Arrive, Goes
<1>18. ASSUME NEW m \in Msg, Begin(m) PROVE OneAtATime'
  BY <1>18 DEF Begin, Goes, NewRenderer, Holds
<1>19. ASSUME NEW m \in Msg, BeginFails(m) PROVE OneAtATime'
  BY <1>19 DEF BeginFails, Goes, NewRenderer, Holds
<1>20. ASSUME NEW m \in Msg, TakeText(m) PROVE OneAtATime'
  BY <1>20 DEF TakeText, Takes, Rest, First
<1>21. ASSUME NEW m \in Msg, TakeResult(m) PROVE OneAtATime'
  BY <1>21 DEF TakeResult, Takes, Rest, First
<1>22. ASSUME NEW m \in Msg, TakeEnd(m) PROVE OneAtATime'
  BY <1>22 DEF TakeEnd, Takes, Goes, NoQueue, First
<1>23. ASSUME NEW m \in Msg, TakeError(m) PROVE OneAtATime'
  BY <1>23 DEF TakeError, Takes, Goes, NoQueue, First
<1>24. ASSUME NEW m \in Msg, CancelBeat(m) PROVE OneAtATime'
  BY <1>24 DEF CancelBeat, Goes
<1>25. ASSUME NEW m \in Msg, Deleted(m) PROVE OneAtATime'
  BY <1>25 DEF Deleted, Goes
<1>26. ASSUME NEW m \in Msg, DeleteFails(m) PROVE OneAtATime'
  BY <1>26 DEF DeleteFails, Leaves, Goes, NewRenderer
<1>27. ASSUME NEW m \in Msg, Posted(m) PROVE OneAtATime'
  BY <1>27 DEF Posted, Leaves, Goes, NewRenderer
<1>28. CASE BeatSends
  BY <1>28 DEF BeatSends
<1>29. CASE BeatSent
  BY <1>29 DEF BeatSent
<1>30. QED
  BY <1>1, <1>2, <1>3, <1>4, <1>5, <1>6, <1>7, <1>8, <1>9, <1>10, <1>11, <1>12,
    <1>13, <1>14, <1>15, <1>16, <1>17, <1>18, <1>19, <1>20, <1>21, <1>22, <1>23,
    <1>24, <1>25, <1>26, <1>27, <1>28, <1>29 DEF Next, Take, Ending

\* The heartbeat is stopped, then its message deleted, then the answer posted.
LEMMA BeatKept ==
  TypeOK /\ OneAtATime /\ BeatInv /\ [Next]_vars => BeatInv'
<1> SUFFICES ASSUME TypeOK, OneAtATime, BeatInv, [Next]_vars PROVE BeatInv'
  OBVIOUS
<1> USE DEF TypeOK, OneAtATime, Busy, BeatInv, BeatIsOver, BeatIsKnown, turnVars,
  stateVars, wireVars, runnerVars, beatVars, showVars, pastVars
<1>1. CASE UNCHANGED vars
  BY <1>1 DEF vars
<1>2. CASE HandleSend
  BY <1>2 DEF HandleSend, Handles, StartTurn, FailAtOnce, Reports
<1>3. CASE HandleOpen
  BY <1>3 DEF HandleOpen, Handles, Reports
<1>4. CASE StartReturns
  BY <1>4 DEF StartReturns, Reports
<1>5. CASE HandleClose
  BY <1>5 DEF HandleClose, Handles, Stops, Reports
<1>6. CASE Reap
  BY <1>6 DEF Reap, Stops, Reports
<1>7. CASE Refuse
  BY <1>7 DEF Refuse, Reports
<1>8. ASSUME NEW k \in {"text", "result"}, Emit(k) PROVE BeatInv'
  BY <1>8 DEF Emit, Reports
<1>9. CASE EndTurn
  BY <1>9 DEF EndTurn, Reports
<1>10. CASE TaskDone
  BY <1>10 DEF TaskDone
<1>11. CASE Deliver
  BY <1>11 DEF Deliver, Tells
<1>12. CASE Drop
  BY <1>12 DEF Drop, Cut, Tells
<1>13. CASE Dial
  BY <1>13 DEF Dial
<1>14. CASE Reopen
  BY <1>14 DEF Reopen, Tells
<1>15. CASE Close
  BY <1>15 DEF Close
<1>16. CASE CloseTimesOut
  BY <1>16 DEF CloseTimesOut
<1>17. ASSUME NEW m \in Msg, Arrive(m) PROVE BeatInv'
  BY <1>17 DEF Arrive, Goes
<1>18. ASSUME NEW m \in Msg, Begin(m) PROVE BeatInv'
  BY <1>18 DEF Begin, Goes, NewRenderer, Holds
<1>19. ASSUME NEW m \in Msg, BeginFails(m) PROVE BeatInv'
  BY <1>19 DEF BeginFails, Goes, NewRenderer, Holds
<1>20. ASSUME NEW m \in Msg, TakeText(m) PROVE BeatInv'
  BY <1>20 DEF TakeText, Takes, Rest, First
<1>21. ASSUME NEW m \in Msg, TakeResult(m) PROVE BeatInv'
  BY <1>21 DEF TakeResult, Takes, Rest, First
<1>22. ASSUME NEW m \in Msg, TakeEnd(m) PROVE BeatInv'
  BY <1>22 DEF TakeEnd, Takes, Goes, NoQueue, First
<1>23. ASSUME NEW m \in Msg, TakeError(m) PROVE BeatInv'
  BY <1>23 DEF TakeError, Takes, Goes, NoQueue, First
<1>24. ASSUME NEW m \in Msg, CancelBeat(m) PROVE BeatInv'
  BY <1>24 DEF CancelBeat, Goes
<1>25. ASSUME NEW m \in Msg, Deleted(m) PROVE BeatInv'
  BY <1>25 DEF Deleted, Goes
<1>26. ASSUME NEW m \in Msg, DeleteFails(m) PROVE BeatInv'
  BY <1>26 DEF DeleteFails, Leaves, Goes, NewRenderer
<1>27. ASSUME NEW m \in Msg, Posted(m) PROVE BeatInv'
  BY <1>27 DEF Posted, Leaves, Goes, NewRenderer
<1>28. CASE BeatSends
  BY <1>28 DEF BeatSends
<1>29. CASE BeatSent
  BY <1>29 DEF BeatSent
<1>30. QED
  BY <1>1, <1>2, <1>3, <1>4, <1>5, <1>6, <1>7, <1>8, <1>9, <1>10, <1>11, <1>12,
    <1>13, <1>14, <1>15, <1>16, <1>17, <1>18, <1>19, <1>20, <1>21, <1>22, <1>23,
    <1>24, <1>25, <1>26, <1>27, <1>28, <1>29 DEF Next, Take, Ending

-----------------------------------------------------------------------------
(* The end of a turn.                                                      *)

\* Appending adds one envelope ...
LEMMA InAppended ==
  ASSUME NEW S, NEW s \in Seq(S), NEW x \in S
  PROVE  In(Append(s, x)) = In(s) \cup {x}
<1>1. DOMAIN Append(s, x) = DOMAIN s \cup {Len(s) + 1}
  OBVIOUS
<1>2. \A i \in DOMAIN s : Append(s, x)[i] = s[i]
  OBVIOUS
<1>3. Append(s, x)[Len(s) + 1] = x
  OBVIOUS
<1>4. QED
  BY <1>1, <1>2, <1>3 DEF In

\* ... taking the head removes at most that one ...
LEMMA InTaken ==
  ASSUME NEW S, NEW s \in Seq(S), s # <<>>
  PROVE  In(s) = {Head(s)} \cup In(Tail(s))
<1>1. \A i \in DOMAIN Tail(s) : Tail(s)[i] = s[i + 1] /\ i + 1 \in DOMAIN s
  OBVIOUS
<1>2. \A i \in DOMAIN s : i = 1 \/ (i - 1 \in DOMAIN Tail(s) /\ s[i] = Tail(s)[i - 1])
  OBVIOUS
<1>3. 1 \in DOMAIN s /\ Head(s) = s[1]
  OBVIOUS
<1>4. ASSUME NEW x \in In(Tail(s)) PROVE x \in In(s)
  <2>1. PICK i \in DOMAIN Tail(s) : x = Tail(s)[i]
    BY DEF In
  <2>2. QED
    BY <1>1, <2>1 DEF In
<1>5. ASSUME NEW x \in In(s) PROVE x = Head(s) \/ x \in In(Tail(s))
  <2>1. PICK i \in DOMAIN s : x = s[i]
    BY DEF In
  <2>2. QED
    BY <1>2, <1>3, <2>1 DEF In
<1>6. Head(s) \in In(s)
  BY <1>3 DEF In
<1>7. QED
  BY <1>4, <1>5, <1>6

\* ... and joining brings those of both.
LEMMA InJoined ==
  ASSUME NEW S, NEW s \in Seq(S), NEW t \in Seq(S)
  PROVE  In(s \o t) = In(s) \cup In(t)
<1>1. \A i \in DOMAIN s : i \in DOMAIN (s \o t) /\ (s \o t)[i] = s[i]
  OBVIOUS
<1>2. \A i \in DOMAIN t : /\ i + Len(s) \in DOMAIN (s \o t)
                          /\ (s \o t)[i + Len(s)] = t[i]
  OBVIOUS
<1>3. \A i \in DOMAIN (s \o t) :
        i \in DOMAIN s \/ (i - Len(s) \in DOMAIN t /\ (s \o t)[i] = t[i - Len(s)])
  OBVIOUS
<1>4. In(s) \subseteq In(s \o t)
  BY <1>1 DEF In
<1>5. In(t) \subseteq In(s \o t)
  <2> SUFFICES ASSUME NEW x \in In(t) PROVE x \in In(s \o t)
    OBVIOUS
  <2>1. PICK i \in DOMAIN t : x = t[i]
    BY DEF In
  <2>2. QED
    BY <1>2, <2>1 DEF In
<1>6. In(s \o t) \subseteq In(s) \cup In(t)
  <2> SUFFICES ASSUME NEW x \in In(s \o t) PROVE x \in In(s) \/ x \in In(t)
    OBVIOUS
  <2>1. PICK i \in DOMAIN (s \o t) : x = (s \o t)[i]
    BY DEF In
  <2>2. QED
    BY <1>3, <2>1 DEF In
<1>7. QED
  BY <1>4, <1>5, <1>6

\* What is in a short list.
LEMMA InListed ==
  /\ \A e : In(<<e>>) = {e}
  /\ \A e, f : In(<<e, f>>) = {e, f}
  BY DEF In

\* What comes with more envelopes still has the end.
LEMMA FinalStays ==
  ASSUME NEW n \in Msg, HasFinal(n),
         In(queue.items) \subseteq In(queue'.items),
         In(down) \subseteq In(down'),
         Envelope("send", n) \in In(up) => Envelope("send", n) \in In(up'),
         drive = n /\ Driving => (drive = n /\ Driving)'
  PROVE  HasFinal(n)'
  BY DEF HasFinal

\* A TURN_END of a message, or an error of it, ends its turn for certain.
LEMMA EndsAreFinal ==
  ASSUME NEW n \in Msg
  PROVE  Envelope("end", n) \in Final /\ Envelope("error", n) \in Final
<1>1. Envelope("end", n) \in Event /\ Envelope("error", n) \in Event
  BY Enveloped DEF EventKind
<1>2. QED
  BY <1>1, NoneIsNoMessage DEF Final, Ends, Envelope

\* What the runner reports is added to what is on its way ...
LEMMA ReportsIn ==
  ASSUME TypeOK, NEW es \in Seq(Event), Reports(es)
  PROVE  In(down') = In(down) \cup In(es)
  BY InJoined DEF TypeOK, Reports

\* ... the end of its turn too, if the session stops ...
LEMMA StopsIn ==
  ASSUME TypeOK, Stops
  PROVE  /\ In(down) \subseteq In(down')
         /\ Driving => Envelope("end", drive) \in In(down')
<1> DEFINE cancelled == IF Driving THEN <<Envelope("end", drive)>> ELSE <<>>
           reported  == cancelled \o <<Envelope("closed", None)>>
<1>1. <<Envelope("closed", None)>> \in Seq(Event) /\ <<Envelope("end", drive)>> \in Seq(Event)
  BY Enveloped DEF EventKind, TypeOK
<1>2. cancelled \in Seq(Event) /\ (Driving => Envelope("end", drive) \in In(cancelled))
  BY <1>1, InListed
<1>3. Reports(reported)
  BY DEF Stops
<1> HIDE DEF cancelled
<1>4. reported \in Seq(Event)
  BY <1>1, <1>2, Joined
<1>5. In(reported) = In(cancelled) \cup In(<<Envelope("closed", None)>>)
  BY <1>1, <1>2, InJoined
<1> HIDE DEF reported
<1>6. In(down') = In(down) \cup In(reported)
  BY <1>3, <1>4, ReportsIn
<1> QED
  BY <1>2, <1>5, <1>6

\* ... and what a turn is told, to its queue.
LEMMA TellsIn ==
  ASSUME TypeOK, queue.on, NEW e \in Event, Tells(e)
  PROVE  queue'.on /\ In(queue'.items) = In(queue.items) \cup {e}
<1>1. queue'.on /\ queue'.items = Append(queue.items, e)
  BY DEF TypeOK, Tells
<1>2. QED
  BY <1>1, InAppended DEF TypeOK

\* The head of the requests, if it is not the message's own, can go.
LEMMA SendStays ==
  ASSUME TypeOK, NEW n \in Msg, up # <<>>, up' = Tail(up),
         Head(up) # Envelope("send", n), Envelope("send", n) \in In(up)
  PROVE  Envelope("send", n) \in In(up')
  BY InTaken DEF TypeOK

\* A step that takes the end of a turn away brings it to the turn, or to its queue.
LEMMA FinalKept ==
  TypeOK /\ TypeOK' /\ OneAtATime /\ WaitsForFinal /\ [Next]_vars => WaitsForFinal'
<1> SUFFICES ASSUME TypeOK, TypeOK', OneAtATime, WaitsForFinal, [Next]_vars,
                    NEW n \in Msg, task'[n] = "streaming"
             PROVE  queue'.on /\ (tracked' /\ ~swallowed' => HasFinal(n)')
  BY DEF WaitsForFinal
<1> DEFINE Waits == queue.on /\ (tracked /\ ~swallowed => HasFinal(n))
           Kept  == queue'.on /\ (tracked' /\ ~swallowed' => HasFinal(n)')
<1>0. task[n] = "streaming" => Waits
  BY DEF WaitsForFinal
<1> USE DEF turnVars, stateVars, wireVars, runnerVars, beatVars, showVars, pastVars
<1>1. CASE UNCHANGED vars
  BY <1>1, <1>0, FinalStays DEF vars, Driving
<1>2. CASE HandleSend
  <2> DEFINE m == Head(up).of
             one == <<Envelope("error", m)>>
             two == <<Envelope("error", m), Envelope("end", m)>>
  <2>1. up # <<>> /\ up' = Tail(up) /\ Head(up) \in Request /\ Head(up).type = "send"
    BY <1>2, TakenOut DEF HandleSend, Handles, TypeOK
  <2>2. Head(up) = Envelope("send", m) /\ m \in Msg \cup {None}
    BY <2>1 DEF Request, Envelope
  <2>3. one \in Seq(Event) /\ two \in Seq(Event)
    BY <2>2, Enveloped DEF EventKind
  <2>4. /\ Reports(one) => In(down') = In(down) \cup {Envelope("error", m)}
        /\ Reports(two) =>
             In(down') = In(down) \cup {Envelope("error", m), Envelope("end", m)}
    BY <2>3, ReportsIn, InListed
  <2>5. \/ Reports(one) /\ drive' = drive /\ stage' = stage
        \/ stage = "idle" /\ down' = down /\ drive' = m /\ stage' = "streaming"
        \/ stage = "idle" /\ Reports(two)
    BY <1>2 DEF HandleSend, StartTurn, FailAtOnce
  <2>6. UNCHANGED <<task, queue, tracked, swallowed>>
    BY <1>2 DEF HandleSend
  <2>7. CASE m = n
    <3>1. HasFinal(n)'
      BY <2>4, <2>5, <2>7, EndsAreFinal DEF HasFinal, Driving
    <3>2. QED
      BY <1>0, <2>6, <3>1
  <2>8. CASE m # n
    <3>1. Head(up) # Envelope("send", n)
      BY <2>2, <2>8 DEF Envelope
    <3>2. Envelope("send", n) \in In(up) => Envelope("send", n) \in In(up')
      BY <2>1, <3>1, SendStays
    <3>3. In(down) \subseteq In(down')
      BY <2>4, <2>5
    <3>4. drive = n /\ Driving => (drive = n /\ Driving)'
      BY <2>5 DEF Driving
    <3>5. QED
      BY <1>0, <2>6, <3>2, <3>3, <3>4, FinalStays
  <2>9. QED
    BY <2>7, <2>8
<1>3. CASE HandleOpen
  <2>1. Envelope("send", n) \in In(up) => Envelope("send", n) \in In(up')
    BY <1>3, SendStays DEF HandleOpen, Handles, Envelope
  <2>2. <<Envelope("error", None)>> \in Seq(Event)
    BY Enveloped DEF EventKind
  <2>3. In(down) \subseteq In(down')
    BY <1>3, <2>2, ReportsIn DEF HandleOpen
  <2>4. QED
    BY <1>3, <1>0, <2>1, <2>3, FinalStays DEF HandleOpen, Driving
<1>4. CASE StartReturns
  <2>1. /\ <<Envelope("error", None)>> \in Seq(Event)
        /\ <<Envelope("opened", None)>> \in Seq(Event)
    BY Enveloped DEF EventKind
  <2>2. In(down) \subseteq In(down')
    BY <1>4, <2>1, ReportsIn DEF StartReturns
  <2>3. QED
    BY <1>4, <1>0, <2>2, FinalStays DEF StartReturns, Driving
<1>5. CASE HandleClose
  <2>1. Envelope("send", n) \in In(up) => Envelope("send", n) \in In(up')
    BY <1>5, SendStays DEF HandleClose, Handles, Envelope
  <2>2. UNCHANGED <<task, queue, tracked, swallowed>>
    BY <1>5 DEF HandleClose
  <2>3. CASE present = "no"
    BY <1>5, <1>0, <2>1, <2>3, FinalStays DEF HandleClose, Driving
  <2>4. CASE present # "no"
    <3>1. Stops
      BY <1>5, <2>4 DEF HandleClose
    <3>2. QED
      BY <1>0, <2>1, <2>2, <3>1, StopsIn, FinalStays, EndsAreFinal DEF HasFinal
  <2>5. QED
    BY <2>3, <2>4
<1>6. CASE Reap
  <2>1. UNCHANGED <<task, queue, tracked, swallowed, up>>
    BY <1>6 DEF Reap
  <2>2. QED
    BY <1>6, <1>0, <2>1, StopsIn, FinalStays, EndsAreFinal DEF HasFinal, Reap
<1>7. CASE Refuse
  <2>1. <<Envelope("error", None)>> \in Seq(Event)
    BY Enveloped DEF EventKind
  <2>2. In(down) \subseteq In(down')
    BY <1>7, <2>1, ReportsIn DEF Refuse
  <2>3. QED
    BY <1>7, <1>0, <2>2, FinalStays DEF Refuse, Driving
<1>8. ASSUME NEW k \in {"text", "result"}, Emit(k) PROVE Kept
  <2>1. <<Envelope(k, drive)>> \in Seq(Event)
    BY <1>8, Enveloped DEF EventKind, TypeOK
  <2>2. In(down) \subseteq In(down')
    BY <1>8, <2>1, ReportsIn DEF Emit
  <2>3. QED
    BY <1>8, <1>0, <2>2, FinalStays DEF Emit, Driving
<1>9. CASE EndTurn
  <2>1. /\ <<Envelope("end", drive)>> \in Seq(Event)
        /\ <<Envelope("error", drive), Envelope("end", drive)>> \in Seq(Event)
    BY Enveloped DEF EventKind, TypeOK
  <2>2. /\ Reports(<<Envelope("end", drive)>>) =>
             In(down') = In(down) \cup {Envelope("end", drive)}
        /\ Reports(<<Envelope("error", drive), Envelope("end", drive)>>) =>
             In(down') = In(down) \cup {Envelope("error", drive), Envelope("end",
               drive)}
    BY <2>1, ReportsIn, InListed
  <2>3. In(down) \cup {Envelope("end", drive)} \subseteq In(down')
    BY <1>9, <2>2 DEF EndTurn
  <2>4. UNCHANGED <<task, queue, tracked, swallowed, up, drive>>
    BY <1>9 DEF EndTurn
  <2>5. CASE drive = n
    <3>1. HasFinal(n)'
      BY <2>3, <2>5, EndsAreFinal DEF HasFinal
    <3>2. QED
      BY <1>0, <2>4, <3>1
  <2>6. CASE drive # n
    BY <1>0, <2>3, <2>4, <2>6, FinalStays
  <2>7. QED
    BY <2>5, <2>6
<1>10. CASE TaskDone
  BY <1>10, <1>0, FinalStays DEF TaskDone, Driving
<1>11. CASE Deliver
  <2> DEFINE e == Head(down)
  <2>1. e \in Event /\ In(down) = {e} \cup In(down')
    BY <1>11, TakenOut, InTaken DEF Deliver, TypeOK
  <2>2. UNCHANGED <<task, up, drive, stage>>
    BY <1>11 DEF Deliver
  <2>3. Waits
    BY <1>0, <2>2
  <2>4. \/ UNCHANGED queue
        \/ Tells(e)
    BY <1>11 DEF Deliver
  <2>5. queue'.on /\ In(queue.items) \subseteq In(queue'.items)
    BY <2>1, <2>3, <2>4, TellsIn
  <2>6. tracked' /\ ~swallowed' => tracked /\ ~swallowed
    BY <1>11 DEF Deliver
  <2>7. CASE e \notin Final
    <3>1. HasFinal(n) => HasFinal(n)'
      BY <2>1, <2>2, <2>5, <2>7 DEF HasFinal, Driving
    <3>2. QED
      BY <2>3, <2>5, <2>6, <3>1
  <2>8. CASE e \in Final
    <3>1. ASSUME tracked', ~swallowed' PROVE Tells(e)
      BY <1>11, <2>3, <2>8, <3>1 DEF Deliver, Final, Ends
    <3>2. ASSUME Tells(e) PROVE HasFinal(n)'
      BY <2>1, <2>3, <2>8, <3>2, TellsIn DEF HasFinal, Final
    <3>3. QED
      BY <2>5, <3>1, <3>2
  <2>9. QED
    BY <2>7, <2>8
<1>12. CASE Drop
  <2>1. Envelope("dropped", None) \in Event
    BY Enveloped DEF EventKind
  <2>2. UNCHANGED <<task, tracked, swallowed>>
    BY <1>12 DEF Drop, Cut
  <2>3. CASE tracked
    <3>1. queue'.on /\ Envelope("dropped", None) \in In(queue'.items)
      BY <1>12, <1>0, <2>1, <2>2, <2>3, TellsIn DEF Drop
    <3>2. QED
      BY <3>1 DEF HasFinal, Ends, Envelope
  <2>4. CASE ~tracked
    BY <1>12, <1>0, <2>2, <2>4 DEF Drop
  <2>5. QED
    BY <2>3, <2>4
<1>13. CASE Dial
  BY <1>13, <1>0, FinalStays DEF Dial, Driving
<1>14. CASE Reopen
  <2>1. Envelope("open", None) \in Request /\ Envelope("closed", None) \in Event
    BY Enveloped DEF EventKind
  <2>2. UNCHANGED <<task, down, drive, stage, swallowed>>
    BY <1>14 DEF Reopen
  <2>3. \/ UNCHANGED <<queue, tracked, up>>
        \/ UNCHANGED <<queue, tracked>> /\ up' = Append(up, Envelope("open", None))
        \/ ~tracked' /\ Tells(Envelope("closed", None))
    BY <1>14 DEF Reopen
  <2>4. CASE UNCHANGED <<queue, tracked, up>>
    BY <1>0, <2>2, <2>4, FinalStays DEF Driving
  <2>5. CASE UNCHANGED <<queue, tracked>> /\ up' = Append(up, Envelope("open", None))
    <3>1. In(up) \subseteq In(up')
      BY <2>1, <2>5, InAppended DEF TypeOK
    <3>2. QED
      BY <1>0, <2>2, <2>5, <3>1, FinalStays DEF Driving
  <2>6. CASE ~tracked' /\ Tells(Envelope("closed", None))
    BY <1>0, <2>1, <2>2, <2>6, TellsIn
  <2>7. QED
    BY <2>3, <2>4, <2>5, <2>6
<1>15. CASE Close
  <2>1. Envelope("close", None) \in Request
    BY Enveloped
  <2>2. In(up) \subseteq In(up')
    BY <1>15, <2>1, InAppended DEF Close, TypeOK
  <2>3. QED
    BY <1>15, <1>0, <2>2, FinalStays DEF Close, Driving
<1>16. CASE CloseTimesOut
  BY <1>16, <1>0 DEF CloseTimesOut
<1>17. ASSUME NEW m \in Msg, Arrive(m) PROVE Kept
  BY <1>17, <1>0, FinalStays DEF Arrive, Goes, Driving, TypeOK
<1>18. ASSUME NEW m \in Msg, Begin(m) PROVE Kept
  <2>1. m = n
    BY <1>18 DEF Begin, Goes, Holds, OneAtATime, Busy, TypeOK
  <2>2. Envelope("send", m) \in Request
    BY Enveloped
  <2>3. Envelope("send", m) \in In(up')
    BY <1>18, <2>2, InAppended DEF Begin, TypeOK
  <2>4. queue'.on
    BY <1>18 DEF Begin
  <2>5. QED
    BY <2>1, <2>3, <2>4 DEF HasFinal
<1>19. ASSUME NEW m \in Msg, BeginFails(m) PROVE Kept
  BY <1>19, <1>0, FinalStays DEF BeginFails, Goes, Driving, TypeOK
<1>20. ASSUME NEW m \in Msg, TakeText(m) PROVE Kept
  <2>1. /\ queue'.on = queue.on
        /\ In(queue.items) = {First} \cup In(queue'.items)
    BY <1>20, InTaken DEF TakeText, Takes, Rest, First, TypeOK
  <2>2. First.type \notin Ends
    BY <1>20 DEF TakeText, Takes, Ends
  <2>3. HasFinal(n) => HasFinal(n)'
    BY <1>20, <2>1, <2>2 DEF TakeText, HasFinal, Driving
  <2>4. QED
    BY <1>20, <1>0, <2>1, <2>3 DEF TakeText
<1>21. ASSUME NEW m \in Msg, TakeResult(m) PROVE Kept
  <2>1. /\ queue'.on = queue.on
        /\ In(queue.items) = {First} \cup In(queue'.items)
    BY <1>21, InTaken DEF TakeResult, Takes, Rest, First, TypeOK
  <2>2. First.type \notin Ends
    BY <1>21 DEF TakeResult, Takes, Ends
  <2>3. HasFinal(n) => HasFinal(n)'
    BY <1>21, <2>1, <2>2 DEF TakeResult, HasFinal, Driving
  <2>4. QED
    BY <1>21, <1>0, <2>1, <2>3 DEF TakeResult
<1>22. ASSUME NEW m \in Msg, TakeEnd(m) PROVE Kept
  BY <1>22 DEF TakeEnd, Takes, Goes, OneAtATime, Busy, TypeOK
<1>23. ASSUME NEW m \in Msg, TakeError(m) PROVE Kept
  BY <1>23 DEF TakeError, Takes, Goes, OneAtATime, Busy, TypeOK
<1>24. ASSUME NEW m \in Msg, CancelBeat(m) PROVE Kept
  BY <1>24, <1>0, FinalStays DEF CancelBeat, Goes, Driving, TypeOK
<1>25. ASSUME NEW m \in Msg, Deleted(m) PROVE Kept
  BY <1>25, <1>0, FinalStays DEF Deleted, Goes, Driving, TypeOK
<1>26. ASSUME NEW m \in Msg, DeleteFails(m) PROVE Kept
  BY <1>26, <1>0, FinalStays DEF DeleteFails, Leaves, Goes, Driving, TypeOK
<1>27. ASSUME NEW m \in Msg, Posted(m) PROVE Kept
  BY <1>27, <1>0, FinalStays DEF Posted, Leaves, Goes, Driving, TypeOK
<1>28. CASE BeatSends
  BY <1>28, <1>0, FinalStays DEF BeatSends, Driving
<1>29. CASE BeatSent
  BY <1>29, <1>0, FinalStays DEF BeatSent, Driving
<1>30. QED
  BY <1>1, <1>2, <1>3, <1>4, <1>5, <1>6, <1>7, <1>8, <1>9, <1>10, <1>11, <1>12,
    <1>13, <1>14, <1>15, <1>16, <1>17, <1>18, <1>19, <1>20, <1>21, <1>22, <1>23,
    <1>24, <1>25, <1>26, <1>27, <1>28, <1>29 DEF Next, Take, Ending

-----------------------------------------------------------------------------

\* Nothing has been sent yet.
LEMMA TurnsInvInit == Init => TurnsInv
<1> SUFFICES ASSUME Init PROVE TurnsInv
  OBVIOUS
<1>1. Flags
  BY DEF Init, Flags
<1>2. Channels
  BY DEF Init, Channels, NoQueue
<1>3. Places
  BY BoundsAreNaturals DEF Init, Places
<1>4. OneAtATime /\ BeatInv /\ WaitsForFinal
  BY DEF Init, OneAtATime, Busy, BeatInv, BeatIsOver, BeatIsKnown, WaitsForFinal
<1>5. QED
  BY <1>1, <1>2, <1>3, <1>4, TypeParts DEF TurnsInv

\* The invariant behind the turns: one handler at a time is past the lock, its
\* heartbeat is known until it is deleted, and what ends its turn is on its way.
THEOREM TurnSafety == Spec => []TurnsInv
<1>1. TurnsInv /\ [Next]_vars => TurnsInv'
  <2> SUFFICES ASSUME TurnsInv, [Next]_vars PROVE TurnsInv'
    OBVIOUS
  <2>1. TypeOK'
    BY FlagsKept, ChannelsKept, PlacesKept DEF TurnsInv, TypeOK, Flags, Channels,
      Places
  <2>2. QED
    BY <2>1, OneAtATimeKept, BeatKept, FinalKept DEF TurnsInv
<1>2. QED
  BY <1>1, TurnsInvInit, PTL DEF Spec

\* Every variable stays in its type, for all messages, drops and refusals.
THEOREM TurnsTypes == Spec => []TypeOK
<1>1. TurnsInv => TypeOK
  BY DEF TurnsInv
<1>2. QED
  BY <1>1, TurnSafety, PTL

\* A message that waits for events has an end to come, whatever becomes of the link,
\* the session and the turns before it, short of a close() that gave up and of an
\* error taken for the re-open's.
THEOREM TurnHasEndAlways == Spec => []TurnHasEnd
<1>1. TurnsInv => TurnHasEnd
  <2> SUFFICES ASSUME TurnsInv, tracked, ~swallowed, NEW m \in Msg,
                      task[m] = "streaming"
               PROVE  HasEnd(m)
    BY DEF TurnHasEnd
  <2>1. HasFinal(m)
    BY DEF TurnsInv, WaitsForFinal
  <2>2. QED
    BY <2>1 DEF HasFinal, HasEnd, Final, In
<1>2. QED
  BY <1>1, TurnSafety, PTL

\* When an answer is posted its "working..." has gone, whoever sent it and however the
\* heartbeat was stopped, short of a mishap.
THEOREM NothingStaleAlways == Spec => []NothingStale
<1>1. TurnsInv => NothingStale
  BY DEF TurnsInv, BeatInv, BeatIsOver, BeatIsKnown, NothingStale
<1>2. QED
  BY <1>1, TurnSafety, PTL

=============================================================================
