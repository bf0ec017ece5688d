---------------------------- MODULE RunnerDaemon ----------------------------
(***************************************************************************)
(* The runner's end of one bridge <-> runner WebSocket: RunnerConnection   *)
(* of src/ct/runner/server.py and the life of the SDK clients it owns      *)
(* (SessionRunner of src/ct/sdk_adapter/adapter.py).                       *)
(*                                                                         *)
(* Every envelope gets a dispatch task of its own, every turn a task, and  *)
(* the idle reaper is one more; they interleave at their awaits.  A sid is *)
(* used again after a close, so what a task holds on to is an instance:    *)
(* one RunnerSession object with its SessionRunner.                        *)
(*                                                                         *)
(* The bridge is the environment: any envelope for any sid at any time.    *)
(* A session closed before it said OPENED makes its sid `hasty`; what the  *)
(* daemon promises about a sid, it promises as long as it is not.          *)
(***************************************************************************)
EXTENDS Naturals

CONSTANTS Sid,    \* session ids chosen by the bridge
          Inst,   \* RunnerSession objects, each used once
  Asked,  \* those a set_mode, set_model or interrupt may come for: a bound
          None    \* an empty slot

ASSUME NoneIsNoInstance == None \notin Inst /\ None \notin Sid
ASSUME AskedAreInst == Asked \subseteq Inst

VARIABLES
  conn,      \* the WebSocket: "up"; "closed" = gone, every send raises
  teardown,  \* _teardown: "no", what it is at, "done", or "aborted" by a raise
  todo,      \* _teardown's snapshot of sessions, less those it has visited
  table,     \* self.sessions: the instance in each sid's slot
  sid,       \* RunnerSession.sid of each instance, None before it is created
  client,    \* the ClaudeSDKClient; "cut" = its disconnect was cancelled
  opening,   \* _handle_open of the instance: in runner.start(), or replying
  turn,      \* turn_task; "raised" = it died sending on the closed socket
  idle,      \* instances whose last_activity is past the reaping threshold
  closer,    \* the task that closes the instance: what it awaits
  closedBy,  \* which task that is
  reaper,    \* _reaper_task: sleeping, in its for loop, or finished
  toReap,    \* the sids of the reaper's scan it has not come to yet
  goodbye,   \* history: instances that said CLOSED
  asking,    \* instances whose SDK a set_mode, set_model or interrupt awaits
  late,      \* history: what an instance said after CLOSED, with its kind
  hasty      \* history: sids closed while their session was still opening

slotVars    == <<table, sid>>
closeVars   == <<closer, closedBy>>
reaperVars  == <<reaper, toReap>>
downVars    == <<conn, teardown, todo>>
saidVars    == <<goodbye, late>>
vars == <<downVars, slotVars, client, opening, turn, idle, closeVars, reaperVars,
          asking, saidVars, hasty>>

Client   == {"none", "connecting", "live", "stopping", "gone", "cut"}
Turn     == {"none", "running", "cancelled", "over", "raised"}
Closer   == {"no", "turn", "stop", "bye", "done", "lost"}
ClosedBy == {"nobody", "handler", "reaper", "teardown"}
Word     == {"open", "turn", "setting"}
Teardown == {"no", "reaper", "dispatch", "sessions", "done", "aborted"}

TypeOK ==
  /\ conn \in {"up", "closed"}
  /\ teardown \in Teardown
  /\ todo \subseteq Inst
  /\ table \in [Sid -> Inst \cup {None}]
  /\ sid \in [Inst -> Sid \cup {None}]
  /\ client \in [Inst -> Client]
  /\ opening \in [Inst -> {"no", "starting", "replying"}]
  /\ turn \in [Inst -> Turn]
  /\ idle \subseteq Inst
  /\ closer \in [Inst -> Closer]
  /\ closedBy \in [Inst -> ClosedBy]
  /\ reaper \in {"asleep", "busy", "dead"}
  /\ toReap \subseteq Sid
  /\ goodbye \subseteq Inst
  /\ asking \subseteq Inst
  /\ late \subseteq Inst \X Word
  /\ hasty \subseteq Sid

Init ==
  /\ conn = "up" /\ teardown = "no" /\ todo = {}
  /\ table = [s \in Sid |-> None]
  /\ sid = [i \in Inst |-> None]
  /\ client = [i \in Inst |-> "none"]
  /\ opening = [i \in Inst |-> "no"]
  /\ turn = [i \in Inst |-> "none"]
  /\ idle = {}
  /\ closer = [i \in Inst |-> "no"]
  /\ closedBy = [i \in Inst |-> "nobody"]
  /\ reaper = "asleep" /\ toReap = {}
  /\ asking = {} /\ goodbye = {} /\ late = {} /\ hasty = {}

-----------------------------------------------------------------------------

InFlight(i) == turn[i] \in {"running", "cancelled"}

\* Up is a client that holds a CLI subprocess nobody has begun to stop.
Up(i) == client[i] \in {"connecting", "live"}

\* The instances a task is in the middle of closing.
Closing(by) ==
  {i \in Inst : closedBy[i] = by /\ closer[i] \in {"turn", "stop", "bye"}}

\* _send of an envelope of instance i; nothing is said on a closed socket.
Say(i, word) ==
  late' = IF conn = "up" /\ i \in goodbye THEN late \cup {<<i, word>>} ELSE late

\* runner.stop() up to its disconnect().  A client still connecting has nothing
\* to disconnect yet, and its connect() goes on.
Stop(c, i) == IF c[i] = "live" THEN [c EXCEPT ![i] = "stopping"] ELSE c

\* Bug: the turn is cancelled but not awaited.
StartClosingNoWait(i, by) ==
  /\ closedBy' = [closedBy EXCEPT ![i] = by]
  /\ closer' = [closer EXCEPT ![i] = "stop"]
  /\ turn' = IF InFlight(i) THEN [turn EXCEPT ![i] = "cancelled"] ELSE turn
  /\ client' = Stop(client, i)

\* What _handle_close, _reap_session and _teardown do to a session alike: cancel
\* the turn and wait for it, or go on to runner.stop().
StartClosing(i, by) ==
  /\ closedBy' = [closedBy EXCEPT ![i] = by]
  /\ IF InFlight(i)
       THEN /\ turn' = [turn EXCEPT ![i] = "cancelled"]
            /\ closer' = [closer EXCEPT ![i] = "turn"]
            /\ UNCHANGED client
       ELSE /\ closer' = [closer EXCEPT ![i] = "stop"]
            /\ client' = Stop(client, i)
            /\ UNCHANGED turn

\* sessions.pop, then the above.
PopAndClose(i, by) ==
  /\ table' = [table EXCEPT ![sid[i]] = None]
  /\ hasty' = IF opening[i] # "no" THEN hasty \cup {sid[i]} ELSE hasty
  /\ StartClosing(i, by)

-----------------------------------------------------------------------------
(* T_OPEN.                                                                 *)

\* _handle_open up to runner.start(): the slot is taken before the client is up.
\* For a sid that has one, the reply is the error "duplicate" and nothing else.
Open(i, s) ==
  /\ conn = "up"
  /\ sid[i] = None
  /\ table[s] = None
  /\ sid' = [sid EXCEPT ![i] = s]
  /\ table' = [table EXCEPT ![s] = i]
  /\ client' = [client EXCEPT ![i] = "connecting"]
  /\ opening' = [opening EXCEPT ![i] = "starting"]
  /\ UNCHANGED <<downVars, turn, idle, closeVars, reaperVars, asking, saidVars, hasty>>

\* connect() returns; with resume=, SDK_ID goes out before OPENED.
OpenConnects(i) ==
  /\ opening[i] = "starting"
  /\ client' = [client EXCEPT ![i] = "live"]
  /\ opening' = [opening EXCEPT ![i] = "replying"]
  /\ Say(i, "open")
  /\ UNCHANGED <<downVars, slotVars, turn, idle, closeVars, reaperVars, asking, goodbye,
                 hasty>>

\* connect() raises: the slot is emptied, whoever is in it by now.
OpenFails(i) ==
  /\ opening[i] = "starting"
  /\ client' = [client EXCEPT ![i] = "gone"]
  /\ opening' = [opening EXCEPT ![i] = "no"]
  /\ table' = [table EXCEPT ![sid[i]] = None]
  /\ Say(i, "open")
  /\ UNCHANGED <<downVars, sid, turn, idle, closeVars, reaperVars, asking, goodbye, hasty>>

\* T_OPENED.  If the send raises, the session stays for _teardown to find.
OpenReplies(i) ==
  /\ opening[i] = "replying"
  /\ opening' = [opening EXCEPT ![i] = "no"]
  /\ Say(i, "open")
  /\ UNCHANGED <<downVars, slotVars, client, turn, idle, closeVars, reaperVars,
                 asking, goodbye, hasty>>

-----------------------------------------------------------------------------
(* T_SEND and the turn task.                                               *)

\* _handle_send has no await.  It accepts a session that is still opening; for
\* one that is busy, or unknown, it only replies with an error.
Send(i) ==
  /\ conn = "up"
  /\ sid[i] # None /\ table[sid[i]] = i
  /\ ~InFlight(i)
  /\ turn' = [turn EXCEPT ![i] = "running"]
  /\ idle' = idle \ {i}
  /\ UNCHANGED <<downVars, slotVars, client, opening, closeVars, reaperVars,
                 asking, saidVars, hasty>>

\* An SDK message comes: activity, and an envelope for the bridge.
TurnStreams(i) ==
  /\ turn[i] = "running"
  /\ conn = "up"
  /\ idle' = idle \ {i}
  /\ Say(i, "turn")
  /\ UNCHANGED <<downVars, slotVars, client, opening, turn, closeVars, reaperVars,
                 asking, goodbye, hasty>>

\* The turn ends: a result, an SDK error, or the cancellation.  In each case the
\* last thing the task does is to send TURN_END, which on a closed socket raises.
TurnEnds(i) ==
  /\ InFlight(i)
  /\ turn' = [turn EXCEPT ![i] = IF conn = "up" THEN "over" ELSE "raised"]
  /\ idle' = IF turn[i] = "running" THEN idle \ {i} ELSE idle
  /\ Say(i, "turn")
  /\ UNCHANGED <<downVars, slotVars, client, opening, closeVars, reaperVars,
                 asking, goodbye, hasty>>

\* idle_reap_minutes pass without activity.
FallsIdle(i) ==
  /\ sid[i] # None /\ table[sid[i]] = i
  /\ idle' = idle \cup {i}
  /\ UNCHANGED <<downVars, slotVars, client, opening, turn, closeVars, reaperVars,
                 asking, saidVars, hasty>>

-----------------------------------------------------------------------------
(* T_SET_MODE, T_SET_MODEL and T_INTERRUPT.                                *)

\* _handle_set_mode, _handle_set_model and _handle_interrupt up to the SDK's
\* answer; for an unknown sid they reply with an error, or not at all.
Ask(i) ==
  /\ conn = "up"
  /\ i \in Asked
  /\ sid[i] # None /\ table[sid[i]] = i
  /\ asking' = asking \cup {i}
  /\ UNCHANGED <<downVars, slotVars, client, opening, turn, idle, closeVars,
                 reaperVars, saidVars, hasty>>

\* The SDK has done it.
AskDone(i) ==
  /\ i \in asking
  /\ asking' = asking \ {i}
  /\ UNCHANGED <<downVars, slotVars, client, opening, turn, idle, closeVars,
                 reaperVars, saidVars, hasty>>

\* It refuses, or its client was stopped meanwhile: T_ERROR, whether or not the
\* session is still in the table.
AskFails(i) ==
  /\ i \in asking
  /\ asking' = asking \ {i}
  /\ Say(i, "setting")
  /\ UNCHANGED <<downVars, slotVars, client, opening, turn, idle, closeVars,
                 reaperVars, goodbye, hasty>>

-----------------------------------------------------------------------------
(* T_CLOSE, and the steps every closing task goes through.                 *)

\* Bug: the session is looked up, and leaves the table only with its reply.
CloseKeepsSlot(i) ==
  /\ conn = "up"
  /\ sid[i] # None /\ table[sid[i]] = i
  /\ StartClosing(i, "handler")
  /\ UNCHANGED <<downVars, slotVars, opening, idle, reaperVars, asking, saidVars, hasty>>

\* _handle_close; for an unknown sid it does nothing at all.
Close(i) ==
  /\ conn = "up"
  /\ sid[i] # None /\ table[sid[i]] = i
  /\ PopAndClose(i, "handler")
  /\ UNCHANGED <<downVars, sid, opening, idle, reaperVars, asking, saidVars>>

\* A raise out of `await turn_task` ends the task: the reaper's loop logs it and
\* is over, _teardown is aborted, a dispatch task just dies.
Abandon(i) ==
  /\ closer' = [closer EXCEPT ![i] = "lost"]
  /\ reaper' = IF closedBy[i] = "reaper" THEN "dead" ELSE reaper
  /\ teardown' = IF closedBy[i] = "teardown" THEN "aborted" ELSE teardown
  /\ UNCHANGED client

\* Bug: the cancelled turn's CancelledError is not suppressed.
AwaitTurnUnsuppressed(i) ==
  /\ closer[i] = "turn"
  /\ ~InFlight(i)
  /\ Abandon(i)
  /\ UNCHANGED <<conn, todo, slotVars, opening, turn, idle, closedBy, toReap,
                 asking, saidVars, hasty>>

\* The cancelled turn is over.  Only its CancelledError is suppressed.
AwaitTurn(i) ==
  /\ closer[i] = "turn"
  /\ ~InFlight(i)
  /\ IF turn[i] = "raised"
       THEN Abandon(i)
       ELSE /\ closer' = [closer EXCEPT ![i] = "stop"]
            /\ client' = Stop(client, i)
            /\ UNCHANGED <<reaper, teardown>>
  /\ UNCHANGED <<conn, todo, slotVars, opening, turn, idle, closedBy, toReap,
                 asking, saidVars, hasty>>

\* runner.stop() returns; only a close on request or by the reaper says CLOSED.
StopReturns(i) ==
  /\ closer[i] = "stop"
  /\ client' = [client EXCEPT ![i] = IF @ = "stopping" THEN "gone" ELSE @]
  /\ closer' = [closer EXCEPT ![i] = IF closedBy[i] = "teardown" THEN "done" ELSE "bye"]
  /\ UNCHANGED <<downVars, slotVars, opening, turn, idle, closedBy, reaperVars,
                 asking, saidVars, hasty>>

SayClosed(i) ==
  /\ closer[i] = "bye"
  /\ closer' = [closer EXCEPT ![i] = "done"]
  /\ goodbye' = IF conn = "up" THEN goodbye \cup {i} ELSE goodbye
  /\ UNCHANGED <<downVars, slotVars, client, opening, turn, idle, closedBy,
                 reaperVars, asking, late, hasty>>

-----------------------------------------------------------------------------
(* The idle reaper.                                                        *)

\* Sessions in the table are not closed; a turn in flight exempts a session.
Reapable(s) ==
  /\ table[s] # None
  /\ table[s] \in idle
  /\ ~InFlight(table[s])

\* _reap_session: whatever is in the slot by now, in whatever state, is popped.
ReapSlot(s) ==
  IF table[s] = None
    THEN UNCHANGED <<table, hasty, client, turn, closeVars>>
    ELSE PopAndClose(table[s], "reaper")

\* Bug: the scan takes the closed flag of a session for its being idle.
ReaperScansClosed(s) ==
  /\ reaper = "asleep"
  /\ Reapable(s) /\ closer[table[s]] # "no"
  /\ reaper' = "busy"
  /\ toReap' = {r \in Sid : Reapable(r)} \ {s}
  /\ ReapSlot(s)
  /\ UNCHANGED <<downVars, sid, opening, idle, asking, saidVars>>

\* One tick: the list is made in one go, and the first on it is popped at once.
ReaperScans(s) ==
  /\ reaper = "asleep"
  /\ Reapable(s)
  /\ reaper' = "busy"
  /\ toReap' = {r \in Sid : Reapable(r)} \ {s}
  /\ ReapSlot(s)
  /\ UNCHANGED <<downVars, sid, opening, idle, asking, saidVars>>

\* The others follow as the close of the one before returns; the list is not
\* looked at again.
ReaperGoesOn(s) ==
  /\ reaper = "busy"
  /\ Closing("reaper") = {}
  /\ s \in toReap
  /\ toReap' = toReap \ {s}
  /\ ReapSlot(s)
  /\ UNCHANGED <<reaper, downVars, sid, opening, idle, asking, saidVars>>

\* Bug: the loop's body is run once.
ReaperReturns ==
  /\ reaper = "busy"
  /\ toReap = {} /\ Closing("reaper") = {}
  /\ reaper' = "returned"
  /\ UNCHANGED <<toReap, downVars, slotVars, client, opening, turn, idle, closeVars,
                 asking, saidVars, hasty>>

ReaperSleeps ==
  /\ reaper = "busy"
  /\ toReap = {} /\ Closing("reaper") = {}
  /\ reaper' = "asleep"
  /\ UNCHANGED <<toReap, downVars, slotVars, client, opening, turn, idle, closeVars,
                 asking, saidVars, hasty>>

-----------------------------------------------------------------------------
(* The socket goes down, and _teardown.                                    *)

Drop ==
  /\ conn = "up"
  /\ conn' = "closed"
  /\ UNCHANGED <<teardown, todo, slotVars, client, opening, turn, idle, closeVars,
                 reaperVars, asking, saidVars, hasty>>

\* CancelledError inside a task that closes an instance.  It cuts a disconnect
\* short and ends the task; but inside `await turn_task` it is suppressed, and
\* the task goes on.
CancelClosers(by) ==
  LET cut == {i \in Closing(by) : closer[i] = "stop"}
  IN /\ closer' = [i \in Inst |-> IF i \in cut THEN "lost"
                                  ELSE IF i \in Closing(by) /\ closer[i] = "bye"
                                  THEN "done" ELSE closer[i]]
     /\ client' = [i \in Inst |-> IF i \in cut /\ client[i] = "stopping"
                                    THEN "cut"
                                  ELSE IF by = "handler" /\ opening[i] = "starting"
                                    THEN "live" ELSE client[i]]

\* Bug: the reaper is awaited without having been cancelled.
TeardownBeginsNoCancel ==
  /\ conn = "closed" /\ teardown = "no"
  /\ teardown' = "reaper"
  /\ UNCHANGED <<conn, todo, slotVars, client, opening, turn, idle, closeVars,
                 reaperVars, asking, saidVars, hasty>>

\* The read loop ends and its `finally` runs _teardown: cancel the reaper.
TeardownBegins ==
  /\ conn = "closed" /\ teardown = "no"
  /\ teardown' = "reaper"
  /\ reaper' = IF \E i \in Closing("reaper") : closer[i] = "turn"
                 THEN reaper ELSE "dead"
  /\ CancelClosers("reaper")
  /\ UNCHANGED <<conn, todo, slotVars, opening, turn, idle, closedBy, toReap,
                 asking, saidVars, hasty>>

\* Bug: the dispatch tasks are left alone, as before they were tracked.
DispatchLeftRunning ==
  /\ teardown = "reaper"
  /\ reaper = "dead"
  /\ teardown' = "dispatch"
  /\ UNCHANGED <<conn, todo, slotVars, client, opening, turn, idle, closeVars,
                 reaperVars, asking, saidVars, hasty>>

\* The reaper is finished: cancel the dispatch tasks.  A connect() cut short may
\* leave a subprocess behind, so it counts as live.
CancelDispatch ==
  /\ teardown = "reaper"
  /\ reaper = "dead"
  /\ teardown' = "dispatch"
  /\ CancelClosers("handler")
  /\ opening' = [i \in Inst |-> "no"]
  /\ asking' = {}
  /\ UNCHANGED <<conn, todo, slotVars, turn, idle, closedBy, reaperVars, saidVars,
                 hasty>>

\* After 3 s the tasks that survived the first cancellation get a second one.
DrainTimesOut ==
  /\ teardown = "dispatch"
  /\ CancelClosers("handler")
  /\ UNCHANGED <<downVars, slotVars, opening, turn, idle, closedBy, reaperVars,
                 asking, saidVars, hasty>>

\* The dispatch tasks are finished: list the sessions.
ListSessions ==
  /\ teardown = "dispatch"
  /\ Closing("handler") = {}
  /\ teardown' = "sessions"
  /\ todo' = {i \in Inst : \E s \in Sid : table[s] = i}
  /\ UNCHANGED <<conn, slotVars, client, opening, turn, idle, closeVars, reaperVars,
                 asking, saidVars, hasty>>

\* The next session of the list; it stays in the table.
TeardownSession(i) ==
  /\ teardown = "sessions"
  /\ Closing("teardown") = {}
  /\ i \in todo
  /\ todo' = todo \ {i}
  /\ StartClosing(i, "teardown")
  /\ UNCHANGED <<conn, teardown, slotVars, opening, idle, reaperVars, asking, saidVars,
                 hasty>>

TeardownEnds ==
  /\ teardown = "sessions"
  /\ todo = {} /\ Closing("teardown") = {}
  /\ teardown' = "done"
  /\ table' = [s \in Sid |-> None]
  /\ UNCHANGED <<conn, todo, sid, client, opening, turn, idle, closeVars, reaperVars,
                 asking, saidVars, hasty>>

-----------------------------------------------------------------------------

Envelope(i) ==
  \/ \E s \in Sid : Open(i, s)
  \/ Send(i) \/ Ask(i) \/ Close(i)

Task(i) ==
  \/ OpenConnects(i) \/ OpenFails(i) \/ OpenReplies(i)
  \/ TurnStreams(i) \/ TurnEnds(i) \/ FallsIdle(i)
  \/ AskDone(i) \/ AskFails(i)
  \/ AwaitTurn(i) \/ StopReturns(i) \/ SayClosed(i)

Reaper == ReaperSleeps \/ \E s \in Sid : ReaperScans(s) \/ ReaperGoesOn(s)

TearingDown ==
  \/ TeardownBegins \/ CancelDispatch \/ DrainTimesOut \/ ListSessions
  \/ TeardownEnds \/ \E i \in Inst : TeardownSession(i)

Next ==
  \/ \E i \in Inst : Envelope(i) \/ Task(i)
  \/ Reaper \/ Drop \/ TearingDown

(* Fairness: a task that can go on does, the SDK answers a disconnect, and *)
(* a cancelled turn comes to its end.  Nothing forces a running turn, a    *)
(* connect(), the bridge or the network.                                   *)
Fairness ==
  /\ \A i \in Inst : /\ WF_vars(AwaitTurn(i)) /\ WF_vars(StopReturns(i))
                     /\ WF_vars(SayClosed(i))
                     /\ WF_vars(turn[i] = "cancelled" /\ TurnEnds(i))
  /\ WF_vars(Reaper)
  /\ WF_vars(TeardownBegins) /\ WF_vars(CancelDispatch) /\ WF_vars(ListSessions)
  /\ WF_vars(TeardownEnds) /\ WF_vars(\E i \in Inst : TeardownSession(i))

Spec == Init /\ [][Next]_vars /\ Fairness

-----------------------------------------------------------------------------
(* Properties.                                                             *)

\* While the link is up no SDK client (a 170 MB subprocess) is orphaned: it is
\* in its sid's slot, where a close, the reaper or the teardown will find it, or
\* a closing task that waits for its turn is about to stop it.
ClientsAreOwned ==
  conn = "up" =>
    \A i \in Inst : Up(i) => \/ table[sid[i]] = i
                             \/ closer[i] = "turn"
                             \/ sid[i] \in hasty

\* No stream, TURN_END or OPENED of a session follows its CLOSED, which the bridge
\* would take for its successor's.  The error of a set_mode, set_model or interrupt
\* that was waiting for the SDK may.
ClosedIsLastWord ==
  \A i \in Inst :
    <<i, "open">> \in late \/ <<i, "turn">> \in late => sid[i] \in hasty

\* A teardown that runs to its end leaves no client up, whichever handlers it
\* interrupted; only a session whose turn died on the closed socket under
\* another task's close can be missed.
TeardownLeavesNothing ==
  teardown = "done" =>
    \A i \in Inst : Up(i) => turn[i] = "raised" \/ sid[i] \in hasty

\* A requested close is answered, unless the link goes down first.
CloseIsAnswered ==
  \A i \in Inst : closedBy[i] = "handler" ~> (i \in goodbye \/ conn = "closed")

\* After a drop the teardown comes to an end, unless the reaper was waiting for a
\* turn it had cancelled: there it suppresses the teardown's own cancellation.
TeardownTerminates ==
  (conn = "closed" /\ teardown = "no" /\ \A i \in Closing("reaper") : closer[i] # "turn")
    ~> teardown \in {"done", "aborted"}

\* A session does not stay idle, with no turn in flight, for good: the reaper
\* comes round to it, whatever it is busy with.
IdleIsReaped ==
  \A s \in Sid : Reapable(s) ~> (~Reapable(s) \/ conn = "closed")

=============================================================================
