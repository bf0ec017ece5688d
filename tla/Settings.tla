------------------------------ MODULE Settings ------------------------------
(***************************************************************************)
(* The settings of one session and the four places that hold them: the     *)
(* TopicSession, the SessionHandle's state, the row of the database        *)
(* (bridge/bot.py, bridge/menu.py, bridge/sessions.py) and the SDK that    *)
(* the runner drives.  Mode and model are changed on the running SDK;      *)
(* effort counts from the next open; thinking is saved and the session     *)
(* restarted, which is close() and open_session (bridge/runner_client.py). *)
(* After a drop the reader's side re-opens the session from the handle's   *)
(* state; after a crash the bridge opens it from the row.                  *)
(*                                                                         *)
(* Restarts do not overlap here, none begins while the SDK is starting,    *)
(* and the session is not idle for long enough to be reaped:               *)
(* SessionLifecycle and RunnerDaemon have what comes of those.             *)
(***************************************************************************)
EXTENDS Naturals, Sequences, FiniteSets

CONSTANTS Value,        \* values of a setting
          Default,      \* the one a new session has, and for thinking: on
          MaxChanges,   \* bound on changes and restarts asked for
          MaxFaults     \* bound on drops, crashes and refusals

ASSUME DefaultIsValue == Default \in Value
ASSUME BoundsAreNaturals == MaxChanges \in Nat /\ MaxFaults \in Nat

VARIABLES
  session,    \* the TopicSession's own settings
  handle,     \* the state of its SessionHandle
  closed,     \* handle.closed
  row,        \* the settings in its row of the database
  writes,     \* updates of the row, in the store's queue
  restart,    \* where the restart is, or the boot
  fresh,      \* the state of the handle that it opens
  freshClosed,  \* closed of that state
  tracked,    \* which of the two states is the link's _sessions entry
  opened,     \* opened of that state
  rejected,   \* its open_error
  link,       \* the WebSocket; "dialled" until the re-opens
  up, down,   \* envelopes to the runner and from it
  present,    \* the runner's session: "no", "starting" its SDK, "open"
  sdk,        \* the SDK's settings
  changes, faults,
  missed,     \* history: the SDK refused a change, or it came during an open
  unawaited   \* history: the runner opens what no open_session awaits

heldVars   == <<session, handle, closed>>
storeVars  == <<row, writes>>
openVars   == <<restart, fresh, freshClosed, tracked, opened, rejected>>
wireVars   == <<link, up, down>>
runnerVars == <<present, sdk>>
pastVars   == <<changes, faults, missed, unawaited>>
vars == <<heldVars, storeVars, openVars, wireVars, runnerVars, pastVars>>

Live  == {"mode", "model"}
Field == Live \cup {"effort", "thinking"}

OfSession == {"model", "effort", "thinking"}   \* TopicSession
OfState   == {"mode", "model", "effort"}       \* _SessionState

Request == [type : {"set"}, field : Live, value : Value]
           \cup [type : {"open"}, settings : [Field -> Value]]
           \cup [type : {"close"}]

TypeOK ==
  /\ session \in [OfSession -> Value]
  /\ handle \in [OfState -> Value] /\ closed \in BOOLEAN
  /\ row \in [Field -> Value]
  /\ writes \in Seq([field : Field, value : Value])
  /\ restart \in {"idle", "saving", "due", "closing", "opening", "crashed", "booting",
                  "gone"}
  /\ fresh \in [OfState -> Value] /\ freshClosed \in BOOLEAN
  /\ tracked \in {"none", "handle", "fresh"}
  /\ opened \in BOOLEAN /\ rejected \in BOOLEAN
  /\ link \in {"up", "down", "dialled"}
  /\ up \in Seq(Request) /\ down \in Seq({"opened", "error", "closed"})
  /\ present \in {"no", "starting", "open"} /\ sdk \in [Field -> Value]
  /\ changes \in 0 .. MaxChanges /\ faults \in 0 .. MaxFaults
  /\ missed \in BOOLEAN /\ unawaited \in BOOLEAN

All(fields) == [f \in fields |-> Default]

Init ==
  /\ session = All(OfSession) /\ handle = All(OfState) /\ closed = FALSE
  /\ row = All(Field) /\ writes = <<>>
  /\ restart = "idle" /\ fresh = All(OfState) /\ freshClosed = FALSE
  /\ tracked = "handle"
  /\ opened = TRUE /\ rejected = FALSE
  /\ link = "up" /\ up = <<>> /\ down = <<>>
  /\ present = "open" /\ sdk = All(Field)
  /\ changes = 0 /\ faults = 0 /\ missed = FALSE /\ unawaited = FALSE

Connected == link # "down"
InTable   == restart \in {"idle", "saving", "due", "closing", "opening"}
Steady    == present # "starting" /\ \A i \in DOMAIN up : up[i].type # "open"

Opening   == restart \in {"opening", "booting"}

Fault == faults < MaxFaults /\ faults' = faults + 1

-----------------------------------------------------------------------------
(* Commands and buttons.  Each is a task of its own; what it asks of the     *)
(* store is done in the order asked.                                         *)

Asked == InTable /\ changes < MaxChanges /\ changes' = changes + 1

Saves(f, v) == writes' = Append(writes, [field |-> f, value |-> v])

\* Bug: the handle is not told what it sent.
ChangeSentOnly(f, v) ==
  /\ Asked /\ Connected
  /\ up' = Append(up, [type |-> "set", field |-> f, value |-> v])
  /\ session' = IF f \in OfSession THEN [session EXCEPT ![f] = v] ELSE session
  /\ Saves(f, v)
  /\ missed' = (missed \/ restart = "opening")
  /\ UNCHANGED <<handle, closed, row, openVars, link, down, runnerVars, faults, unawaited>>

\* /permissions and /model, or their buttons: sent, kept by the handle, saved.
\* Whoever asks while a restart is opening has the old handle.  Who sends has the
\* link's lock until the send is over and, in the same step, the handle told.
Change(f, v) ==
  /\ Asked /\ Connected
  /\ up' = Append(up, [type |-> "set", field |-> f, value |-> v])
  /\ handle' = [handle EXCEPT ![f] = v]
  /\ session' = IF f \in OfSession THEN [session EXCEPT ![f] = v] ELSE session
  /\ Saves(f, v)
  /\ missed' = (missed \/ restart = "opening")
  /\ UNCHANGED <<closed, row, openVars, link, down, runnerVars, faults, unawaited>>

\* /effort or its button: for the next open.
SetEffort(v) ==
  /\ Asked
  /\ session' = [session EXCEPT !["effort"] = v]
  /\ Saves("effort", v)
  /\ UNCHANGED <<handle, closed, row, openVars, wireVars, runnerVars, faults, missed,
                 unawaited>>

\* /think or its button: saved first, then the restart.
Think(v) ==
  /\ Asked /\ v # session["thinking"]
  /\ restart = "idle" /\ restart' = "saving"
  /\ session' = [session EXCEPT !["thinking"] = v]
  /\ Saves("thinking", v)
  /\ UNCHANGED <<handle, closed, row, fresh, freshClosed, tracked, opened, rejected,
                 wireVars, runnerVars, faults, missed, unawaited>>

\* The store's thread, and the command that awaited it.
Written ==
  LET w == Head(writes) IN
  /\ writes # <<>> /\ writes' = Tail(writes)
  /\ row' = [row EXCEPT ![w.field] = w.value]
  /\ restart' = IF w.field = "thinking" THEN "due" ELSE restart
  /\ UNCHANGED <<heldVars, fresh, freshClosed, tracked, opened, rejected, wireVars,
                 runnerVars, pastVars>>

-----------------------------------------------------------------------------
(* _restart_session.                                                       *)

\* Bug: an open that leaves thinking to the runner.
OpenWithoutThinking ==
  [f \in Field |-> CASE f = "mode" -> handle[f]
                     [] f = "thinking" -> Default
                     [] OTHER -> session[f]]

\* What the T_OPEN of a restart asks for.
OpenWith == [f \in Field |-> IF f = "mode" THEN handle[f] ELSE session[f]]

\* open_session, up to its wait: refused when the sid is tracked, and without a link
\* the send raises, the state tracked already.
OpenSession(entry) ==
  IF entry # "none"
    THEN /\ restart' = "idle" /\ tracked' = entry
         /\ UNCHANGED <<fresh, freshClosed, opened, rejected, up>>
    ELSE /\ fresh' = [f \in OfState |-> OpenWith[f]] /\ freshClosed' = FALSE
         /\ tracked' = "fresh" /\ opened' = FALSE /\ rejected' = FALSE
         /\ restart' = IF Connected THEN "opening" ELSE "idle"
         /\ up' = IF Connected
                    THEN Append(up, [type |-> "open", settings |-> OpenWith])
                    ELSE up

\* Asked for, or due; close() sends T_CLOSE, unless the handle is closed or has no link.
BeginRestart ==
  /\ (restart = "idle" /\ Asked) \/ (restart = "due" /\ UNCHANGED changes)
  /\ Steady
  /\ IF closed \/ ~Connected
       THEN OpenSession(tracked)
       ELSE /\ restart' = "closing"
            /\ up' = Append(up, [type |-> "close"])
            /\ UNCHANGED <<fresh, freshClosed, tracked, opened, rejected>>
  /\ UNCHANGED <<heldVars, storeVars, link, down, runnerVars, faults, missed, unawaited>>

\* CLOSED came, or 5 s went by.
CloseEnds ==
  /\ restart = "closing"
  /\ OpenSession("none")
  /\ UNCHANGED <<heldVars, storeVars, link, down, runnerVars, pastVars>>

\* The open is acknowledged, and the session has the new handle; at boot, restore
\* builds the session from the row.
OpenReturns ==
  /\ Opening /\ restart' = "idle"
  /\ tracked = "fresh" /\ opened /\ ~rejected
  /\ tracked' = "handle" /\ handle' = fresh /\ closed' = freshClosed
  /\ session' = IF restart = "booting" THEN [f \in OfSession |-> row[f]] ELSE session
  /\ UNCHANGED <<storeVars, fresh, freshClosed, opened, rejected, wireVars, runnerVars,
                 pastVars>>

\* It is rejected, or 30 s went by: the restart failed, or the row is orphaned.
OpenRaises ==
  /\ Opening
  /\ restart' = IF restart = "booting" THEN "gone" ELSE "idle"
  /\ tracked' = "none"
  /\ unawaited' = (unawaited \/ ~Steady \/ present = "open")
  /\ UNCHANGED <<heldVars, storeVars, fresh, freshClosed, opened, rejected, wireVars,
                 runnerVars, changes, faults, missed>>

-----------------------------------------------------------------------------
(* The link.                                                               *)

\* The reader: an error that finds opened cleared is the open's.  A CLOSED that was
\* requested closes the state that is tracked now, and leaves it there: close() drops
\* it, if it still waits; else it is the one of the open that followed.
Deliver ==
  LET e == Head(down) IN
  /\ down # <<>> /\ down' = Tail(down)
  /\ IF e = "opened" \/ (e = "error" /\ ~opened)
       THEN /\ opened' = (opened \/ tracked # "none")
            /\ rejected' = (rejected \/ (e = "error" /\ tracked # "none"))
       ELSE UNCHANGED <<opened, rejected>>
  /\ closed' = (closed \/ (e = "closed" /\ tracked = "handle"))
  /\ freshClosed' = (freshClosed \/ (e = "closed" /\ tracked = "fresh"))
  /\ UNCHANGED <<session, handle, storeVars, restart, fresh, tracked, link, up,
                 runnerVars, pastVars>>

\* Both ends lose it; the runner tears its sessions down.
Unlink == link' = "down" /\ up' = <<>> /\ down' = <<>> /\ present' = "no"

Drop ==
  /\ Connected /\ Fault
  /\ Unlink
  /\ UNCHANGED <<heldVars, storeVars, openVars, sdk, changes, missed, unawaited>>

Dial ==
  /\ link = "down" /\ restart \notin {"crashed", "gone"}
  /\ link' = "dialled"
  /\ UNCHANGED <<heldVars, storeVars, openVars, up, down, runnerVars, pastVars>>

\* Bug: and nobody fills it in.
ReopenWithLess ==
  LET state == IF tracked = "fresh" THEN fresh ELSE handle IN
  [f \in OfState |-> state[f]]

\* What the T_OPEN of a re-open asks for: thinking is not in it, which the runner
\* takes for on.
ReopenWith ==
  LET state == IF tracked = "fresh" THEN fresh ELSE handle IN
  [f \in Field |-> IF f \in OfState THEN state[f] ELSE Default]

\* _reopen_sessions.
Reopen ==
  /\ link = "dialled" /\ link' = "up"
  /\ IF tracked = "none"
       THEN UNCHANGED <<opened, rejected, up, missed, unawaited>>
       ELSE /\ opened' = FALSE /\ rejected' = FALSE
            /\ up' = Append(up, [type |-> "open", settings |-> ReopenWith])
            /\ unawaited' = TRUE
            /\ missed' = (missed \/ (tracked = "fresh" /\ ~Opening))
  /\ UNCHANGED <<heldVars, storeVars, restart, fresh, freshClosed, tracked, down,
                 runnerVars, changes, faults>>

\* The loop over the sessions has read the settings of this one, and its T_OPEN waits
\* for the link's lock; a change that has waited longer, since the T_OPEN of another
\* session held it, is sent first.
ReopenBehindChange(f, v) ==
  /\ Asked
  /\ link = "dialled" /\ link' = "up"
  /\ tracked # "none"
  /\ opened' = FALSE /\ rejected' = FALSE
  /\ up' = up \o <<[type |-> "set", field |-> f, value |-> v],
                   [type |-> "open", settings |-> ReopenWith]>>
  /\ handle' = [handle EXCEPT ![f] = v]
  /\ session' = IF f \in OfSession THEN [session EXCEPT ![f] = v] ELSE session
  /\ Saves(f, v)
  /\ missed' = TRUE /\ unawaited' = TRUE
  /\ UNCHANGED <<closed, row, restart, fresh, freshClosed, tracked, down, runnerVars,
                 faults>>

-----------------------------------------------------------------------------
(* The bridge dies, and boots.                                             *)

\* Updates that the store has not done are lost.
Crash ==
  /\ InTable /\ Fault
  /\ Unlink
  /\ restart' = "crashed" /\ tracked' = "none" /\ writes' = <<>>
  /\ UNCHANGED <<heldVars, row, fresh, freshClosed, opened, rejected, sdk, changes, missed,
                 unawaited>>

\* restore, which asks for what the row says.
Boot ==
  /\ restart = "crashed" /\ restart' = "booting"
  /\ link' = "up"
  /\ fresh' = [f \in OfState |-> row[f]] /\ freshClosed' = FALSE
  /\ tracked' = "fresh" /\ opened' = FALSE /\ rejected' = FALSE
  /\ up' = Append(up, [type |-> "open", settings |-> row])
  /\ missed' = FALSE /\ unawaited' = FALSE
  /\ UNCHANGED <<heldVars, storeVars, down, runnerVars, changes, faults>>

-----------------------------------------------------------------------------
(* The runner.  Requests are dispatched in order, each in a task of its own.  *)

Handles(k) == Connected /\ up # <<>> /\ Head(up).type = k /\ up' = Tail(up)
Reports(e) == down' = Append(down, e)

\* _handle_set_mode and _handle_set_model: done; or there is no session, or its SDK
\* has not started, or refuses.
HandleSet ==
  LET r == Head(up) IN
  /\ Handles("set")
  /\ \/ /\ present = "open"
        /\ sdk' = [sdk EXCEPT ![r.field] = r.value]
        /\ UNCHANGED <<down, faults, missed>>
     \/ /\ present = "no"
        /\ Reports("error") /\ UNCHANGED <<sdk, faults, missed>>
     \/ /\ present = "starting"
        /\ Reports("error") /\ missed' = TRUE
        /\ UNCHANGED <<sdk, faults>>
     \/ /\ present = "open" /\ Fault
        /\ Reports("error") /\ missed' = TRUE
        /\ UNCHANGED sdk
  /\ UNCHANGED <<heldVars, storeVars, openVars, link, present, changes, unawaited>>

\* _handle_open takes the slot, unless it is taken ...
HandleOpen ==
  /\ Handles("open")
  /\ IF present = "no"
       THEN present' = "starting" /\ sdk' = Head(up).settings /\ UNCHANGED down
       ELSE Reports("error") /\ UNCHANGED runnerVars
  /\ UNCHANGED <<heldVars, storeVars, openVars, link, pastVars>>

\* ... and the SDK has started, or will not.
StartReturns ==
  /\ Connected /\ present = "starting"
  /\ \/ present' = "open" /\ Reports("opened")
     \/ present' = "no" /\ Reports("error")
  /\ UNCHANGED <<heldVars, storeVars, openVars, link, up, sdk, pastVars>>

HandleClose ==
  /\ Handles("close")
  /\ IF present = "no"
       THEN UNCHANGED <<present, down>>
       ELSE present' = "no" /\ Reports("closed")
  /\ UNCHANGED <<heldVars, storeVars, openVars, link, sdk, pastVars>>

-----------------------------------------------------------------------------

\* A command, or a button of the action card, which takes the same steps.
Command ==
  \E v \in Value :
    \/ \E f \in Live : Change(f, v) \/ ReopenBehindChange(f, v)
    \/ SetEffort(v) \/ Think(v)

Next ==
  \/ Command
  \/ Written
  \/ BeginRestart \/ CloseEnds \/ OpenReturns \/ OpenRaises
  \/ Deliver \/ Drop \/ Dial \/ Reopen
  \/ Crash \/ Boot
  \/ HandleSet \/ HandleOpen \/ StartReturns \/ HandleClose

Spec == Init /\ [][Next]_vars

-----------------------------------------------------------------------------
(* Properties.                                                             *)

\* The session is open, and nothing that was asked for is still under way.
Settled ==
  /\ restart = "idle" /\ tracked = "handle" /\ opened
  /\ link = "up" /\ up = <<>> /\ down = <<>> /\ writes = <<>>
  /\ present = "open"

\* Once all is settled the SDK runs in the mode and on the model that the bridge shows
\* and the row holds, whatever drops, restarts and crashes came between; unless the SDK
\* refused a change, or it was asked for as the session was being opened.
SettingsAgree ==
  (Settled /\ ~missed) => \A f \in Live : sdk[f] = handle[f] /\ sdk[f] = row[f]

\* It thinks or not as the session says, whatever opens failed, timed out or were
\* overtaken by a late CLOSED; as long as the runner opened only what an open_session
\* awaited: no re-open after a drop, and none that had raised already.  A handle that
\* is closed is left out: a CLOSED that came after its close() had given up closes the
\* next one, which then refuses every message and, being tracked, every restart.
ThinkingApplies ==
  (Settled /\ ~unawaited /\ ~closed) => sdk["thinking"] = session["thinking"]

=============================================================================
