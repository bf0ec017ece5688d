----------------------------- MODULE Approvals -----------------------------
(***************************************************************************)
(* One session's tool approvals, end to end: the SDK's can_use_tool        *)
(* callback and its future (SessionRunner of sdk_adapter/adapter.py), the  *)
(* permission_request and decide envelopes, the cards with their buttons   *)
(* and the rows that survive the bridge (PermissionsUI of                  *)
(* bridge/permissions_ui.py, pending_permissions of store/db.py).          *)
(*                                                                         *)
(* The coroutines interleave at their awaits: the callback of each         *)
(* request, the link's reader, which renders one card at a time, the       *)
(* handler of each tap, the sweep that expires old cards, and /restart.    *)
(* Telegram may fail any call; the link may break, the bridge may crash,   *)
(* at any time, and rows and cards are what is left.                       *)
(***************************************************************************)
EXTENDS Naturals

CONSTANTS Req,        \* tool_use ids, each used once
          Tool,       \* tool names
          ToolOf,     \* the tool each request asks for
          AutoAllow   \* tools of the user's /allow list

ASSUME ToolsAreKnown == ToolOf \in [Req -> Tool] /\ AutoAllow \subseteq Tool

VARIABLES
  session,     \* the runner's: "open", "closing" = its T_CLOSE is under way, "none"
  current,     \* requests made by the present SessionRunner
  remembered,  \* its _remembered_allows
  callback,    \* _can_use_tool of each request: what it awaits, or how it ended
  future,      \* its entry of SessionRunner._pending
  link,        \* the WebSocket, as it is: the reader may yet have to notice
  requests,    \* permission_request envelopes on the wire or unread
  decides,     \* decide envelopes on the wire
  phase,       \* the bridge: "boot" = in expire_orphans, "run"
  render,      \* render_card of each request: what the reader awaits in it
  entries,     \* PermissionsUI._pending
  tap,         \* handle_callback that popped the entry: what it awaits
  sweep,       \* expire_stale or expire_orphans: listed, or what it awaits there
  undecided,   \* requests with a pending_permissions row without decided_at
  expired,     \* requests whose card in the topic says EXPIRED
  verdict      \* history: what the bridge decided for each request

runnerVars == <<session, current, remembered, callback, future>>
wireVars   == <<link, requests, decides>>
uiVars     == <<render, entries, tap, sweep>>
lastingVars == <<undecided, expired>>
vars == <<runnerVars, wireVars, phase, uiVars, lastingVars, verdict>>

Verdict == {"allow", "always", "deny"}

TypeOK ==
  /\ session \in {"open", "closing", "none"}
  /\ current \subseteq Req
  /\ remembered \subseteq Tool
  /\ callback \in [Req -> {"idle", "asking", "waiting", "ran", "refused"}]
  /\ future \in [Req -> {"none", "open"} \cup Verdict]
  /\ link \in {"up", "down"}
  /\ requests \subseteq Req
  /\ decides \subseteq Req \X Verdict
  /\ phase \in {"boot", "run"}
  /\ render \in [Req -> {"no", "sending", "saving"}]
  /\ entries \subseteq Req
  /\ tap \in [Req -> {"no", "answering", "editing"}]
  /\ sweep \in [Req -> {"no", "listed", "editing"}]
  /\ undecided \subseteq Req
  /\ expired \subseteq Req
  /\ verdict \in [Req -> {"none"} \cup Verdict]

Init ==
  /\ session = "open" /\ current = {} /\ remembered = {}
  /\ callback = [r \in Req |-> "idle"]
  /\ future = [r \in Req |-> "none"]
  /\ link = "up" /\ requests = {} /\ decides = {}
  /\ phase = "run"
  /\ render = [r \in Req |-> "no"]
  /\ entries = {}
  /\ tap = [r \in Req |-> "no"]
  /\ sweep = [r \in Req |-> "no"]
  /\ undecided = {}
  /\ expired = {}
  /\ verdict = [r \in Req |-> "none"]

-----------------------------------------------------------------------------
(* The callback, on the runner.                                            *)

\* A tool the user always allows in this session runs without a card.
AutoRun(r) ==
  /\ session = "open" /\ phase = "run"
  /\ callback[r] = "idle"
  /\ ToolOf[r] \in remembered
  /\ callback' = [callback EXCEPT ![r] = "ran"]
  /\ UNCHANGED <<session, current, remembered, future, wireVars, phase, uiVars,
                 lastingVars, verdict>>

\* _can_use_tool up to its call of on_permission_request.
Ask(r) ==
  /\ session = "open" /\ phase = "run"
  /\ callback[r] = "idle"
  /\ ToolOf[r] \notin remembered
  /\ callback' = [callback EXCEPT ![r] = "asking"]
  /\ future' = [future EXCEPT ![r] = "open"]
  /\ current' = current \cup {r}
  /\ UNCHANGED <<session, remembered, wireVars, phase, uiVars, lastingVars, verdict>>

RequestSent(r) ==
  /\ callback[r] = "asking"
  /\ link = "up" /\ r \in current
  /\ callback' = [callback EXCEPT ![r] = "waiting"]
  /\ requests' = requests \cup {r}
  /\ UNCHANGED <<session, current, remembered, future, link, decides, phase, uiVars,
                 lastingVars, verdict>>

\* The future has a result.  A stopped SessionRunner's remembered tools are
\* nobody's any more.
Return(r) ==
  /\ callback[r] = "waiting"
  /\ future[r] \in Verdict
  /\ callback' = [callback EXCEPT ![r] = IF future[r] = "deny" THEN "refused" ELSE "ran"]
  /\ remembered' = IF future[r] = "always" /\ r \in current
                     THEN remembered \cup {ToolOf[r]} ELSE remembered
  /\ future' = [future EXCEPT ![r] = "none"]
  /\ UNCHANGED <<session, current, wireVars, phase, uiVars, lastingVars, verdict>>

\* Bug: a callback gives up on its own.
CancelledEarly(r) ==
  /\ callback[r] \in {"asking", "waiting"}
  /\ callback' = [callback EXCEPT ![r] = "refused"]
  /\ future' = [future EXCEPT ![r] = "none"]
  /\ UNCHANGED <<session, current, remembered, wireVars, phase, uiVars, lastingVars,
                 verdict>>

\* The session is gone: a request under way raises, which denies it, and the SDK's
\* disconnect cancels a callback that waits.
Cancelled(r) ==
  /\ callback[r] \in {"asking", "waiting"}
  /\ r \notin current
  /\ callback' = [callback EXCEPT ![r] = "refused"]
  /\ future' = [future EXCEPT ![r] = "none"]
  /\ UNCHANGED <<session, current, remembered, wireVars, phase, uiVars, lastingVars,
                 verdict>>

\* resolve_permission: only an open future takes a result.
Resolve(f, r, v) == IF f[r] = "open" THEN [f EXCEPT ![r] = v] ELSE f

\* Bug: futures are kept per session, not per tool_use id.
HandleDecideForAll(r, v) ==
  /\ link = "up"
  /\ <<r, v>> \in decides
  /\ decides' = decides \ {<<r, v>>}
  /\ future' = [q \in Req |-> IF q \in current /\ future[q] = "open" THEN v ELSE future[q]]
  /\ UNCHANGED <<session, current, remembered, callback, link, requests, phase, uiVars,
                 lastingVars, verdict>>

\* _handle_decide.  The session under the sid may be a new one that knows nothing
\* of the request.
HandleDecide(r, v) ==
  /\ link = "up"
  /\ <<r, v>> \in decides
  /\ decides' = decides \ {<<r, v>>}
  /\ future' = IF r \in current THEN Resolve(future, r, v) ELSE future
  /\ UNCHANGED <<session, current, remembered, callback, link, requests, phase, uiVars,
                 lastingVars, verdict>>

-----------------------------------------------------------------------------
(* The card.                                                               *)

\* SessionHandle.resolve_permission: the decide envelope goes out; on a link that
\* is down it is lost if the reader has not noticed, else the send raises.
SendDecide(r, v) ==
  /\ verdict' = [verdict EXCEPT ![r] = v]
  /\ decides' = IF link = "up" THEN decides \cup {<<r, v>>} ELSE decides

SendRaises ==
  /\ link = "down"
  /\ UNCHANGED <<verdict, decides>>

\* The reader takes the next permission_request; it renders one card at a time.
BeginCard(r) ==
  /\ r \in requests
  /\ \A q \in Req : render[q] = "no"
  /\ requests' = requests \ {r}
  /\ render' = [render EXCEPT ![r] = "sending"]
  /\ UNCHANGED <<runnerVars, link, decides, phase, entries, tap, sweep, lastingVars, verdict>>

\* Between a session's CLOSED and the next open of its sid the link knows of none.
DropRequest(r) ==
  /\ r \in requests
  /\ session = "none" /\ link = "up"
  /\ requests' = requests \ {r}
  /\ UNCHANGED <<runnerVars, link, decides, phase, uiVars, lastingVars, verdict>>

\* send_message returns, and the entry is made; no tap does anything before.
CardSent(r) ==
  /\ render[r] = "sending"
  /\ render' = [render EXCEPT ![r] = "saving"]
  /\ entries' = entries \cup {r}
  /\ UNCHANGED <<runnerVars, wireVars, phase, tap, sweep, lastingVars, verdict>>

\* TelegramBadRequest: deny, "so the SDK doesn't hang forever".
CardRefused(r) ==
  /\ render[r] = "sending"
  /\ render' = [render EXCEPT ![r] = "no"]
  /\ SendDecide(r, "deny") \/ SendRaises
  /\ UNCHANGED <<runnerVars, link, requests, phase, entries, tap, sweep, lastingVars>>

\* Any other exception, the card posted or not, goes to the reader, which logs it.
CardFails(r) ==
  /\ render[r] = "sending"
  /\ render' = [render EXCEPT ![r] = "no"]
  /\ UNCHANGED <<runnerVars, wireVars, phase, entries, tap, sweep, lastingVars, verdict>>

\* insert_pending_permission; when it raises, there is no row.
CardSaved(r) ==
  /\ render[r] = "saving"
  /\ render' = [render EXCEPT ![r] = "no"]
  /\ undecided' \in {undecided, undecided \cup {r}}
  /\ UNCHANGED <<runnerVars, wireVars, phase, entries, tap, sweep, expired, verdict>>

-----------------------------------------------------------------------------
(* A tap: handle_callback.                                                 *)

\* Bug: the entry is dropped after the decision is sent, by whoever comes last.
TapKeepsEntry(r, v) ==
  /\ phase = "run"
  /\ r \in entries
  /\ \/ SendDecide(r, v) /\ tap' = [tap EXCEPT ![r] = "answering"]
     \/ SendRaises /\ UNCHANGED tap
  /\ UNCHANGED <<runnerVars, link, requests, phase, render, entries, sweep, lastingVars>>

\* The entry is popped before anything is awaited: a second tap finds none.
Tap(r, v) ==
  /\ phase = "run"
  /\ r \in entries
  /\ entries' = entries \ {r}
  /\ \/ SendDecide(r, v) /\ tap' = [tap EXCEPT ![r] = "answering"]
     \/ SendRaises /\ UNCHANGED tap
  /\ UNCHANGED <<runnerVars, link, requests, phase, render, sweep, lastingVars>>

\* query.answer and delete_pending_permission.  When the first raises, row and card
\* stay as they are; when the second does, the row stays.  The database serves one
\* statement at a time, so the insert comes first.
TapDeletes(r) ==
  /\ tap[r] = "answering"
  /\ render[r] # "saving"
  /\ \/ tap' = [tap EXCEPT ![r] = "no"] /\ UNCHANGED undecided
     \/ /\ tap' = [tap EXCEPT ![r] = "editing"]
        /\ undecided' \in {undecided, undecided \ {r}}
  /\ UNCHANGED <<runnerVars, wireVars, phase, render, entries, sweep, expired, verdict>>

\* The final text, unless the edit fails.
TapEdits(r) ==
  /\ tap[r] = "editing"
  /\ tap' = [tap EXCEPT ![r] = "no"]
  /\ expired' \in {expired, expired \ {r}}
  /\ UNCHANGED <<runnerVars, wireVars, phase, render, entries, sweep, undecided, verdict>>

-----------------------------------------------------------------------------
(* Expiry: expire_stale of the idle check, expire_orphans at boot.         *)

\* list_undecided_permissions: of the undecided rows, those that are old enough.
SweepLists(S) ==
  /\ phase = "run"
  /\ \A q \in Req : sweep[q] = "no"
  /\ S \subseteq undecided /\ S # {}
  /\ sweep' = [r \in Req |-> IF r \in S THEN "listed" ELSE "no"]
  /\ UNCHANGED <<runnerVars, wireVars, phase, render, entries, tap, lastingVars, verdict>>

\* Bug: the entry is read, not popped.
SweepGets(r) ==
  /\ sweep[r] = "listed"
  /\ \A q \in Req : sweep[q] \in {"no", "listed"}
  /\ sweep' = [sweep EXCEPT ![r] = "editing"]
  /\ IF r \in entries THEN SendDecide(r, "deny") \/ SendRaises
                      ELSE UNCHANGED <<verdict, decides>>
  /\ UNCHANGED <<runnerVars, link, requests, phase, render, entries, tap, lastingVars>>

\* Bug: only the card is dealt with, not the request.
SweepCardOnly(r) ==
  /\ sweep[r] = "listed"
  /\ \A q \in Req : sweep[q] \in {"no", "listed"}
  /\ sweep' = [sweep EXCEPT ![r] = "editing"]
  /\ entries' = entries \ {r}
  /\ UNCHANGED <<runnerVars, wireVars, phase, render, tap, lastingVars, verdict>>

\* The loop's next row.  An entry is popped and its request denied; what that
\* raises is logged.  At boot there are no entries.
SweepTakes(r) ==
  /\ sweep[r] = "listed"
  /\ \A q \in Req : sweep[q] \in {"no", "listed"}
  /\ sweep' = [sweep EXCEPT ![r] = "editing"]
  /\ entries' = entries \ {r}
  /\ IF r \in entries THEN SendDecide(r, "deny") \/ SendRaises
                      ELSE UNCHANGED <<verdict, decides>>
  /\ UNCHANGED <<runnerVars, link, requests, phase, render, tap, lastingVars>>

\* Bug: a card that cannot be edited is skipped, row and all.
SweepSkips(r) ==
  /\ sweep[r] = "editing"
  /\ sweep' = [sweep EXCEPT ![r] = "no"]
  /\ \/ expired' = expired \cup {r} /\ undecided' = undecided \ {r}
     \/ UNCHANGED lastingVars
  /\ UNCHANGED <<runnerVars, wireVars, phase, render, entries, tap, verdict>>

\* The card is EXPIRED, whatever it said, TelegramBadRequest being passed over; and
\* mark_permission_decided, which updates nothing if the row was deleted.
SweepEdits(r) ==
  /\ sweep[r] = "editing"
  /\ sweep' = [sweep EXCEPT ![r] = "no"]
  /\ expired' \in {expired, expired \cup {r}}
  /\ undecided' = undecided \ {r}
  /\ UNCHANGED <<runnerVars, wireVars, phase, render, entries, tap, verdict>>

\* Any other exception ends the tick; the rows left wait for the next one.
SweepFails(r) ==
  /\ sweep[r] = "editing" /\ phase = "run"
  /\ sweep' = [q \in Req |-> "no"]
  /\ UNCHANGED <<runnerVars, wireVars, phase, render, entries, tap, lastingVars, verdict>>

\* Boot is over: polling, and with it taps and turns, begins.
Ready ==
  /\ phase = "boot"
  /\ \A q \in Req : sweep[q] = "no"
  /\ phase' = "run"
  /\ UNCHANGED <<runnerVars, wireVars, uiVars, lastingVars, verdict>>

-----------------------------------------------------------------------------
(* Sessions, links and bridges come and go.                                *)

\* Bug: the entries are dropped, and the session is left as it is.
RestartForgets ==
  /\ phase = "run"
  /\ entries' = {}
  /\ UNCHANGED <<runnerVars, wireVars, phase, render, tap, sweep, lastingVars, verdict>>

\* _restart_session: cancel_pending_for, then T_CLOSE behind the decides sent.
\* Without a link that fails, and so does the open that follows.
Restart ==
  /\ phase = "run"
  /\ session' = IF link = "up" /\ session = "open" THEN "closing" ELSE session
  /\ entries' = {}
  /\ UNCHANGED <<current, remembered, callback, future, wireVars, phase, render, tap,
                 sweep, lastingVars, verdict>>

\* Bug: stop() leaves a result the callback does not know.
StopUnknown(f) ==
  [r \in Req |-> IF r \in current /\ f[r] = "open" THEN "stopped" ELSE f[r]]

\* stop() of a SessionRunner: every open future is a denial.
Stop(f) ==
  [r \in Req |-> IF r \in current /\ f[r] = "open" THEN "deny" ELSE f[r]]

SessionGone ==
  /\ session' = "none"
  /\ current' = {}
  /\ remembered' = {}

StopSession ==
  /\ session = "closing"
  /\ decides = {}
  /\ SessionGone
  /\ future' = Stop(future)
  /\ UNCHANGED <<callback, wireVars, phase, uiVars, lastingVars, verdict>>

\* The rest of _restart_session: the new SessionRunner knows the /allow list.
Reopen ==
  /\ phase = "run" /\ link = "up" /\ session = "none"
  /\ session' = "open"
  /\ remembered' = AutoAllow
  /\ UNCHANGED <<current, callback, future, wireVars, phase, uiVars, lastingVars, verdict>>

\* The runner's socket is closed: its sessions are torn down, though a turn that
\* raises leaves some unstopped.
RunnerTearsDown ==
  /\ SessionGone
  /\ future' \in {Stop(future), future}
  /\ UNCHANGED callback

\* What the reader had in its buffer is still read.
Break ==
  /\ link = "up"
  /\ link' = "down"
  /\ decides' = {}
  /\ requests' \in SUBSET requests
  /\ RunnerTearsDown
  /\ UNCHANGED <<phase, uiVars, lastingVars, verdict>>

\* _reopen_sessions, or restore_sessions at boot: without the /allow list.  The
\* reader notices a break after the last buffered envelope, and its card.
Reconnect ==
  /\ link = "down"
  /\ requests = {}
  /\ \A q \in Req : render[q] = "no"
  /\ link' = "up"
  /\ session' = "open"
  /\ remembered' = {}
  /\ UNCHANGED <<current, callback, future, requests, decides, phase, uiVars,
                 lastingVars, verdict>>

\* The bridge dies, and the runner sees its link close; the next bridge begins by
\* listing every undecided row.
Crash ==
  /\ phase' = "boot"
  /\ link' = "down" /\ requests' = {} /\ decides' = {}
  /\ render' = [r \in Req |-> "no"]
  /\ entries' = {}
  /\ tap' = [r \in Req |-> "no"]
  /\ sweep' = [r \in Req |-> IF r \in undecided THEN "listed" ELSE "no"]
  /\ RunnerTearsDown
  /\ UNCHANGED <<lastingVars, verdict>>

-----------------------------------------------------------------------------

Callback(r) ==
  \/ AutoRun(r) \/ Ask(r) \/ RequestSent(r) \/ Return(r) \/ Cancelled(r)
  \/ \E v \in Verdict : HandleDecide(r, v)

Card(r) ==
  \/ DropRequest(r)
  \/ BeginCard(r) \/ CardSent(r) \/ CardRefused(r) \/ CardFails(r)
  \/ CardSaved(r)

Tapped(r) ==
  \/ \E v \in Verdict : Tap(r, v)
  \/ TapDeletes(r) \/ TapEdits(r)

Sweep(r) == SweepTakes(r) \/ SweepEdits(r) \/ SweepFails(r)

Next ==
  \/ \E r \in Req : Callback(r) \/ Card(r) \/ Tapped(r) \/ Sweep(r)
  \/ \E S \in SUBSET Req : SweepLists(S)
  \/ Ready
  \/ Restart \/ StopSession \/ Reopen
  \/ Break \/ Reconnect \/ Crash

\* What the event loops schedule: a coroutine whose await returned runs on, and
\* an envelope sent is delivered while the link holds.  The sweep comes round
\* and gets through in the end, however often it fails or the bridge restarts.
\* Nothing is assumed of the user, who may never tap.
Fairness ==
  /\ WF_vars(StopSession) /\ WF_vars(Ready)
  /\ \A r \in Req :
       /\ WF_vars(RequestSent(r) \/ Return(r))
       /\ WF_vars(\E v \in Verdict : HandleDecide(r, v))
       /\ WF_vars(CardSent(r) \/ CardRefused(r) \/ CardFails(r) \/ CardSaved(r))
       /\ WF_vars(TapDeletes(r) \/ TapEdits(r))
       /\ SF_vars(BeginCard(r))
       /\ SF_vars(\E S \in SUBSET Req : r \in S /\ SweepLists(S))
       /\ SF_vars(SweepTakes(r)) /\ SF_vars(SweepEdits(r))

Spec == Init /\ [][Next]_vars /\ Fairness

-----------------------------------------------------------------------------
(* Properties.                                                             *)

Gate == INSTANCE ApprovalGate WITH
          outcome <- [r \in Req |-> IF callback[r] \in {"ran", "refused"}
                                      THEN callback[r] ELSE "none"],
          consent <- verdict,
          present <- current,
          trusted <- remembered

\* A tool runs only by a decision taken for that very request, or because its
\* tool is trusted in this very session: whatever is lost, late or repeated.
GateHolds == Gate!Spec

\* The envelopes and the results of futures are the decision taken, and there is
\* one per request: taps, expiry and failed cards never decide it twice.
OneDecision ==
  /\ \A r \in Req, v \in Verdict : <<r, v>> \in decides => verdict[r] = v
  /\ \A r \in current : future[r] \in Verdict => future[r] = verdict[r]

\* A registered card can still decide: its buttons were never used, and if the
\* session that asked is there, its future is open.
EntriesCanDecide ==
  \A r \in entries :
    /\ verdict[r] = "none"
    /\ r \in current => future[r] = "open"

\* While the session lives, a decision that was taken is on its way to the
\* future, in it, or carried out.
DecisionArrives ==
  \A r \in current : verdict[r] # "none" =>
    \/ <<r, verdict[r]>> \in decides
    \/ future[r] = verdict[r]
    \/ callback[r] = IF verdict[r] = "deny" THEN "refused" ELSE "ran"

\* A request with a row, on a session that is not being closed, has someone who
\* will answer it.
RowHasAnswerer ==
  \A r \in current :
    r \in undecided /\ future[r] = "open" /\ session = "open" =>
      r \in entries \/ verdict[r] # "none"

\* A request whose card was saved is answered, or its session is gone: the SDK
\* does not wait for ever on a user who never taps.
SavedIsAnswered ==
  \A r \in Req :
    (r \in undecided /\ callback[r] = "waiting")
      ~> (callback[r] \in {"ran", "refused"} \/ r \notin current)

\* No row stays undecided, so no card it stands for is left behind.
RowsSettle ==
  \A r \in Req : r \in undecided ~> r \notin undecided

\* Once a card says EXPIRED no tap on it decides the request any more: the entry is
\* gone with the row, and neither a sweep, a slow tap nor a restart brings it back.
ExpiredIsFinal ==
  [][\A r \in expired : verdict'[r] = verdict[r]]_vars

=============================================================================
