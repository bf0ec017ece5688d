-------------------------- MODULE Settings_proofs --------------------------
(***************************************************************************)
(* Proofs about Settings, for any values and any bounds: the types, that   *)
(* the copies of mode and model agree once all is settled, and that the    *)
(* SDK thinks as the session says.  The invariant says what the updates    *)
(* and envelopes under way will leave behind when they are done.           *)
(***************************************************************************)
EXTENDS Settings, TLAPS

-----------------------------------------------------------------------------
(* Operators.                                                              *)

\* The envelopes that the bridge sends.
LEMMA Requests ==
  /\ \A f \in Live, v \in Value : [type |-> "set", field |-> f, value |-> v] \in Request
  /\ \A s \in [Field -> Value] : [type |-> "open", settings |-> s] \in Request
  /\ [type |-> "close"] \in Request
  /\ \A r \in Request :
       /\ r.type \in {"set", "open", "close"}
       /\ r.type = "set" => r.field \in Live /\ r.value \in Value
       /\ r.type = "open" => r.settings \in [Field -> Value]
BY DEF Request

\* What a restart and a re-open ask for is a value for each field.
LEMMA OpensAreSettings ==
  ASSUME session \in [OfSession -> Value], handle \in [OfState -> Value],
         fresh \in [OfState -> Value]
  PROVE  OpenWith \in [Field -> Value] /\ ReopenWith \in [Field -> Value]
BY DefaultIsValue DEF OpenWith, ReopenWith, OfSession, OfState, Field, Live

\* The first envelope and the rest.
LEMMA Taken ==
  ASSUME NEW S, NEW q \in Seq(S), q # <<>>
  PROVE  Head(q) \in S /\ Tail(q) \in Seq(S)
OBVIOUS

\* An envelope more.
LEMMA Added ==
  ASSUME NEW S, NEW q \in Seq(S), NEW x \in S
  PROVE  Append(q, x) \in Seq(S)
OBVIOUS

(* Types: the copies of the settings, where things stand, and the queues. *)

Copies ==
  /\ session \in [OfSession -> Value]
  /\ handle \in [OfState -> Value] /\ closed \in BOOLEAN
  /\ row \in [Field -> Value]
  /\ fresh \in [OfState -> Value] /\ freshClosed \in BOOLEAN
  /\ sdk \in [Field -> Value]

Places ==
  /\ restart \in {"idle", "saving", "due", "closing", "opening", "crashed", "booting",
                  "gone"}
  /\ tracked \in {"none", "handle", "fresh"}
  /\ opened \in BOOLEAN /\ rejected \in BOOLEAN
  /\ link \in {"up", "down", "dialled"}
  /\ present \in {"no", "starting", "open"}
  /\ changes \in 0 .. MaxChanges /\ faults \in 0 .. MaxFaults
  /\ missed \in BOOLEAN /\ unawaited \in BOOLEAN

Queues ==
  /\ writes \in Seq([field : Field, value : Value])
  /\ up \in Seq(Request)
  /\ down \in Seq({"opened", "error", "closed"})

\* The types are those of the copies, the places and the queues.
LEMMA TypeParts == TypeOK <=> Copies /\ Places /\ Queues
BY DEF TypeOK, Copies, Places, Queues

\* Every step keeps the copies of the settings to values of their fields ...
LEMMA CopiesStep ==
  ASSUME TypeOK, [Next]_vars
  PROVE  Copies'
<1> USE DefaultIsValue, BoundsAreNaturals DEF TypeOK, Copies, heldVars, storeVars, openVars,
        wireVars, runnerVars, pastVars
<1>1. CASE UNCHANGED vars
  BY <1>1 DEF vars
<1>2. ASSUME NEW f \in Live, NEW v \in Value, Change(f, v) PROVE Copies'
  BY <1>2 DEF Change, Asked, Connected, Saves
<1>3. ASSUME NEW v \in Value, SetEffort(v) PROVE Copies'
  BY <1>3 DEF SetEffort, Asked, Saves
<1>4. ASSUME NEW v \in Value, Think(v) PROVE Copies'
  BY <1>4 DEF Think, Asked, Saves
<1>5. CASE Written
  <2> DEFINE w == Head(writes)
  <2>1. w \in [field : Field, value : Value]
    BY <1>5, Taken DEF Written
  <2>2. row' = [row EXCEPT ![w.field] = w.value]
    BY <1>5 DEF Written
  <2> HIDE DEF w
  <2>3. row' \in [Field -> Value]
    BY <2>1, <2>2
  <2> QED
    BY <2>3, <1>5 DEF Written
<1>6. CASE BeginRestart
  <2>1. OpenWith \in [Field -> Value]
    BY OpensAreSettings
  <2>2. [f \in OfState |-> OpenWith[f]] \in [OfState -> Value]
    BY <2>1 DEF OfState, Field, Live
  <2>3. fresh' = fresh \/ fresh' = [f \in OfState |-> OpenWith[f]]
    BY <1>6 DEF BeginRestart, CloseEnds, OpenSession
  <2> HIDE DEF OpenWith
  <2>4. fresh' \in [OfState -> Value]
    BY <2>2, <2>3
  <2> QED
    BY <2>4, <1>6 DEF BeginRestart, CloseEnds, OpenSession
<1>7. CASE CloseEnds
  <2>1. OpenWith \in [Field -> Value]
    BY OpensAreSettings
  <2>2. [f \in OfState |-> OpenWith[f]] \in [OfState -> Value]
    BY <2>1 DEF OfState, Field, Live
  <2>3. fresh' = fresh \/ fresh' = [f \in OfState |-> OpenWith[f]]
    BY <1>7 DEF BeginRestart, CloseEnds, OpenSession
  <2> HIDE DEF OpenWith
  <2>4. fresh' \in [OfState -> Value]
    BY <2>2, <2>3
  <2> QED
    BY <2>4, <1>7 DEF BeginRestart, CloseEnds, OpenSession
<1>8. CASE OpenReturns
  <2>1. [f \in OfSession |-> row[f]] \in [OfSession -> Value]
    BY DEF OfSession, Field, Live
  <2> QED
    BY <2>1, <1>8 DEF OpenReturns, Opening
<1>9. CASE OpenRaises
  BY <1>9 DEF OpenRaises, Opening, Steady
<1>10. CASE Deliver
  BY <1>10 DEF Deliver
<1>11. CASE Drop
  BY <1>11 DEF Drop, Fault, Unlink, Connected
<1>12. CASE Dial
  BY <1>12 DEF Dial
<1>13. CASE Reopen
  BY <1>13 DEF Reopen
<1>14. CASE Crash
  BY <1>14 DEF Crash, Fault, Unlink
<1>15. CASE Boot
  <2>1. [f \in OfState |-> row[f]] \in [OfState -> Value]
    BY DEF OfState, Field, Live
  <2> QED
    BY <2>1, <1>15 DEF Boot
<1>16. CASE HandleSet
  <2>1. up # <<>> /\ Head(up) \in Request
    BY <1>16, Taken DEF HandleSet, HandleOpen, HandleClose, Handles
  <2>2. Head(up).field \in Field /\ Head(up).value \in Value
    BY <2>1, <1>16, Requests DEF HandleSet, Handles, Field
  <2>3. sdk' = sdk \/ sdk' = [sdk EXCEPT ![Head(up).field] = Head(up).value]
    BY <1>16 DEF HandleSet
  <2>4. sdk' \in [Field -> Value]
    BY <2>2, <2>3
  <2> QED
    BY <2>4, <1>16 DEF HandleSet
<1>17. CASE HandleOpen
  <2>1. up # <<>> /\ Head(up) \in Request
    BY <1>17, Taken DEF HandleSet, HandleOpen, HandleClose, Handles
  <2>2. Head(up).settings \in [Field -> Value]
    BY <2>1, <1>17, Requests DEF HandleOpen, Handles
  <2> QED
    BY <2>2, <1>17 DEF HandleOpen
<1>18. CASE StartReturns
  BY <1>18 DEF StartReturns, Reports, Connected
<1>19. CASE HandleClose
  BY <1>19 DEF HandleClose, Handles, Reports, Connected
<1>20. ASSUME NEW f \in Live, NEW v \in Value, ReopenBehindChange(f, v) PROVE Copies'
  <2>1. f \in OfState
    BY <1>20 DEF Live, OfState
  <2>2. handle' \in [OfState -> Value] /\ session' \in [OfSession -> Value]
    BY <1>20, <2>1 DEF ReopenBehindChange
  <2> QED
    BY <2>2, <1>20 DEF ReopenBehindChange, Saves
<1>21. QED
  BY <1>1, <1>2, <1>3, <1>4, <1>5, <1>6, <1>7, <1>8, <1>9, <1>10, <1>11, <1>12, <1>13, <1>14, <1>15,
     <1>16, <1>17, <1>18, <1>19, <1>20
     DEF Next, Command

\* ... and the session, the restart and the link to the places they can be in ...
LEMMA PlacesStep ==
  ASSUME TypeOK, [Next]_vars
  PROVE  Places'
<1> USE DefaultIsValue, BoundsAreNaturals DEF TypeOK, Places, heldVars, storeVars, openVars,
        wireVars, runnerVars, pastVars
<1>1. CASE UNCHANGED vars
  BY <1>1 DEF vars
<1>2. ASSUME NEW f \in Live, NEW v \in Value, Change(f, v) PROVE Places'
  BY <1>2 DEF Change, Asked, Connected, Saves
<1>3. ASSUME NEW v \in Value, SetEffort(v) PROVE Places'
  BY <1>3 DEF SetEffort, Asked, Saves
<1>4. ASSUME NEW v \in Value, Think(v) PROVE Places'
  BY <1>4 DEF Think, Asked, Saves
<1>5. CASE Written
  BY <1>5 DEF Written
<1>6. CASE BeginRestart
  <2>1. changes' \in 0 .. MaxChanges
    BY <1>6 DEF BeginRestart, Asked
  <2>2. /\ restart' \in {"closing", "idle", "opening"}
        /\ tracked' \in {"none", "handle", "fresh"}
        /\ opened' \in BOOLEAN /\ rejected' \in BOOLEAN
    BY <1>6 DEF BeginRestart, OpenSession
  <2> QED
    BY <2>1, <2>2, <1>6 DEF BeginRestart
<1>7. CASE CloseEnds
  BY <1>7 DEF CloseEnds, OpenSession, Connected
<1>8. CASE OpenReturns
  BY <1>8 DEF OpenReturns, Opening
<1>9. CASE OpenRaises
  BY <1>9 DEF OpenRaises, Opening, Steady
<1>10. CASE Deliver
  BY <1>10 DEF Deliver
<1>11. CASE Drop
  BY <1>11 DEF Drop, Fault, Unlink, Connected
<1>12. CASE Dial
  BY <1>12 DEF Dial
<1>13. CASE Reopen
  BY <1>13 DEF Reopen
<1>14. CASE Crash
  BY <1>14 DEF Crash, Fault, Unlink
<1>15. CASE Boot
  BY <1>15 DEF Boot
<1>16. CASE HandleSet
  <2>1. faults' \in 0 .. MaxFaults
    BY <1>16 DEF HandleSet, Fault
  <2>2. missed' \in BOOLEAN
    BY <1>16 DEF HandleSet
  <2> QED
    BY <2>1, <2>2, <1>16 DEF HandleSet
<1>17. CASE HandleOpen
  BY <1>17 DEF HandleOpen, Handles, Reports, Connected
<1>18. CASE StartReturns
  BY <1>18 DEF StartReturns, Reports, Connected
<1>19. CASE HandleClose
  BY <1>19 DEF HandleClose, Handles, Reports, Connected
<1>20. ASSUME NEW f \in Live, NEW v \in Value, ReopenBehindChange(f, v) PROVE Places'
  <2>1. changes' \in 0 .. MaxChanges
    BY <1>20 DEF ReopenBehindChange, Asked
  <2>2. UNCHANGED <<restart, tracked, present, faults>> /\ ~opened' /\ ~rejected'
        /\ link' = "up" /\ missed' /\ unawaited' /\ opened' \in BOOLEAN
        /\ rejected' \in BOOLEAN /\ missed' \in BOOLEAN /\ unawaited' \in BOOLEAN
    BY <1>20 DEF ReopenBehindChange
  <2> QED
    BY <2>1, <2>2
<1>21. QED
  BY <1>1, <1>2, <1>3, <1>4, <1>5, <1>6, <1>7, <1>8, <1>9, <1>10, <1>11, <1>12, <1>13, <1>14, <1>15,
     <1>16, <1>17, <1>18, <1>19, <1>20
     DEF Next, Command

\* ... and puts only envelopes, events and updates into the queues.
LEMMA QueuesStep ==
  ASSUME TypeOK, [Next]_vars
  PROVE  Queues'
<1> USE DefaultIsValue, BoundsAreNaturals DEF TypeOK, Queues, heldVars, storeVars, openVars,
        wireVars, runnerVars, pastVars
<1>1. CASE UNCHANGED vars
  BY <1>1 DEF vars
<1>2. ASSUME NEW f \in Live, NEW v \in Value, Change(f, v) PROVE Queues'
  <2>1. Append(up, [type |-> "set", field |-> f, value |-> v]) \in Seq(Request)
    BY <1>2, Requests, Added
  <2>2. [field |-> f, value |-> v] \in [field : Field, value : Value]
    BY <1>2 DEF Field
  <2>3. writes' \in Seq([field : Field, value : Value])
    BY <2>2, <1>2, Added DEF Change, Saves
  <2> QED
    BY <2>1, <2>3, <1>2 DEF Change
<1>3. ASSUME NEW v \in Value, SetEffort(v) PROVE Queues'
  <2>1. [field |-> "effort", value |-> v] \in [field : Field, value : Value]
    BY <1>3 DEF Field
  <2>2. writes' \in Seq([field : Field, value : Value])
    BY <2>1, <1>3, Added DEF SetEffort, Saves
  <2> QED
    BY <2>2, <1>3 DEF SetEffort
<1>4. ASSUME NEW v \in Value, Think(v) PROVE Queues'
  <2>1. [field |-> "thinking", value |-> v] \in [field : Field, value : Value]
    BY <1>4 DEF Field
  <2>2. writes' \in Seq([field : Field, value : Value])
    BY <2>1, <1>4, Added DEF Think, Saves
  <2> QED
    BY <2>2, <1>4 DEF Think
<1>5. CASE Written
  BY <1>5 DEF Written
<1>6. CASE BeginRestart
  <2>1. Append(up, [type |-> "close"]) \in Seq(Request)
    BY Requests, Added
  <2>2. Append(up, [type |-> "open", settings |-> OpenWith]) \in Seq(Request)
    <3>1. [type |-> "open", settings |-> OpenWith] \in Request
      BY Requests, OpensAreSettings
    <3> QED
      BY <3>1, Added
  <2> HIDE DEF OpenWith
  <2>3. up' \in Seq(Request)
    BY <2>1, <2>2, <1>6 DEF BeginRestart, OpenSession
  <2> QED
    BY <2>3, <1>6 DEF BeginRestart
<1>7. CASE CloseEnds
  <2>1. Append(up, [type |-> "open", settings |-> OpenWith]) \in Seq(Request)
    <3>1. [type |-> "open", settings |-> OpenWith] \in Request
      BY Requests, OpensAreSettings
    <3> QED
      BY <3>1, Added
  <2>2. up' \in Seq(Request)
    BY <2>1, <1>7 DEF CloseEnds, OpenSession
  <2> QED
    BY <2>2, <1>7 DEF CloseEnds
<1>8. CASE OpenReturns
  BY <1>8 DEF OpenReturns, Opening
<1>9. CASE OpenRaises
  BY <1>9 DEF OpenRaises, Opening, Steady
<1>10. CASE Deliver
  BY <1>10 DEF Deliver
<1>11. CASE Drop
  BY <1>11 DEF Drop, Fault, Unlink, Connected
<1>12. CASE Dial
  BY <1>12 DEF Dial
<1>13. CASE Reopen
  <2>1. [type |-> "open", settings |-> ReopenWith] \in Request
    BY Requests, OpensAreSettings
  <2>2. Append(up, [type |-> "open", settings |-> ReopenWith]) \in Seq(Request)
    BY <2>1, Added
  <2>3. up' \in Seq(Request)
    BY <2>2, <1>13 DEF Reopen
  <2> QED
    BY <2>3, <1>13 DEF Reopen
<1>14. CASE Crash
  BY <1>14 DEF Crash, Fault, Unlink
<1>15. CASE Boot
  <2>1. [type |-> "open", settings |-> row] \in Request
    BY Requests
  <2>2. Append(up, [type |-> "open", settings |-> row]) \in Seq(Request)
    BY <2>1, Added
  <2> QED
    BY <2>2, <1>15 DEF Boot
<1>16. CASE HandleSet
  <2>1. Tail(up) \in Seq(Request)
    BY <1>16, Taken DEF HandleSet, Handles
  <2>2. \A e \in {"opened", "error", "closed"} :
          Append(down, e) \in Seq({"opened", "error", "closed"})
    BY Added
  <2>3. down' = down \/ \E e \in {"opened", "error", "closed"} : down' = Append(down, e)
    BY <1>16 DEF HandleSet, Reports
  <2> QED
    BY <2>1, <2>2, <2>3, <1>16 DEF HandleSet, Handles
<1>17. CASE HandleOpen
  <2>1. Tail(up) \in Seq(Request)
    BY <1>17, Taken DEF HandleOpen, Handles
  <2>2. \A e \in {"opened", "error", "closed"} :
          Append(down, e) \in Seq({"opened", "error", "closed"})
    BY Added
  <2>3. down' = down \/ \E e \in {"opened", "error", "closed"} : down' = Append(down, e)
    BY <1>17 DEF HandleOpen, Reports
  <2> QED
    BY <2>1, <2>2, <2>3, <1>17 DEF HandleOpen, Handles
<1>18. CASE StartReturns
  <2>1. \A e \in {"opened", "error", "closed"} :
          Append(down, e) \in Seq({"opened", "error", "closed"})
    BY Added
  <2>2. down' = Append(down, "opened") \/ down' = Append(down, "error")
    BY <1>18 DEF StartReturns, Reports
  <2> QED
    BY <2>1, <2>2, <1>18 DEF StartReturns
<1>19. CASE HandleClose
  <2>1. Tail(up) \in Seq(Request)
    BY <1>19, Taken DEF HandleClose, Handles
  <2>2. \A e \in {"opened", "error", "closed"} :
          Append(down, e) \in Seq({"opened", "error", "closed"})
    BY Added
  <2>3. down' = down \/ \E e \in {"opened", "error", "closed"} : down' = Append(down, e)
    BY <1>19 DEF HandleClose, Reports
  <2> QED
    BY <2>1, <2>2, <2>3, <1>19 DEF HandleClose, Handles
<1>20. ASSUME NEW f \in Live, NEW v \in Value, ReopenBehindChange(f, v) PROVE Queues'
  <2> DEFINE s == [type |-> "set", field |-> f, value |-> v]
             o == [type |-> "open", settings |-> ReopenWith]
  <2>1. s \in Request /\ o \in Request
    BY <1>20, Requests, OpensAreSettings
  <2>2. up' = up \o <<s, o>>
    BY <1>20 DEF ReopenBehindChange
  <2> HIDE DEF s, o
  <2>3. up' \in Seq(Request)
    BY <2>1, <2>2
  <2>4. [field |-> f, value |-> v] \in [field : Field, value : Value]
    BY <1>20 DEF Field
  <2>5. writes' \in Seq([field : Field, value : Value])
    BY <2>4, <1>20, Added DEF ReopenBehindChange, Saves
  <2> QED
    BY <2>3, <2>5, <1>20 DEF ReopenBehindChange
<1>21. QED
  BY <1>1, <1>2, <1>3, <1>4, <1>5, <1>6, <1>7, <1>8, <1>9, <1>10, <1>11, <1>12, <1>13, <1>14, <1>15,
     <1>16, <1>17, <1>18, <1>19, <1>20
     DEF Next, Command

-----------------------------------------------------------------------------
(* What the queues lead to.                                                *)

\* Once the updates in q are done, field f of a row that has x there has v.
WritesLeave(q, f, x, v) ==
  /\ \A i \in DOMAIN q :
       q[i].field = f /\ (\A j \in DOMAIN q : j > i => q[j].field # f) => q[i].value = v
  /\ (\A i \in DOMAIN q : q[i].field # f) => x = v

Sets(r, f) == r.type = "set" /\ r.field = f

\* Once the changes behind the n-th envelope of q are done, field f of an SDK that has x
\* there has v.
SetsLeave(q, n, f, x, v) ==
  /\ \A i \in DOMAIN q :
       i > n /\ Sets(q[i], f) /\ (\A j \in DOMAIN q : j > i => ~Sets(q[j], f))
         => q[i].value = v
  /\ (\A i \in DOMAIN q : i > n => ~Sets(q[i], f)) => x = v

OpenAt(i) == i \in DOMAIN up /\ up[i].type = "open"
NoClose   == \A i \in DOMAIN up : up[i].type # "close"
NoOpen    == \A i \in DOMAIN up : up[i].type # "open"

-----------------------------------------------------------------------------
(* The inductive invariant.                                                *)

\* A link that is down carries nothing, and the runner has torn down.
DownIsEmpty ==
  /\ link = "down" => up = <<>> /\ down = <<>> /\ present = "no"
  /\ restart = "crashed" => link = "down"

\* An update of thinking is pending only while the command waits for it, one at a time.
ThinkingWrites ==
  /\ \A i \in DOMAIN writes : writes[i].field = "thinking" => restart = "saving"
  /\ \A i, j \in DOMAIN writes :
       writes[i].field = "thinking" /\ writes[j].field = "thinking" => i = j

\* A booting bridge has nothing to write, and opens what the row says.
BootFromRow ==
  /\ ~InTable => writes = <<>>
  /\ restart = "booting" => tracked # "handle" /\ \A f \in OfState : fresh[f] = row[f]

StoreInv == DownIsEmpty /\ ThinkingWrites /\ BootFromRow

\* What the session's handle says, or will when the bridge has booted.
Held(f) == IF restart = "booting" THEN fresh[f] ELSE handle[f]

\* Unless a change was missed, the row comes to say what the handle does, and so does
\* what a restart opens.
RowFollows ==
  InTable /\ ~missed =>
    /\ \A f \in Live : WritesLeave(writes, f, row[f], handle[f])
    /\ session["model"] = handle["model"]
    /\ restart = "opening" => \A f \in Live : fresh[f] = handle[f]

\* So does an SDK that runs and is not to be closed, and one that any of the opens on
\* their way would start.
SdkFollows ==
  (InTable \/ restart = "booting") /\ ~missed =>
    \A f \in Live :
      /\ present # "no" /\ NoClose => SetsLeave(up, 0, f, sdk[f], Held(f))
      /\ \A i \in DOMAIN up : OpenAt(i) => SetsLeave(up, i, f, up[i].settings[f], Held(f))

AgreeInv == RowFollows /\ SdkFollows

-----------------------------------------------------------------------------
\* Whether the session is to think.
Thought == IF restart = "booting" THEN row["thinking"] ELSE session["thinking"]

Between == restart \in {"idle", "saving", "due", "closing"}

\* Unless the runner opens what nobody awaits: at most one open is on its way or
\* starting, it is awaited, and no close follows it.
OneOpen ==
  /\ \A i, j \in DOMAIN up : OpenAt(i) /\ OpenAt(j) => i = j
  /\ \A i, j \in DOMAIN up : OpenAt(i) /\ up[j].type = "close" => j < i
  /\ ~NoOpen => Opening
  /\ present = "starting" => Opening /\ NoOpen /\ NoClose

\* OPENED is for the open that is awaited, and the last of the session's events.
OpenedIsAwaited ==
  /\ \A i \in DOMAIN down : down[i] = "opened" =>
       /\ Opening /\ present = "open" /\ NoOpen /\ NoClose
       /\ \A j \in DOMAIN down : down[j] = "opened" => i = j
       /\ \A j \in DOMAIN down : j > i => down[j] # "closed"
  /\ Opening /\ tracked = "fresh" /\ opened /\ ~rejected =>
       /\ present # "starting" /\ NoOpen /\ NoClose
       /\ \A i \in DOMAIN down : down[i] \notin {"opened", "closed"}

\* A session that was closed is not there any more, unless its handle is the one that
\* a late CLOSED closed.
ClosedIsGone ==
  /\ Between /\ (\E i \in DOMAIN down : down[i] = "closed") => present = "no"
  /\ Between /\ closed /\ tracked # "handle" => present = "no"
  /\ restart = "closing" => present = "no" \/ ~NoClose

\* What runs, or is to be opened, thinks as the session does, unless nobody can restart it.
ThinksAsAsked ==
  /\ /\ restart \in {"idle", "opening", "booting"} /\ present # "no" /\ NoClose
     /\ restart = "idle" => ~closed
     => sdk["thinking"] = Thought
  /\ Opening => \A i \in DOMAIN up : OpenAt(i) => up[i].settings["thinking"] = Thought

ThinkInv ==
  ~unawaited => OneOpen /\ OpenedIsAwaited /\ ClosedIsGone /\ ThinksAsAsked

-----------------------------------------------------------------------------
(* What a queue leaves when it grows or is served.                         *)

\* An update more leaves its own value in its field, and the others as they are.
LEMMA WriteAdded ==
  ASSUME NEW S, NEW q \in Seq(S), NEW r \in S, NEW f, NEW x, NEW v
  PROVE  /\ r.field = f => WritesLeave(Append(q, r), f, x, r.value)
         /\ r.field # f /\ WritesLeave(q, f, x, v) => WritesLeave(Append(q, r), f, x, v)
<1> DEFINE p == Append(q, r)
<1>1. /\ DOMAIN q = 1 .. Len(q) /\ DOMAIN p = 1 .. Len(q) + 1 /\ Len(q) \in Nat
      /\ \A i \in 1 .. Len(q) : p[i] = q[i]
      /\ p[Len(q) + 1] = r
  OBVIOUS
<1> HIDE DEF p
<1>2. r.field = f => WritesLeave(p, f, x, r.value)
  BY <1>1 DEF WritesLeave
<1>3. ASSUME r.field # f, WritesLeave(q, f, x, v)
      PROVE  WritesLeave(p, f, x, v)
  <2>1. ASSUME NEW i \in DOMAIN p, p[i].field = f,
               \A j \in DOMAIN p : j > i => p[j].field # f
        PROVE  p[i].value = v
    <3>1. i \in DOMAIN q /\ \A j \in DOMAIN q : j > i => q[j].field # f
      BY <1>1, <1>3, <2>1
    <3> QED
      BY <1>1, <1>3, <2>1, <3>1 DEF WritesLeave
  <2>2. (\A i \in DOMAIN p : p[i].field # f) => x = v
    BY <1>1, <1>3 DEF WritesLeave
  <2> QED
    BY <2>1, <2>2 DEF WritesLeave
<1> QED
  BY <1>2, <1>3 DEF p

\* The first update done, the rest leaves what it did.
LEMMA WriteDone ==
  ASSUME NEW S, NEW q \in Seq(S), q # <<>>, NEW f, NEW x, NEW v, WritesLeave(q, f, x, v)
  PROVE  WritesLeave(Tail(q), f, IF Head(q).field = f THEN Head(q).value ELSE x, v)
<1> DEFINE p == Tail(q)
<1>1. /\ DOMAIN q = 1 .. Len(q) /\ DOMAIN p = 1 .. Len(q) - 1 /\ Len(q) \in Nat \ {0}
      /\ \A i \in 1 .. Len(q) - 1 : p[i] = q[i + 1]
      /\ Head(q) = q[1]
  OBVIOUS
<1> HIDE DEF p
<1>2. ASSUME NEW i \in DOMAIN p, p[i].field = f, \A j \in DOMAIN p : j > i => p[j].field # f
      PROVE  p[i].value = v
  <2>1. i + 1 \in DOMAIN q /\ q[i + 1] = p[i]
    BY <1>1
  <2>2. ASSUME NEW j \in DOMAIN q, j > i + 1
        PROVE  q[j].field # f
    <3>1. j - 1 \in DOMAIN p /\ j - 1 > i /\ p[j - 1] = q[j]
      BY <1>1, <2>2
    <3> QED
      BY <1>2, <3>1
  <2> QED
    BY <1>2, <2>1, <2>2 DEF WritesLeave
<1>3. ASSUME \A i \in DOMAIN p : p[i].field # f
      PROVE  (IF q[1].field = f THEN q[1].value ELSE x) = v
  <2>1. ASSUME NEW j \in DOMAIN q, j > 1
        PROVE  q[j].field # f
    <3>1. j - 1 \in DOMAIN p /\ p[j - 1] = q[j]
      BY <1>1, <2>1
    <3> QED
      BY <1>3, <3>1
  <2> QED
    BY <1>1, <2>1 DEF WritesLeave
<1>4. WritesLeave(p, f, IF q[1].field = f THEN q[1].value ELSE x, v)
  BY <1>2, <1>3 DEF WritesLeave
<1> QED
  BY <1>1, <1>4 DEF p

\* With no update the row has what it has.
LEMMA NothingToWrite ==
  ASSUME NEW f, NEW x, NEW v
  PROVE  WritesLeave(<<>>, f, x, v) <=> x = v
BY DEF WritesLeave

\* A change more leaves its own value in its field; any other envelope leaves all.
LEMMA SetAdded ==
  ASSUME NEW S, NEW q \in Seq(S), NEW r \in S, NEW n \in 0 .. Len(q), NEW f, NEW x, NEW v
  PROVE  /\ Sets(r, f) => SetsLeave(Append(q, r), n, f, x, r.value)
         /\ ~Sets(r, f) /\ SetsLeave(q, n, f, x, v) => SetsLeave(Append(q, r), n, f, x, v)
BY DEF SetsLeave

\* The first envelope dispatched, the rest leaves what it did.
LEMMA SetDone ==
  ASSUME NEW S, NEW q \in Seq(S), q # <<>>, NEW f, NEW x, NEW v
  PROVE  /\ SetsLeave(q, 0, f, x, v) =>
              SetsLeave(Tail(q), 0, f, IF Sets(Head(q), f) THEN Head(q).value ELSE x, v)
         /\ \A n \in 1 .. Len(q) :
              SetsLeave(q, n, f, x, v) => SetsLeave(Tail(q), n - 1, f, x, v)
<1> DEFINE p == Tail(q)
<1>1. /\ DOMAIN q = 1 .. Len(q) /\ DOMAIN p = 1 .. Len(q) - 1 /\ Len(q) \in Nat \ {0}
      /\ \A i \in 1 .. Len(q) - 1 : p[i] = q[i + 1]
      /\ Head(q) = q[1]
  OBVIOUS
<1> HIDE DEF p
<1>2. ASSUME NEW n \in 0 .. Len(q), SetsLeave(q, n, f, x, v), NEW i \in DOMAIN p,
             i > n - 1, Sets(p[i], f), \A j \in DOMAIN p : j > i => ~Sets(p[j], f)
      PROVE  p[i].value = v
  <2>1. i + 1 \in DOMAIN q /\ q[i + 1] = p[i] /\ i + 1 > n
    BY <1>1, <1>2
  <2>2. ASSUME NEW j \in DOMAIN q, j > i + 1
        PROVE  ~Sets(q[j], f)
    <3>1. j - 1 \in DOMAIN p /\ j - 1 > i /\ p[j - 1] = q[j]
      BY <1>1, <2>2
    <3> QED
      BY <1>2, <3>1
  <2>3. Sets(q[i + 1], f)
    BY <1>2, <2>1
  <2>4. q[i + 1].value = v
    BY <1>2, <2>1, <2>2, <2>3 DEF SetsLeave
  <2> QED
    BY <2>1, <2>4
<1>3. ASSUME NEW n \in 0 .. Len(q), \A i \in DOMAIN p : i > n - 1 => ~Sets(p[i], f),
             NEW j \in DOMAIN q, j > n, j > 1
      PROVE  ~Sets(q[j], f)
  <2>1. j - 1 \in DOMAIN p /\ j - 1 > n - 1 /\ p[j - 1] = q[j]
    BY <1>1, <1>3
  <2> QED
    BY <1>3, <2>1
<1>4. ASSUME SetsLeave(q, 0, f, x, v)
      PROVE  SetsLeave(p, 0, f, IF Sets(q[1], f) THEN q[1].value ELSE x, v)
  <2>1. \A i \in DOMAIN p : i > 0 - 1
    BY <1>1
  <2>2. \A i \in DOMAIN p : Sets(p[i], f) /\ (\A j \in DOMAIN p : j > i => ~Sets(p[j], f))
                             => p[i].value = v
    BY <1>1, <1>2, <1>4, <2>1
  <2>3. ASSUME \A i \in DOMAIN p : i > 0 => ~Sets(p[i], f)
        PROVE  (IF Sets(q[1], f) THEN q[1].value ELSE x) = v
    <3>1. \A j \in DOMAIN q : j > 1 => ~Sets(q[j], f)
      BY <1>1, <1>3, <2>3
    <3>2. Sets(q[1], f) => q[1].value = v
      BY <1>1, <1>4, <3>1 DEF SetsLeave
    <3>3. ~Sets(q[1], f) => \A j \in DOMAIN q : ~Sets(q[j], f)
      BY <1>1, <3>1
    <3> QED
      BY <1>4, <3>2, <3>3 DEF SetsLeave
  <2> QED
    BY <2>2, <2>3 DEF SetsLeave
<1>5. ASSUME NEW n \in 1 .. Len(q), SetsLeave(q, n, f, x, v)
      PROVE  SetsLeave(p, n - 1, f, x, v)
  <2>1. \A i \in DOMAIN p : i > n - 1 /\ Sets(p[i], f)
                              /\ (\A j \in DOMAIN p : j > i => ~Sets(p[j], f))
                             => p[i].value = v
    BY <1>1, <1>2, <1>5
  <2>2. ASSUME \A i \in DOMAIN p : i > n - 1 => ~Sets(p[i], f)
        PROVE  x = v
    <3>1. \A j \in DOMAIN q : j > n => ~Sets(q[j], f)
      BY <1>1, <1>3, <2>2
    <3> QED
      BY <1>5, <3>1 DEF SetsLeave
  <2> QED
    BY <2>1, <2>2 DEF SetsLeave
<1> QED
  BY <1>1, <1>4, <1>5 DEF p

\* Behind the last envelope there is nothing.
LEMMA NothingBehind ==
  ASSUME NEW S, NEW q \in Seq(S), NEW f, NEW x, NEW v
  PROVE  SetsLeave(q, Len(q), f, x, v) <=> x = v
BY DEF SetsLeave

-----------------------------------------------------------------------------
(* What the store and a link that is down know.                            *)

\* A drop and a crash empty the link, and only a link that is up carries again.
LEMMA DownIsEmptyStep ==
  ASSUME TypeOK, StoreInv, [Next]_vars
  PROVE  DownIsEmpty'
<1> USE DEF TypeOK, StoreInv, DownIsEmpty, InTable, heldVars, storeVars, openVars, wireVars,
        runnerVars, pastVars
<1>1. CASE UNCHANGED vars
  BY <1>1 DEF vars
<1>2. ASSUME NEW f \in Live, NEW v \in Value, Change(f, v) PROVE DownIsEmpty'
  BY <1>2 DEF Change, Asked, Connected, Saves
<1>3. ASSUME NEW v \in Value, SetEffort(v) PROVE DownIsEmpty'
  BY <1>3 DEF SetEffort, Asked, Saves
<1>4. ASSUME NEW v \in Value, Think(v) PROVE DownIsEmpty'
  BY <1>4 DEF Think, Asked, Saves
<1>5. CASE Written
  BY <1>5 DEF Written
<1>6. CASE BeginRestart
  BY <1>6 DEF BeginRestart, Asked, OpenSession, Connected
<1>7. CASE CloseEnds
  BY <1>7 DEF CloseEnds, OpenSession, Connected
<1>8. CASE OpenReturns
  BY <1>8 DEF OpenReturns, Opening
<1>9. CASE OpenRaises
  BY <1>9 DEF OpenRaises, Opening, Steady
<1>10. CASE Deliver
  BY <1>10 DEF Deliver
<1>11. CASE Drop
  BY <1>11 DEF Drop, Fault, Unlink, Connected
<1>12. CASE Dial
  BY <1>12 DEF Dial
<1>13. CASE Reopen
  BY <1>13 DEF Reopen
<1>14. CASE Crash
  BY <1>14 DEF Crash, Fault, Unlink
<1>15. CASE Boot
  BY <1>15 DEF Boot
<1>16. CASE HandleSet
  BY <1>16 DEF HandleSet, Handles, Reports, Connected, Fault
<1>17. CASE HandleOpen
  BY <1>17 DEF HandleOpen, Handles, Reports, Connected
<1>18. CASE StartReturns
  BY <1>18 DEF StartReturns, Reports, Connected
<1>19. CASE HandleClose
  BY <1>19 DEF HandleClose, Handles, Reports, Connected
<1>20. ASSUME NEW f \in Live, NEW v \in Value, ReopenBehindChange(f, v) PROVE DownIsEmpty'
  BY <1>20 DEF ReopenBehindChange, Asked
<1>21. QED
  BY <1>1, <1>2, <1>3, <1>4, <1>5, <1>6, <1>7, <1>8, <1>9, <1>10, <1>11, <1>12, <1>13, <1>14, <1>15,
     <1>16, <1>17, <1>18, <1>19, <1>20
     DEF Next, Command

\* /think is refused while another waits for its update.
LEMMA ThinkingWritesStep ==
  ASSUME TypeOK, StoreInv, [Next]_vars
  PROVE  ThinkingWrites'
<1> USE DEF TypeOK, StoreInv, ThinkingWrites, InTable, heldVars, storeVars, openVars, wireVars,
        runnerVars, pastVars
<1>1. CASE UNCHANGED vars
  BY <1>1 DEF vars
<1>2. ASSUME NEW f \in Live, NEW v \in Value, Change(f, v) PROVE ThinkingWrites'
  <2>1. writes' = Append(writes, [field |-> f, value |-> v]) /\ restart' = restart
    BY <1>2 DEF Change, Saves
  <2>2. f # "thinking"
    BY <1>2 DEF Live
  <2> QED
    BY <2>1, <2>2
<1>3. ASSUME NEW v \in Value, SetEffort(v) PROVE ThinkingWrites'
  BY <1>3 DEF SetEffort, Asked, Saves
<1>4. ASSUME NEW v \in Value, Think(v) PROVE ThinkingWrites'
  BY <1>4 DEF Think, Asked, Saves
<1>5. CASE Written
  BY <1>5 DEF Written
<1>6. CASE BeginRestart
  BY <1>6 DEF BeginRestart, Asked, OpenSession, Connected
<1>7. CASE CloseEnds
  BY <1>7 DEF CloseEnds, OpenSession, Connected
<1>8. CASE OpenReturns
  BY <1>8 DEF OpenReturns, Opening
<1>9. CASE OpenRaises
  BY <1>9 DEF OpenRaises, Opening, Steady
<1>10. CASE Deliver
  BY <1>10 DEF Deliver
<1>11. CASE Drop
  BY <1>11 DEF Drop, Fault, Unlink, Connected
<1>12. CASE Dial
  BY <1>12 DEF Dial
<1>13. CASE Reopen
  BY <1>13 DEF Reopen
<1>14. CASE Crash
  BY <1>14 DEF Crash, Fault, Unlink
<1>15. CASE Boot
  BY <1>15 DEF Boot
<1>16. CASE HandleSet
  BY <1>16 DEF HandleSet, Handles, Reports, Connected, Fault
<1>17. CASE HandleOpen
  BY <1>17 DEF HandleOpen, Handles, Reports, Connected
<1>18. CASE StartReturns
  BY <1>18 DEF StartReturns, Reports, Connected
<1>19. CASE HandleClose
  BY <1>19 DEF HandleClose, Handles, Reports, Connected
<1>20. ASSUME NEW f \in Live, NEW v \in Value, ReopenBehindChange(f, v) PROVE ThinkingWrites'
  <2>1. writes' = Append(writes, [field |-> f, value |-> v]) /\ restart' = restart
    BY <1>20 DEF ReopenBehindChange, Saves
  <2>2. f # "thinking"
    BY <1>20 DEF Live
  <2> QED
    BY <2>1, <2>2
<1>21. QED
  BY <1>1, <1>2, <1>3, <1>4, <1>5, <1>6, <1>7, <1>8, <1>9, <1>10, <1>11, <1>12, <1>13, <1>14, <1>15,
     <1>16, <1>17, <1>18, <1>19, <1>20
     DEF Next, Command

\* A crash loses what the store had queued, and nobody asks for more until the boot is over.
LEMMA BootFromRowStep ==
  ASSUME TypeOK, StoreInv, [Next]_vars
  PROVE  BootFromRow'
<1> USE DEF TypeOK, StoreInv, BootFromRow, InTable, InTable, heldVars, storeVars, openVars,
        wireVars, runnerVars, pastVars
<1>1. CASE UNCHANGED vars
  BY <1>1 DEF vars
<1>2. ASSUME NEW f \in Live, NEW v \in Value, Change(f, v) PROVE BootFromRow'
  BY <1>2 DEF Change, Asked, Connected, Saves
<1>3. ASSUME NEW v \in Value, SetEffort(v) PROVE BootFromRow'
  BY <1>3 DEF SetEffort, Asked, Saves
<1>4. ASSUME NEW v \in Value, Think(v) PROVE BootFromRow'
  BY <1>4 DEF Think, Asked, Saves
<1>5. CASE Written
  BY <1>5 DEF Written
<1>6. CASE BeginRestart
  BY <1>6 DEF BeginRestart, Asked, OpenSession, Connected
<1>7. CASE CloseEnds
  BY <1>7 DEF CloseEnds, OpenSession, Connected
<1>8. CASE OpenReturns
  BY <1>8 DEF OpenReturns, Opening
<1>9. CASE OpenRaises
  BY <1>9 DEF OpenRaises, Opening, Steady
<1>10. CASE Deliver
  BY <1>10 DEF Deliver
<1>11. CASE Drop
  BY <1>11 DEF Drop, Fault, Unlink, Connected
<1>12. CASE Dial
  BY <1>12 DEF Dial
<1>13. CASE Reopen
  BY <1>13 DEF Reopen
<1>14. CASE Crash
  BY <1>14 DEF Crash, Fault, Unlink
<1>15. CASE Boot
  BY <1>15 DEF Boot
<1>16. CASE HandleSet
  BY <1>16 DEF HandleSet, Handles, Reports, Connected, Fault
<1>17. CASE HandleOpen
  BY <1>17 DEF HandleOpen, Handles, Reports, Connected
<1>18. CASE StartReturns
  BY <1>18 DEF StartReturns, Reports, Connected
<1>19. CASE HandleClose
  BY <1>19 DEF HandleClose, Handles, Reports, Connected
<1>20. ASSUME NEW f \in Live, NEW v \in Value, ReopenBehindChange(f, v) PROVE BootFromRow'
  BY <1>20 DEF ReopenBehindChange, Asked
<1>21. QED
  BY <1>1, <1>2, <1>3, <1>4, <1>5, <1>6, <1>7, <1>8, <1>9, <1>10, <1>11, <1>12, <1>13, <1>14, <1>15,
     <1>16, <1>17, <1>18, <1>19, <1>20
     DEF Next, Command

-----------------------------------------------------------------------------
(* The SDK's copy of mode and model, by what a step does to the queue.      *)

Kept == InTable \/ restart = "booting"

\* A step that leaves the queue and the SDK alone, and what the session is to be held to.
LEMMA SdkKept ==
  ASSUME SdkFollows, UNCHANGED <<up, sdk, missed>>, Kept' => Kept,
         present' # "no" => present # "no", \A f \in Live : Held(f)' = Held(f)
  PROVE  SdkFollows'
BY DEF SdkFollows, Kept, OpenAt, NoClose

\* A step that sends an envelope: a change of what the session is held to, an open that
\* asks for it, or a close.
LEMMA SdkSent ==
  ASSUME TypeOK, SdkFollows, NEW r \in Request, up' = Append(up, r),
         UNCHANGED <<present, sdk>>, Kept' => Kept, ~missed' => ~missed,
         \A f \in Live : /\ Sets(r, f) => Held(f)' = r.value
                         /\ ~Sets(r, f) => Held(f)' = Held(f)
                         /\ r.type = "open" => r.settings[f] = Held(f)'
  PROVE  SdkFollows'
<1>1. SUFFICES ASSUME Kept, ~missed, NEW f \in Live
               PROVE  /\ present # "no" /\ NoClose' => SetsLeave(up', 0, f, sdk[f], Held(f)')
                      /\ \A i \in DOMAIN up' : OpenAt(i)' =>
                           SetsLeave(up', i, f, up'[i].settings[f], Held(f)')
  BY DEF SdkFollows, Kept
<1>2. /\ up \in Seq(Request) /\ Len(up) \in Nat /\ DOMAIN up = 1 .. Len(up)
      /\ up' \in Seq(Request) /\ Len(up') = Len(up) + 1 /\ DOMAIN up' = 1 .. Len(up) + 1
      /\ \A i \in DOMAIN up : up'[i] = up[i]
      /\ up'[Len(up) + 1] = r
  BY DEF TypeOK
<1>3. \A n \in 0 .. Len(up) : \A x : SetsLeave(up, n, f, x, Held(f)) =>
        SetsLeave(up', n, f, x, Held(f)')
  BY <1>2, SetAdded
<1>4. ASSUME present # "no", NoClose'
      PROVE  SetsLeave(up', 0, f, sdk[f], Held(f)')
  <2>1. NoClose
    BY <1>2, <1>4 DEF NoClose
  <2>2. SetsLeave(up, 0, f, sdk[f], Held(f))
    BY <1>1, <1>4, <2>1 DEF SdkFollows, Kept
  <2> QED
    BY <1>2, <1>3, <2>2
<1>5. ASSUME NEW i \in DOMAIN up', OpenAt(i)'
      PROVE  SetsLeave(up', i, f, up'[i].settings[f], Held(f)')
  <2>1. CASE i = Len(up')
    <3>1. up'[i] = r /\ r.settings[f] = Held(f)'
      BY <1>2, <1>5, <2>1 DEF OpenAt
    <3>2. SetsLeave(up', Len(up'), f, r.settings[f], Held(f)')
      BY <1>2, <3>1, NothingBehind
    <3> QED
      BY <2>1, <3>1, <3>2
  <2>2. CASE i # Len(up')
    <3>1. i \in DOMAIN up /\ OpenAt(i)
      BY <1>2, <1>5, <2>2 DEF OpenAt
    <3>2. SetsLeave(up, i, f, up[i].settings[f], Held(f))
      BY <1>1, <3>1 DEF SdkFollows, Kept
    <3>3. i \in 0 .. Len(up) /\ up'[i] = up[i]
      BY <1>2, <3>1
    <3>4. SetsLeave(up', i, f, up[i].settings[f], Held(f)')
      BY <1>3, <3>2, <3>3
    <3> QED
      BY <3>3, <3>4
  <2> QED
    BY <2>1, <2>2
<1> QED
  BY <1>4, <1>5

\* The runner takes the first envelope: the opens behind it start what they did.
LEMMA OpensServed ==
  ASSUME TypeOK, up # <<>>, up' = Tail(up), NEW f, NEW v,
         \A i \in DOMAIN up : OpenAt(i) => SetsLeave(up, i, f, up[i].settings[f], v)
  PROVE  /\ \A i \in DOMAIN up' : OpenAt(i)' => SetsLeave(up', i, f, up'[i].settings[f], v)
         /\ Head(up).type = "open" => SetsLeave(up', 0, f, Head(up).settings[f], v)
<1>1. /\ up \in Seq(Request) /\ Len(up) \in Nat \ {0} /\ DOMAIN up = 1 .. Len(up)
      /\ DOMAIN up' = 1 .. Len(up) - 1 /\ Head(up) = up[1]
      /\ \A i \in 1 .. Len(up) - 1 : up'[i] = up[i + 1]
  BY DEF TypeOK
<1>2. \A n \in 1 .. Len(up) : \A x : SetsLeave(up, n, f, x, v) => SetsLeave(up', n - 1, f, x, v)
  BY <1>1, SetDone
<1>3. ASSUME NEW i \in DOMAIN up', OpenAt(i)'
      PROVE  SetsLeave(up', i, f, up'[i].settings[f], v)
  <2>1. i + 1 \in 1 .. Len(up) /\ OpenAt(i + 1) /\ up'[i] = up[i + 1] /\ (i + 1) - 1 = i
    BY <1>1, <1>3 DEF OpenAt
  <2>2. SetsLeave(up, i + 1, f, up[i + 1].settings[f], v)
    BY <1>1, <2>1
  <2>3. SetsLeave(up', (i + 1) - 1, f, up[i + 1].settings[f], v)
    BY <1>2, <2>1, <2>2
  <2> QED
    BY <2>1, <2>3
<1>4. ASSUME Head(up).type = "open"
      PROVE  SetsLeave(up', 0, f, Head(up).settings[f], v)
  <2>1. 1 \in 1 .. Len(up) /\ OpenAt(1) /\ 1 - 1 = 0
    BY <1>1, <1>4 DEF OpenAt
  <2>2. SetsLeave(up, 1, f, up[1].settings[f], v)
    BY <1>1, <2>1
  <2>3. SetsLeave(up', 1 - 1, f, up[1].settings[f], v)
    BY <1>2, <2>1, <2>2
  <2> QED
    BY <1>1, <2>1, <2>3
<1> QED
  BY <1>3, <1>4

\* A step that serves the first envelope, by what it does with it.
LEMMA SdkServed ==
  ASSUME TypeOK, SdkFollows, up # <<>>, up' = Tail(up), Kept' => Kept, ~missed' => ~missed,
         \A f \in Live : Held(f)' = Held(f),
         ~missed' /\ present' # "no" =>
           \/ /\ Head(up).type = "set" /\ present # "no"
              /\ sdk' = [sdk EXCEPT ![Head(up).field] = Head(up).value]
           \/ Head(up).type = "open" /\ present = "no" /\ sdk' = Head(up).settings
           \/ Head(up).type = "open" /\ present # "no" /\ sdk' = sdk
  PROVE  SdkFollows'
<1>1. SUFFICES ASSUME Kept, ~missed, ~missed', NEW f \in Live
               PROVE  /\ present' # "no" /\ NoClose' => SetsLeave(up', 0, f, sdk'[f], Held(f))
                      /\ \A i \in DOMAIN up' : OpenAt(i)' =>
                           SetsLeave(up', i, f, up'[i].settings[f], Held(f))
  BY DEF SdkFollows, Kept
<1>2. /\ up \in Seq(Request) /\ Len(up) \in Nat \ {0} /\ DOMAIN up = 1 .. Len(up)
      /\ DOMAIN up' = 1 .. Len(up) - 1 /\ Head(up) = up[1] /\ Head(up) \in Request
      /\ \A i \in 1 .. Len(up) - 1 : up'[i] = up[i + 1]
  BY DEF TypeOK
<1>3. \A i \in DOMAIN up : OpenAt(i) => SetsLeave(up, i, f, up[i].settings[f], Held(f))
  BY <1>1 DEF SdkFollows, Kept
<1>4. /\ \A i \in DOMAIN up' : OpenAt(i)' =>
           SetsLeave(up', i, f, up'[i].settings[f], Held(f))
      /\ Head(up).type = "open" => SetsLeave(up', 0, f, Head(up).settings[f], Held(f))
  BY <1>3, OpensServed
<1>5. ASSUME present' # "no", NoClose'
      PROVE  SetsLeave(up', 0, f, sdk'[f], Held(f))
  <2>1. CASE Head(up).type = "open" /\ present = "no" /\ sdk' = Head(up).settings
    BY <1>4, <2>1
  <2>2. CASE present # "no" /\ Head(up).type # "close"
    <3>1. NoClose
      <4>1. ASSUME NEW j \in DOMAIN up, j # 1
            PROVE  up[j].type # "close"
        <5>1. j - 1 \in DOMAIN up' /\ up'[j - 1] = up[j]
          BY <1>2, <4>1
        <5> QED
          BY <1>5, <5>1 DEF NoClose
      <4> QED
        BY <1>2, <2>2, <4>1 DEF NoClose
    <3>2. SetsLeave(up, 0, f, sdk[f], Held(f))
      BY <1>1, <2>2, <3>1 DEF SdkFollows, Kept
    <3>3. SetsLeave(up', 0, f, IF Sets(Head(up), f) THEN Head(up).value ELSE sdk[f], Held(f))
      BY <1>2, <3>2, SetDone
    <3>4. sdk'[f] = IF Sets(Head(up), f) THEN Head(up).value ELSE sdk[f]
      <4>1. sdk \in [Field -> Value] /\ f \in Field
        BY DEF TypeOK, Field
      <4>2. Head(up).type = "set" => Head(up).field \in Field
        BY <1>2, Requests DEF Field
      <4> QED
        BY <1>1, <1>5, <2>2, <4>1, <4>2 DEF Sets
    <3> QED
      BY <3>3, <3>4
  <2> QED
    BY <1>1, <1>5, <2>1, <2>2
<1> QED
  BY <1>4, <1>5

-----------------------------------------------------------------------------
(* The copies of mode and model.                                           *)

\* Whoever changes mode or model changes the handle and queues the update of the row; a
\* restart opens what both say, and a boot what the row says.
LEMMA RowFollowsStep ==
  ASSUME TypeOK, StoreInv, RowFollows, [Next]_vars
  PROVE  RowFollows'
<1> USE DEF RowFollows, InTable, heldVars, storeVars, openVars, wireVars, runnerVars, pastVars
<1>1. CASE UNCHANGED vars
  BY <1>1 DEF vars
<1>2. ASSUME NEW f \in Live, NEW v \in Value, Change(f, v) PROVE RowFollows'
  <2> DEFINE r == [field |-> f, value |-> v]
  <2>1. r \in [field : Field, value : Value] /\ r.field = f /\ r.value = v
    BY <1>2 DEF Field
  <2>2. writes' = Append(writes, r)
    BY <1>2 DEF Change, Saves
  <2> HIDE DEF r
  <2>3. handle' = [handle EXCEPT ![f] = v] /\ f \in OfState
    BY <1>2 DEF Change, Live, OfState
  <2>4. \A g \in Live : handle'[g] = IF g = f THEN v ELSE handle[g]
    BY <2>3 DEF TypeOK, Live, OfState
  <2>5. \A g \in Live : WritesLeave(writes, g, row[g], handle[g]) =>
          WritesLeave(writes', g, row[g], handle'[g])
    BY <2>1, <2>2, <2>4, WriteAdded DEF TypeOK
  <2>6. session["model"] = handle["model"] => session'["model"] = handle'["model"]
    BY <1>2, <2>4 DEF Change, OfSession, Live, TypeOK
  <2> QED
    BY <2>5, <2>6, <1>2 DEF Change, Asked
<1>3. ASSUME NEW v \in Value, SetEffort(v) PROVE RowFollows'
  <2>1. PICK r \in [field : Field, value : Value] :
          r.field = "effort" /\ writes' = Append(writes, r)
    BY <1>3 DEF SetEffort, Saves, Field
  <2>2. \A f \in Live : WritesLeave(writes, f, row[f], handle[f]) =>
          WritesLeave(writes', f, row[f], handle[f])
    BY <2>1, WriteAdded DEF TypeOK, Live
  <2> QED
    BY <2>2, <1>3 DEF SetEffort, Asked, Live, OfSession, TypeOK
<1>4. ASSUME NEW v \in Value, Think(v) PROVE RowFollows'
  <2>1. PICK r \in [field : Field, value : Value] :
          r.field = "thinking" /\ writes' = Append(writes, r)
    BY <1>4 DEF Think, Saves, Field
  <2>2. \A f \in Live : WritesLeave(writes, f, row[f], handle[f]) =>
          WritesLeave(writes', f, row[f], handle[f])
    BY <2>1, WriteAdded DEF TypeOK, Live
  <2> QED
    BY <2>2, <1>4 DEF Think, Asked, Live, OfSession, TypeOK
<1>5. CASE Written
  <2> DEFINE w == Head(writes)
  <2>1. w \in [field : Field, value : Value] /\ writes # <<>> /\ writes' = Tail(writes)
    BY <1>5, Taken DEF Written, TypeOK
  <2>2. row' = [row EXCEPT ![w.field] = w.value]
    BY <1>5 DEF Written
  <2>3. \A f \in Live : row'[f] = IF w.field = f THEN w.value ELSE row[f]
    BY <2>1, <2>2 DEF TypeOK, Field
  <2>4. \A f \in Live : WritesLeave(writes, f, row[f], handle[f]) =>
          WritesLeave(writes', f, IF w.field = f THEN w.value ELSE row[f], handle[f])
    BY <2>1, WriteDone DEF TypeOK
  <2>5. restart' = restart \/ restart' = "due"
    BY <1>5 DEF Written
  <2>6. InTable
    BY <2>1 DEF StoreInv, BootFromRow
  <2> HIDE DEF w
  <2> QED
    BY <2>3, <2>4, <2>5, <2>6, <1>5 DEF Written
<1>6. CASE BeginRestart
  <2>1. handle["mode"] = OpenWith["mode"] /\ session["model"] = OpenWith["model"]
    BY DEF OpenWith, Field, Live
  <2>2. restart' = "opening" => fresh' = [f \in OfState |-> OpenWith[f]]
    BY <1>6 DEF BeginRestart, CloseEnds, OpenSession
  <2>3. restart' = "opening" =>
          fresh'["mode"] = OpenWith["mode"] /\ fresh'["model"] = OpenWith["model"]
    BY <2>2 DEF OfState
  <2>4. restart \in {"idle", "due", "closing"}
    BY <1>6 DEF BeginRestart, CloseEnds
  <2> QED
    BY <2>1, <2>3, <2>4, <1>6 DEF BeginRestart, CloseEnds, Live
<1>7. CASE CloseEnds
  <2>1. handle["mode"] = OpenWith["mode"] /\ session["model"] = OpenWith["model"]
    BY DEF OpenWith, Field, Live
  <2>2. restart' = "opening" => fresh' = [f \in OfState |-> OpenWith[f]]
    BY <1>7 DEF BeginRestart, CloseEnds, OpenSession
  <2>3. restart' = "opening" =>
          fresh'["mode"] = OpenWith["mode"] /\ fresh'["model"] = OpenWith["model"]
    BY <2>2 DEF OfState
  <2>4. restart \in {"idle", "due", "closing"}
    BY <1>7 DEF BeginRestart, CloseEnds
  <2> QED
    BY <2>1, <2>3, <2>4, <1>7 DEF BeginRestart, CloseEnds, Live
<1>8. CASE OpenReturns
  <2>1. /\ handle' = fresh /\ restart' = "idle"
        /\ UNCHANGED <<row, writes, missed>>
    BY <1>8 DEF OpenReturns
  <2>2. CASE restart = "booting"
    <3>1. writes = <<>> /\ fresh["mode"] = row["mode"] /\ fresh["model"] = row["model"]
      BY <2>2 DEF StoreInv, BootFromRow, OfState
    <3>2. \A f \in Live : row[f] = fresh[f]
      BY <3>1 DEF Live
    <3>3. \A f \in Live : WritesLeave(writes, f, row[f], fresh[f])
      BY <3>1, <3>2, NothingToWrite
    <3>4. session'["model"] = row["model"]
      BY <1>8, <2>2 DEF OpenReturns, OfSession
    <3> QED
      BY <2>1, <3>1, <3>3, <3>4
  <2>3. CASE restart = "opening"
    BY <2>1, <2>3, <1>8 DEF OpenReturns, Live
  <2> QED
    BY <2>2, <2>3, <1>8 DEF OpenReturns, Opening
<1>9. CASE OpenRaises
  BY <1>9 DEF OpenRaises, Opening, Steady
<1>10. CASE Deliver
  BY <1>10 DEF Deliver
<1>11. CASE Drop
  BY <1>11 DEF Drop, Fault, Unlink, Connected
<1>12. CASE Dial
  BY <1>12 DEF Dial
<1>13. CASE Reopen
  BY <1>13 DEF Reopen
<1>14. CASE Crash
  BY <1>14 DEF Crash, Fault, Unlink
<1>15. CASE Boot
  BY <1>15 DEF Boot
<1>16. CASE HandleSet
  BY <1>16 DEF HandleSet, Handles, Reports, Connected, Fault
<1>17. CASE HandleOpen
  BY <1>17 DEF HandleOpen, Handles, Reports, Connected
<1>18. CASE StartReturns
  BY <1>18 DEF StartReturns, Reports, Connected
<1>19. CASE HandleClose
  BY <1>19 DEF HandleClose, Handles, Reports, Connected
<1>20. ASSUME NEW f \in Live, NEW v \in Value, ReopenBehindChange(f, v) PROVE RowFollows'
  BY <1>20 DEF ReopenBehindChange
<1>21. QED
  BY <1>1, <1>2, <1>3, <1>4, <1>5, <1>6, <1>7, <1>8, <1>9, <1>10, <1>11, <1>12, <1>13, <1>14, <1>15,
     <1>16, <1>17, <1>18, <1>19, <1>20
     DEF Next, Command

\* Every envelope sent keeps the SDK, or what an open on its way will start, headed for
\* what the session is held to; every envelope served brings it there.
LEMMA SdkFollowsStep ==
  ASSUME TypeOK, StoreInv, AgreeInv, [Next]_vars
  PROVE  SdkFollows'
<1> USE DEF SdkFollows, Held, InTable, OpenAt, NoClose, heldVars, storeVars, openVars, wireVars,
        runnerVars, pastVars
<1>1. CASE UNCHANGED vars
  <2>1. UNCHANGED <<up, sdk, missed>> /\ (present' # "no" => present # "no")
    BY <1>1 DEF vars, Kept
  <2>2. Kept' => Kept
    BY <1>1 DEF Kept, vars
  <2>3. \A f \in Live : Held(f)' = Held(f)
    BY <1>1 DEF Held, vars
  <2> QED
    BY <2>1, <2>2, <2>3, SdkKept DEF AgreeInv
<1>2. ASSUME NEW f \in Live, NEW v \in Value, Change(f, v) PROVE SdkFollows'
  <2> DEFINE r == [type |-> "set", field |-> f, value |-> v]
  <2>1. r \in Request /\ r.type = "set" /\ r.field = f /\ r.value = v
    BY <1>2, Requests
  <2>2. up' = Append(up, r)
    BY <1>2 DEF Change
  <2> HIDE DEF r
  <2>3. handle' = [handle EXCEPT ![f] = v] /\ f \in OfState
    BY <1>2 DEF Change, Live, OfState
  <2>4. \A g \in Live : handle'[g] = IF g = f THEN v ELSE handle[g]
    BY <2>3 DEF TypeOK, Live, OfState
  <2>5. InTable /\ restart' = restart /\ UNCHANGED <<present, sdk>> /\ (~missed' => ~missed)
    BY <1>2 DEF Change, Asked
  <2>6. \A g \in Live : Held(g) = handle[g] /\ Held(g)' = handle'[g]
    BY <2>5
  <2> QED
    BY <2>1, <2>2, <2>4, <2>5, <2>6, SdkSent DEF AgreeInv, Kept, Sets
<1>3. ASSUME NEW v \in Value, SetEffort(v) PROVE SdkFollows'
  <2>1. UNCHANGED <<up, sdk, missed>> /\ (present' # "no" => present # "no")
    BY <1>3 DEF SetEffort, Asked, Saves
  <2>2. Kept' => Kept
    BY <1>3 DEF Kept, SetEffort, Asked, Saves
  <2>3. \A f \in Live : Held(f)' = Held(f)
    BY <1>3 DEF Held, SetEffort, Asked, Saves
  <2> QED
    BY <2>1, <2>2, <2>3, SdkKept DEF AgreeInv
<1>4. ASSUME NEW v \in Value, Think(v) PROVE SdkFollows'
  <2>1. UNCHANGED <<up, sdk, missed>> /\ (present' # "no" => present # "no")
    BY <1>4 DEF Think, Asked, Saves
  <2>2. Kept' => Kept
    BY <1>4 DEF Kept, Think, Asked, Saves
  <2>3. \A f \in Live : Held(f)' = Held(f)
    BY <1>4 DEF Held, Think, Asked, Saves
  <2> QED
    BY <2>1, <2>2, <2>3, SdkKept DEF AgreeInv
<1>5. CASE Written
  <2>1. /\ UNCHANGED <<up, sdk, missed, present, handle, fresh>>
        /\ restart' = restart \/ restart' = "due"
    BY <1>5 DEF Written
  <2>2. InTable
    BY <1>5 DEF Written, StoreInv, BootFromRow
  <2>3. \A f \in Live : Held(f)' = Held(f)
    BY <2>1, <2>2 DEF Held
  <2> QED
    BY <2>1, <2>2, <2>3, SdkKept DEF AgreeInv, Kept
<1>6. CASE BeginRestart
  <2> DEFINE r == [type |-> "open", settings |-> OpenWith]
             c == [type |-> "close"]
  <2>1. r \in Request /\ r.type = "open" /\ r.settings = OpenWith
        /\ c \in Request /\ c.type = "close"
    BY Requests, OpensAreSettings DEF TypeOK
  <2>2. up' = up \/ up' = Append(up, r) \/ up' = Append(up, c)
    BY <1>6 DEF BeginRestart, CloseEnds, OpenSession
  <2> HIDE DEF r, c
  <2>3. InTable /\ restart # "booting" /\ restart' # "booting"
        /\ UNCHANGED <<present, sdk, missed, handle>>
    BY <1>6 DEF BeginRestart, CloseEnds, OpenSession, Asked
  <2>4. \A f \in Live : Held(f) = handle[f] /\ Held(f)' = handle[f]
    BY <2>3
  <2>5. CASE missed
    BY <2>3, <2>5
  <2>6. CASE ~missed
    <3>1. \A f \in Live : OpenWith[f] = handle[f]
      BY <2>3, <2>6 DEF AgreeInv, RowFollows, OpenWith, Field, Live
    <3>2. CASE up' = up
      BY <2>3, <2>4, <3>2, SdkKept DEF AgreeInv, Kept
    <3>3. CASE up' = Append(up, r)
      BY <2>1, <2>3, <2>4, <3>1, <3>3, SdkSent DEF AgreeInv, Kept, Sets
    <3>4. CASE up' = Append(up, c)
      BY <2>1, <2>3, <2>4, <3>4, SdkSent DEF AgreeInv, Kept, Sets
    <3> QED
      BY <2>2, <3>2, <3>3, <3>4
  <2> QED
    BY <2>5, <2>6 DEF TypeOK
<1>7. CASE CloseEnds
  <2> DEFINE r == [type |-> "open", settings |-> OpenWith]
             c == [type |-> "close"]
  <2>1. r \in Request /\ r.type = "open" /\ r.settings = OpenWith
        /\ c \in Request /\ c.type = "close"
    BY Requests, OpensAreSettings DEF TypeOK
  <2>2. up' = up \/ up' = Append(up, r) \/ up' = Append(up, c)
    BY <1>7 DEF BeginRestart, CloseEnds, OpenSession
  <2> HIDE DEF r, c
  <2>3. InTable /\ restart # "booting" /\ restart' # "booting"
        /\ UNCHANGED <<present, sdk, missed, handle>>
    BY <1>7 DEF BeginRestart, CloseEnds, OpenSession, Asked
  <2>4. \A f \in Live : Held(f) = handle[f] /\ Held(f)' = handle[f]
    BY <2>3
  <2>5. CASE missed
    BY <2>3, <2>5
  <2>6. CASE ~missed
    <3>1. \A f \in Live : OpenWith[f] = handle[f]
      BY <2>3, <2>6 DEF AgreeInv, RowFollows, OpenWith, Field, Live
    <3>2. CASE up' = up
      BY <2>3, <2>4, <3>2, SdkKept DEF AgreeInv, Kept
    <3>3. CASE up' = Append(up, r)
      BY <2>1, <2>3, <2>4, <3>1, <3>3, SdkSent DEF AgreeInv, Kept, Sets
    <3>4. CASE up' = Append(up, c)
      BY <2>1, <2>3, <2>4, <3>4, SdkSent DEF AgreeInv, Kept, Sets
    <3> QED
      BY <2>2, <3>2, <3>3, <3>4
  <2> QED
    BY <2>5, <2>6 DEF TypeOK
<1>8. CASE OpenReturns
  <2>1. UNCHANGED <<up, sdk, missed, present>> /\ restart' = "idle" /\ handle' = fresh
    BY <1>8 DEF OpenReturns
  <2>2. restart \in {"opening", "booting"}
    BY <1>8 DEF OpenReturns, Opening
  <2>3. CASE missed
    BY <2>1, <2>3
  <2>4. CASE ~missed
    <3>1. \A f \in Live : Held(f)' = Held(f)
      BY <2>1, <2>2, <2>4 DEF Held, AgreeInv, RowFollows
    <3> QED
      BY <2>1, <2>2, <3>1, SdkKept DEF AgreeInv, Kept
  <2> QED
    BY <2>3, <2>4 DEF TypeOK
<1>9. CASE OpenRaises
  <2>1. UNCHANGED <<up, sdk, missed, present, handle, fresh>>
    BY <1>9 DEF OpenRaises
  <2>2. CASE restart = "booting"
    BY <1>9, <2>2 DEF OpenRaises
  <2>3. CASE restart # "booting"
    <3>1. InTable /\ restart' = "idle"
      BY <1>9, <2>3 DEF OpenRaises, Opening
    <3>2. \A f \in Live : Held(f)' = Held(f)
      BY <2>1, <2>3, <3>1 DEF Held
    <3> QED
      BY <2>1, <3>1, <3>2, SdkKept DEF AgreeInv, Kept
  <2> QED
    BY <2>2, <2>3
<1>10. CASE Deliver
  <2>1. UNCHANGED <<up, sdk, missed>> /\ (present' # "no" => present # "no")
    BY <1>10 DEF Deliver
  <2>2. Kept' => Kept
    BY <1>10 DEF Kept, Deliver
  <2>3. \A f \in Live : Held(f)' = Held(f)
    BY <1>10 DEF Held, Deliver
  <2> QED
    BY <2>1, <2>2, <2>3, SdkKept DEF AgreeInv
<1>11. CASE Drop
  BY <1>11 DEF Drop, Fault, Unlink, Connected
<1>12. CASE Dial
  <2>1. UNCHANGED <<up, sdk, missed>> /\ (present' # "no" => present # "no")
    BY <1>12 DEF Dial
  <2>2. Kept' => Kept
    BY <1>12 DEF Kept, Dial
  <2>3. \A f \in Live : Held(f)' = Held(f)
    BY <1>12 DEF Held, Dial
  <2> QED
    BY <2>1, <2>2, <2>3, SdkKept DEF AgreeInv
<1>13. CASE Reopen
  <2> DEFINE r == [type |-> "open", settings |-> ReopenWith]
  <2>1. r \in Request /\ r.type = "open" /\ r.settings = ReopenWith
    BY Requests, OpensAreSettings DEF TypeOK
  <2>2. /\ UNCHANGED <<restart, handle, fresh, present, sdk>>
        /\ (tracked = "none" => up' = up /\ missed' = missed)
        /\ (tracked # "none" => /\ up' = Append(up, r)
                               /\ (~missed' => ~missed /\ ~(tracked = "fresh" /\ ~Opening)))
    BY <1>13 DEF Reopen, TypeOK
  <2> HIDE DEF r
  <2>3. CASE tracked = "none"
    BY <2>2, <2>3, SdkKept DEF AgreeInv, Kept
  <2>4. CASE missed' \/ ~Kept
    BY <2>2, <2>4 DEF Kept
  <2>5. CASE tracked # "none" /\ ~missed' /\ Kept
    <3>1. \A f \in Live :
            ReopenWith[f] = IF tracked = "fresh" THEN fresh[f] ELSE handle[f]
      BY DEF ReopenWith, Live, OfState, Field
    <3>2. tracked = "fresh" => Opening
      BY <2>2, <2>5
    <3>3. tracked # "fresh" => restart # "booting"
      BY <2>5 DEF TypeOK, StoreInv, BootFromRow
    <3>4. \A f \in Live : ReopenWith[f] = Held(f)
      BY <2>2, <2>5, <3>1, <3>2, <3>3 DEF AgreeInv, RowFollows, Opening
    <3>5. \A f \in Live : Held(f)' = Held(f)
      BY <2>2
    <3> QED
      BY <2>1, <2>2, <2>5, <3>4, <3>5, SdkSent DEF AgreeInv, Kept, Sets
  <2> QED
    BY <2>3, <2>4, <2>5 DEF TypeOK
<1>14. CASE Crash
  BY <1>14 DEF Crash, Fault, Unlink
<1>15. CASE Boot
  <2> DEFINE r == [type |-> "open", settings |-> row]
  <2>1. r \in Request /\ r.settings = row
    BY Requests DEF TypeOK
  <2>2. up = <<>> /\ present = "no" /\ UNCHANGED present
    BY <1>15 DEF Boot, StoreInv, DownIsEmpty
  <2>3. up' = Append(up, r)
    BY <1>15 DEF Boot
  <2> HIDE DEF r
  <2>4. up' \in Seq(Request) /\ Len(up') = 1 /\ DOMAIN up' = {1} /\ up'[1] = r
    BY <2>1, <2>2, <2>3
  <2>5. restart' = "booting" /\ fresh' = [f \in OfState |-> row[f]]
    BY <1>15 DEF Boot
  <2>6. \A f \in Live : Held(f)' = row[f]
    BY <2>5 DEF OfState, Live
  <2>7. \A f \in Live : SetsLeave(up', 1, f, row[f], row[f])
    <3>1. \A f \in Live : SetsLeave(up', Len(up'), f, row[f], row[f])
      BY <2>4, NothingBehind
    <3> QED
      BY <2>4, <3>1
  <2> QED
    BY <2>1, <2>2, <2>4, <2>6, <2>7
<1>16. CASE HandleSet
  <2>1. up # <<>> /\ up' = Tail(up) /\ (Kept' => Kept) /\ \A f \in Live : Held(f)' = Held(f)
    BY <1>16 DEF HandleSet, Handles, Kept
  <2>2. (~missed' => ~missed)
    BY <1>16 DEF HandleSet
  <2>3. ~missed' /\ present' # "no" =>
          \/ /\ Head(up).type = "set" /\ present # "no"
             /\ sdk' = [sdk EXCEPT ![Head(up).field] = Head(up).value]
          \/ Head(up).type = "open" /\ present = "no" /\ sdk' = Head(up).settings
          \/ Head(up).type = "open" /\ present # "no" /\ sdk' = sdk
    BY <1>16 DEF HandleSet, Handles, TypeOK, Fault
  <2> QED
    BY <2>1, <2>2, <2>3, SdkServed DEF AgreeInv
<1>17. CASE HandleOpen
  <2>1. up # <<>> /\ up' = Tail(up) /\ (Kept' => Kept) /\ \A f \in Live : Held(f)' = Held(f)
    BY <1>17 DEF HandleOpen, Handles, Kept
  <2>2. (~missed' => ~missed)
    BY <1>17 DEF HandleOpen
  <2>3. ~missed' /\ present' # "no" =>
          \/ /\ Head(up).type = "set" /\ present # "no"
             /\ sdk' = [sdk EXCEPT ![Head(up).field] = Head(up).value]
          \/ Head(up).type = "open" /\ present = "no" /\ sdk' = Head(up).settings
          \/ Head(up).type = "open" /\ present # "no" /\ sdk' = sdk
    BY <1>17 DEF HandleOpen, Handles, TypeOK, Fault
  <2> QED
    BY <2>1, <2>2, <2>3, SdkServed DEF AgreeInv
<1>18. CASE StartReturns
  <2>1. UNCHANGED <<up, sdk, missed>> /\ (present' # "no" => present # "no")
    BY <1>18 DEF StartReturns, Reports, Connected
  <2>2. Kept' => Kept
    BY <1>18 DEF Kept, StartReturns, Reports, Connected
  <2>3. \A f \in Live : Held(f)' = Held(f)
    BY <1>18 DEF Held, StartReturns, Reports, Connected
  <2> QED
    BY <2>1, <2>2, <2>3, SdkKept DEF AgreeInv
<1>19. CASE HandleClose
  <2>1. up # <<>> /\ up' = Tail(up) /\ (Kept' => Kept) /\ \A f \in Live : Held(f)' = Held(f)
    BY <1>19 DEF HandleClose, Handles, Kept
  <2>2. (~missed' => ~missed)
    BY <1>19 DEF HandleClose
  <2>3. ~missed' /\ present' # "no" =>
          \/ /\ Head(up).type = "set" /\ present # "no"
             /\ sdk' = [sdk EXCEPT ![Head(up).field] = Head(up).value]
          \/ Head(up).type = "open" /\ present = "no" /\ sdk' = Head(up).settings
          \/ Head(up).type = "open" /\ present # "no" /\ sdk' = sdk
    BY <1>19 DEF HandleClose, Handles, TypeOK, Fault
  <2> QED
    BY <2>1, <2>2, <2>3, SdkServed DEF AgreeInv
<1>20. ASSUME NEW f \in Live, NEW v \in Value, ReopenBehindChange(f, v) PROVE SdkFollows'
  BY <1>20 DEF ReopenBehindChange
<1>21. QED
  BY <1>1, <1>2, <1>3, <1>4, <1>5, <1>6, <1>7, <1>8, <1>9, <1>10, <1>11, <1>12, <1>13, <1>14, <1>15,
     <1>16, <1>17, <1>18, <1>19, <1>20
     DEF Next, Command

-----------------------------------------------------------------------------
(* What thinks.                                                            *)

\* The update that ends /think finds its command waiting; no other moves a restart.
LEMMA WrittenEffect ==
  ASSUME TypeOK, StoreInv, Written
  PROVE  /\ restart' = restart \/ (restart = "saving" /\ restart' = "due")
         /\ UNCHANGED <<heldVars, fresh, freshClosed, tracked, opened, rejected, wireVars,
                        runnerVars, pastVars>>
<1>1. restart' = IF Head(writes).field = "thinking" THEN "due" ELSE restart
  BY DEF Written
<1>2. Head(writes) = writes[1] /\ 1 \in DOMAIN writes
  BY DEF Written, TypeOK
<1>3. writes[1].field = "thinking" => restart = "saving"
  BY <1>2 DEF StoreInv, ThinkingWrites
<1>4. UNCHANGED <<heldVars, fresh, freshClosed, tracked, opened, rejected, wireVars, runnerVars,
                 pastVars>>
  BY DEF Written
<1>5. restart' = restart \/ (restart = "saving" /\ restart' = "due")
  BY <1>1, <1>2, <1>3
<1> QED
  BY <1>4, <1>5

\* The queue of requests, an envelope longer.
LEMMA Longer ==
  ASSUME up \in Seq(Request), NEW r \in Request, up' = Append(up, r)
  PROVE  /\ Len(up) \in Nat /\ DOMAIN up = 1 .. Len(up) /\ DOMAIN up' = 1 .. Len(up) + 1
         /\ \A i \in DOMAIN up : i \in DOMAIN up' /\ up'[i] = up[i]
         /\ up'[Len(up) + 1] = r
OBVIOUS

\* The queue of requests, its first served.
LEMMA Shorter ==
  ASSUME up \in Seq(Request), up # <<>>, up' = Tail(up)
  PROVE  /\ Len(up) \in Nat \ {0} /\ DOMAIN up = 1 .. Len(up)
         /\ DOMAIN up' = 1 .. Len(up) - 1
         /\ \A i \in DOMAIN up' : i + 1 \in DOMAIN up /\ up'[i] = up[i + 1]
         /\ \A i \in DOMAIN up : i # 1 => i - 1 \in DOMAIN up' /\ up'[i - 1] = up[i]
         /\ Head(up) = up[1] /\ Head(up) \in Request
OBVIOUS

\* The queue of events, an event longer.
LEMMA Reported ==
  ASSUME TypeOK, NEW e \in {"opened", "error", "closed"}, down' = Append(down, e)
  PROVE  /\ Len(down) \in Nat /\ DOMAIN down = 1 .. Len(down)
         /\ DOMAIN down' = 1 .. Len(down) + 1
         /\ \A i \in DOMAIN down : i \in DOMAIN down' /\ down'[i] = down[i]
         /\ down'[Len(down) + 1] = e
<1>1. down \in Seq({"opened", "error", "closed"})
  BY DEF TypeOK
<1> QED
  BY <1>1

\* What a restart does to the queue, the restart itself and the link's entry.
LEMMA OpenEffect ==
  ASSUME TypeOK, BeginRestart \/ CloseEnds
  PROVE  \/ up' = up /\ restart' = "idle"
         \/ /\ Append(up, [type |-> "close"]) = up' /\ [type |-> "close"] \in Request
            /\ BeginRestart /\ ~closed /\ Connected /\ restart' = "closing"
         \/ \E r \in Request :
              /\ r.type = "open" /\ r.settings = OpenWith
              /\ up' = Append(up, r) /\ restart' = "opening"
              /\ fresh' = [f \in OfState |-> OpenWith[f]]
              /\ tracked' = "fresh" /\ ~opened' /\ Connected
<1>1. [type |-> "open", settings |-> OpenWith] \in Request /\ [type |-> "close"] \in Request
  BY Requests, OpensAreSettings DEF TypeOK
<1> QED
  BY <1>1 DEF BeginRestart, CloseEnds, OpenSession

\* The four while no open is unawaited.
Thinks == OneOpen /\ OpenedIsAwaited /\ ClosedIsGone /\ ThinksAsAsked

\* A restart begins only when no open is under way, and ends when its own is.
LEMMA OneOpenStep ==
  ASSUME TypeOK, StoreInv, Thinks, ~unawaited, ~unawaited', [Next]_vars, ~Boot
  PROVE  OneOpen'
<1> USE DEF Thinks, TypeOK, OneOpen, OpenAt, NoOpen, NoClose, Opening, heldVars, storeVars,
        openVars, wireVars, runnerVars, pastVars
<1>1. CASE UNCHANGED vars
  BY <1>1 DEF vars
<1>2. ASSUME NEW f \in Live, NEW v \in Value, Change(f, v) PROVE OneOpen'
  BY <1>2 DEF Change, Asked, Connected, Saves
<1>3. ASSUME NEW v \in Value, SetEffort(v) PROVE OneOpen'
  BY <1>3 DEF SetEffort, Asked, Saves
<1>4. ASSUME NEW v \in Value, Think(v) PROVE OneOpen'
  BY <1>4 DEF Think, Asked, Saves
<1>5. CASE Written
  BY <1>5, WrittenEffect
<1>6. CASE BeginRestart
  <2>1. present # "starting" /\ NoOpen
    BY <1>6 DEF BeginRestart, Steady
  <2>2. UNCHANGED <<heldVars, storeVars, link, down, runnerVars>>
    BY <1>6 DEF BeginRestart, CloseEnds
  <2>3. CASE up' = up /\ restart' = "idle"
    BY <2>1, <2>2, <2>3
  <2>4. CASE /\ up' = Append(up, [type |-> "close"]) /\ [type |-> "close"] \in Request
             /\ restart' = "closing"
    BY <2>1, <2>2, <2>4, Longer
  <2>5. ASSUME NEW r \in Request, r.type = "open", r.settings = OpenWith, up' = Append(up, r),
               restart' = "opening"
        PROVE  OneOpen'
    BY <2>1, <2>2, <2>5, Longer
  <2> QED
    BY <1>6, <2>3, <2>4, <2>5, OpenEffect
<1>7. CASE CloseEnds
  <2>1. present # "starting" /\ NoOpen
    BY <1>7 DEF CloseEnds
  <2>2. UNCHANGED <<heldVars, storeVars, link, down, runnerVars>>
    BY <1>7 DEF BeginRestart, CloseEnds
  <2>3. CASE up' = up /\ restart' = "idle"
    BY <2>1, <2>2, <2>3
  <2>4. CASE /\ up' = Append(up, [type |-> "close"]) /\ [type |-> "close"] \in Request
             /\ restart' = "closing"
    BY <2>1, <2>2, <2>4, Longer
  <2>5. ASSUME NEW r \in Request, r.type = "open", r.settings = OpenWith, up' = Append(up, r),
               restart' = "opening"
        PROVE  OneOpen'
    BY <2>1, <2>2, <2>5, Longer
  <2> QED
    BY <1>7, <2>3, <2>4, <2>5, OpenEffect
<1>8. CASE OpenReturns
  BY <1>8 DEF OpenReturns, OpenedIsAwaited
<1>9. CASE OpenRaises
  BY <1>9 DEF OpenRaises, Opening, Steady
<1>10. CASE Deliver
  BY <1>10 DEF Deliver
<1>11. CASE Drop
  BY <1>11 DEF Drop, Fault, Unlink, Connected
<1>12. CASE Dial
  BY <1>12 DEF Dial
<1>13. CASE Reopen
  BY <1>13 DEF Reopen
<1>14. CASE Crash
  BY <1>14 DEF Crash, Fault, Unlink
<1>15. CASE Boot
  BY <1>15 DEF Boot
<1>16. CASE HandleSet
  <2>1. up # <<>> /\ up' = Tail(up) /\ Head(up).type = "set"
    BY <1>16 DEF HandleSet, Handles
  <2>2. UNCHANGED <<restart, present>>
    BY <1>16 DEF HandleSet
  <2>3. \A i, j \in DOMAIN up' : OpenAt(i)' /\ OpenAt(j)' => i = j
    <3>1. ASSUME NEW i \in DOMAIN up', NEW j \in DOMAIN up', OpenAt(i)', OpenAt(j)'
          PROVE  i + 1 = j + 1 /\ i \in Nat /\ j \in Nat
      BY <2>1, <3>1, Shorter
    <3> QED
      BY <3>1
  <2>4. \A i, j \in DOMAIN up' : OpenAt(i)' /\ up'[j].type = "close" => j < i
    <3>1. ASSUME NEW i \in DOMAIN up', NEW j \in DOMAIN up', OpenAt(i)', up'[j].type = "close"
          PROVE  j + 1 < i + 1 /\ i \in Nat /\ j \in Nat
      BY <2>1, <3>1, Shorter
    <3> QED
      BY <3>1
  <2>5. (~NoOpen' => ~NoOpen) /\ (NoOpen => NoOpen') /\ (NoClose => NoClose')
    BY <2>1, Shorter
  <2> QED
    BY <2>2, <2>3, <2>4, <2>5
<1>17. CASE HandleOpen
  BY <1>17 DEF HandleOpen, Handles, Reports, Connected
<1>18. CASE StartReturns
  BY <1>18 DEF StartReturns, Reports, Connected
<1>19. CASE HandleClose
  BY <1>19 DEF HandleClose, Handles, Reports, Connected
<1>20. ASSUME NEW f \in Live, NEW v \in Value, ReopenBehindChange(f, v) PROVE OneOpen'
  BY <1>20 DEF ReopenBehindChange
<1>21. QED
  BY <1>1, <1>2, <1>3, <1>4, <1>5, <1>6, <1>7, <1>8, <1>9, <1>10, <1>11, <1>12, <1>13, <1>14, <1>15,
     <1>16, <1>17, <1>18, <1>19, <1>20
     DEF Next, Command

\* The runner answers the one open there is, and nothing is closed behind it.
LEMMA OpenedIsAwaitedStep ==
  ASSUME TypeOK, StoreInv, Thinks, ~unawaited, ~unawaited', [Next]_vars, ~Boot
  PROVE  OpenedIsAwaited'
<1> USE DEF Thinks, TypeOK, OpenedIsAwaited, OpenAt, NoOpen, NoClose, Opening, heldVars, storeVars,
        openVars, wireVars, runnerVars, pastVars
<1>1. CASE UNCHANGED vars
  BY <1>1 DEF vars
<1>2. ASSUME NEW f \in Live, NEW v \in Value, Change(f, v) PROVE OpenedIsAwaited'
  BY <1>2 DEF Change, Asked, Connected, Saves
<1>3. ASSUME NEW v \in Value, SetEffort(v) PROVE OpenedIsAwaited'
  BY <1>3 DEF SetEffort, Asked, Saves
<1>4. ASSUME NEW v \in Value, Think(v) PROVE OpenedIsAwaited'
  BY <1>4 DEF Think, Asked, Saves
<1>5. CASE Written
  BY <1>5, WrittenEffect
<1>6. CASE BeginRestart
  BY <1>6 DEF BeginRestart, Asked, OpenSession, Connected
<1>7. CASE CloseEnds
  BY <1>7 DEF CloseEnds, OpenSession, Connected
<1>8. CASE OpenReturns
  BY <1>8 DEF OpenReturns, Opening
<1>9. CASE OpenRaises
  <2>1. present # "open" /\ tracked' = "none" /\ UNCHANGED down
    BY <1>9 DEF OpenRaises
  <2>2. \A i \in DOMAIN down : down[i] # "opened"
    BY <2>1
  <2> QED
    BY <2>1, <2>2
<1>10. CASE Deliver
  <2>1. /\ down # <<>> /\ down' = Tail(down) /\ Head(down) = down[1]
        /\ \A i \in DOMAIN down' : i \in Nat /\ i + 1 \in DOMAIN down /\ down'[i] = down[i + 1]
        /\ 1 \in DOMAIN down /\ \A i \in DOMAIN down' : i + 1 > 1
    BY <1>10 DEF Deliver
  <2>2. UNCHANGED <<restart, present, up>> /\ (rejected' = rejected \/ rejected')
    BY <1>10 DEF Deliver
  <2>3. \A i \in DOMAIN down' : down'[i] = "opened" =>
          /\ Opening /\ present = "open" /\ NoOpen /\ NoClose
          /\ \A j \in DOMAIN down' : down'[j] = "opened" => i = j
          /\ \A j \in DOMAIN down' : j > i => down'[j] # "closed"
    <3>1. ASSUME NEW i \in DOMAIN down', down'[i] = "opened"
          PROVE  /\ Opening /\ present = "open" /\ NoOpen /\ NoClose
                 /\ \A j \in DOMAIN down' : down'[j] = "opened" => i + 1 = j + 1
                 /\ \A j \in DOMAIN down' : j + 1 > i + 1 => down'[j] # "closed"
      BY <2>1, <3>1
    <3> QED
      BY <2>1, <3>1
  <2>4. ASSUME Opening, tracked' = "fresh", opened', ~rejected'
        PROVE  /\ present # "starting" /\ NoOpen /\ NoClose
               /\ \A i \in DOMAIN down' : down'[i] \notin {"opened", "closed"}
    <3>1. tracked = "fresh" /\ (down[1] = "opened" \/ (opened /\ ~rejected))
      BY <1>10, <2>1, <2>4 DEF Deliver
    <3>2. CASE down[1] = "opened"
      BY <2>1, <3>2
    <3>3. CASE opened /\ ~rejected
      BY <2>1, <2>4, <3>1, <3>3
    <3> QED
      BY <3>1, <3>2, <3>3
  <2> HIDE DEF NoOpen, NoClose
  <2>5. NoOpen' = NoOpen /\ NoClose' = NoClose
    BY <2>2 DEF NoOpen, NoClose
  <2> QED
    BY <2>2, <2>3, <2>4, <2>5
<1>11. CASE Drop
  BY <1>11 DEF Drop, Fault, Unlink, Connected
<1>12. CASE Dial
  BY <1>12 DEF Dial
<1>13. CASE Reopen
  BY <1>13 DEF Reopen
<1>14. CASE Crash
  BY <1>14 DEF Crash, Fault, Unlink
<1>15. CASE Boot
  BY <1>15 DEF Boot
<1>16. CASE HandleSet
  <2>1. up # <<>> /\ up' = Tail(up)
    BY <1>16 DEF HandleSet, Handles
  <2>2. UNCHANGED <<restart, present, tracked, opened, rejected>>
        /\ (down' = down \/ down' = Append(down, "error"))
    BY <1>16 DEF HandleSet, Reports
  <2>3. (NoOpen => NoOpen') /\ (NoClose => NoClose')
    BY <2>1, Shorter
  <2> HIDE DEF NoOpen, NoClose, OpenAt
  <2>4. CASE down' = down
    BY <2>2, <2>3, <2>4
  <2>5. CASE down' = Append(down, "error")
    <3>1. \A i \in DOMAIN down' : down'[i] # "error" =>
            i \in DOMAIN down /\ down'[i] = down[i]
      BY <2>5, Reported
    <3> QED
      BY <2>2, <2>3, <3>1
  <2> QED
    BY <2>2, <2>4, <2>5
<1>17. CASE HandleOpen
  <2>1. up # <<>> /\ up' = Tail(up) /\ Head(up).type = "open"
    BY <1>17 DEF HandleOpen, Handles
  <2>2. UNCHANGED <<restart, tracked, opened, rejected>>
        /\ (down' = down \/ down' = Append(down, "error"))
    BY <1>17 DEF HandleOpen, Reports
  <2>3. ~NoOpen
    BY <2>1, Shorter
  <2>4. \A i \in DOMAIN down : down[i] # "opened"
    BY <2>3
  <2> HIDE DEF NoOpen, NoClose
  <2>5. \A i \in DOMAIN down' : down'[i] # "opened"
    <3>1. CASE down' = Append(down, "error")
      BY <2>4, <3>1, Reported
    <3> QED
      BY <2>2, <2>4, <3>1
  <2> QED
    BY <2>2, <2>3, <2>5
<1>18. CASE StartReturns
  <2>1. present = "starting" /\ UNCHANGED <<restart, tracked, opened, rejected, up>>
    BY <1>18 DEF StartReturns
  <2>2. \/ present' = "open" /\ down' = Append(down, "opened")
        \/ present' = "no" /\ down' = Append(down, "error")
    BY <1>18 DEF StartReturns, Reports
  <2>3. Opening /\ NoOpen /\ NoClose
    BY <2>1 DEF OneOpen
  <2>4. \A i \in DOMAIN down : down[i] # "opened"
    BY <2>1
  <2>5. Opening' /\ NoOpen' /\ NoClose' /\ ~(tracked' = "fresh" /\ opened' /\ ~rejected')
    BY <2>1, <2>3
  <2> HIDE DEF NoOpen, NoClose, Opening
  <2>6. CASE present' = "open" /\ down' = Append(down, "opened")
    <3>1. \A i \in DOMAIN down' : i # Len(down) + 1 => i \in DOMAIN down /\ down'[i] = down[i]
      BY <2>6, Reported
    <3>2. down'[Len(down) + 1] = "opened" /\ DOMAIN down' = 1 .. Len(down) + 1 /\ Len(down) \in Nat
      BY <2>6, Reported
    <3> QED
      BY <2>4, <2>5, <2>6, <3>1, <3>2
  <2>7. CASE present' = "no" /\ down' = Append(down, "error")
    <3>1. \A i \in DOMAIN down' : down'[i] # "opened"
      BY <2>4, <2>7, Reported
    <3> QED
      BY <2>5, <3>1
  <2> QED
    BY <2>2, <2>6, <2>7
<1>19. CASE HandleClose
  <2>1. up # <<>> /\ up' = Tail(up) /\ Head(up).type = "close"
    BY <1>19 DEF HandleClose, Handles
  <2>2. UNCHANGED <<restart, tracked, opened, rejected>>
        /\ (down' = down \/ down' = Append(down, "closed"))
    BY <1>19 DEF HandleClose, Reports
  <2>3. ~NoClose
    BY <2>1, Shorter
  <2>4. \A i \in DOMAIN down : down[i] # "opened"
    BY <2>3
  <2> HIDE DEF NoOpen, NoClose
  <2>5. \A i \in DOMAIN down' : down'[i] # "opened"
    <3>1. CASE down' = Append(down, "closed")
      BY <2>4, <3>1, Reported
    <3> QED
      BY <2>2, <2>4, <3>1
  <2> QED
    BY <2>2, <2>3, <2>5
<1>20. ASSUME NEW f \in Live, NEW v \in Value, ReopenBehindChange(f, v) PROVE OpenedIsAwaited'
  BY <1>20 DEF ReopenBehindChange
<1>21. QED
  BY <1>1, <1>2, <1>3, <1>4, <1>5, <1>6, <1>7, <1>8, <1>9, <1>10, <1>11, <1>12, <1>13, <1>14, <1>15,
     <1>16, <1>17, <1>18, <1>19, <1>20
     DEF Next, Command

\* What the runner closed is not there any more, and the close of a restart is on its way
\* until it is.
LEMMA ClosedIsGoneStep ==
  ASSUME TypeOK, StoreInv, Thinks, ~unawaited, ~unawaited', [Next]_vars, ~Boot
  PROVE  ClosedIsGone'
<1> USE DEF Thinks, TypeOK, ClosedIsGone, NoClose, Between, heldVars, storeVars, openVars, wireVars,
        runnerVars, pastVars
<1>1. CASE UNCHANGED vars
  BY <1>1 DEF vars
<1>2. ASSUME NEW f \in Live, NEW v \in Value, Change(f, v) PROVE ClosedIsGone'
  <2>1. UNCHANGED <<restart, present, closed, tracked, down>>
    BY <1>2 DEF Change
  <2>2. PICK r \in Request : r.type = "set" /\ up' = Append(up, r)
    BY <1>2, Requests DEF Change
  <2>3. (NoClose' => NoClose)
    BY <2>2, Longer
  <2> HIDE DEF NoClose
  <2> QED
    BY <2>1, <2>3
<1>3. ASSUME NEW v \in Value, SetEffort(v) PROVE ClosedIsGone'
  BY <1>3 DEF SetEffort, Asked, Saves
<1>4. ASSUME NEW v \in Value, Think(v) PROVE ClosedIsGone'
  BY <1>4 DEF Think, Asked, Saves
<1>5. CASE Written
  BY <1>5, WrittenEffect
<1>6. CASE BeginRestart
  BY <1>6 DEF BeginRestart, Asked, OpenSession, Connected
<1>7. CASE CloseEnds
  <2>1. UNCHANGED <<link, down, present, closed>> /\ restart' # "closing"
    BY <1>7 DEF CloseEnds, OpenSession
  <2>2. restart' = "opening" \/ present = "no"
    BY <1>7 DEF CloseEnds, OpenSession, Connected, StoreInv, DownIsEmpty
  <2> QED
    BY <2>1, <2>2
<1>8. CASE OpenReturns
  BY <1>8 DEF OpenReturns, OpenedIsAwaited, Opening
<1>9. CASE OpenRaises
  BY <1>9 DEF OpenRaises, Opening, Steady
<1>10. CASE Deliver
  BY <1>10 DEF Deliver
<1>11. CASE Drop
  BY <1>11 DEF Drop, Fault, Unlink, Connected
<1>12. CASE Dial
  BY <1>12 DEF Dial
<1>13. CASE Reopen
  BY <1>13 DEF Reopen
<1>14. CASE Crash
  BY <1>14 DEF Crash, Fault, Unlink
<1>15. CASE Boot
  BY <1>15 DEF Boot
<1>16. CASE HandleSet
  <2>1. up # <<>> /\ up' = Tail(up) /\ Head(up).type = "set"
    BY <1>16 DEF HandleSet, Handles
  <2>2. UNCHANGED <<restart, present, closed, tracked>>
        /\ (down' = down \/ down' = Append(down, "error"))
    BY <1>16 DEF HandleSet, Reports
  <2>3. NoClose' => NoClose
    BY <2>1, Shorter
  <2> HIDE DEF NoClose
  <2>4. (\E i \in DOMAIN down' : down'[i] = "closed") => \E i \in DOMAIN down : down[i] = "closed"
    <3>1. CASE down' = Append(down, "error")
      BY <3>1, Reported
    <3> QED
      BY <2>2, <3>1
  <2> QED
    BY <2>2, <2>3, <2>4
<1>17. CASE HandleOpen
  <2>1. up # <<>> /\ Head(up).type = "open" /\ up' = Tail(up) /\ restart' = restart
    BY <1>17 DEF HandleOpen, Handles
  <2>2. ~NoOpen
    <3>1. 1 \in DOMAIN up /\ Head(up) = up[1]
      BY <2>1, Shorter
    <3> QED
      BY <2>1, <3>1 DEF NoOpen
  <2>3. restart \in {"opening", "booting"}
    BY <2>2 DEF OneOpen, Opening
  <2> QED
    BY <2>1, <2>3
<1>18. CASE StartReturns
  BY <1>18 DEF StartReturns, OneOpen, Opening
<1>19. CASE HandleClose
  BY <1>19 DEF HandleClose, Handles, Reports, Connected
<1>20. ASSUME NEW f \in Live, NEW v \in Value, ReopenBehindChange(f, v) PROVE ClosedIsGone'
  BY <1>20 DEF ReopenBehindChange
<1>21. QED
  BY <1>1, <1>2, <1>3, <1>4, <1>5, <1>6, <1>7, <1>8, <1>9, <1>10, <1>11, <1>12, <1>13, <1>14, <1>15,
     <1>16, <1>17, <1>18, <1>19, <1>20
     DEF Next, Command

\* An open asks for the thinking that the session has, and /think closes what has another.
LEMMA ThinksAsAskedStep ==
  ASSUME TypeOK, StoreInv, Thinks, ~unawaited, ~unawaited', [Next]_vars, ~Boot
  PROVE  ThinksAsAsked'
<1> USE DEF Thinks, TypeOK, ThinksAsAsked, Thought, OpenAt, NoClose, Opening, heldVars, storeVars,
        openVars, wireVars, runnerVars, pastVars
<1>1. CASE UNCHANGED vars
  BY <1>1 DEF vars
<1>2. ASSUME NEW f \in Live, NEW v \in Value, Change(f, v) PROVE ThinksAsAsked'
  <2>1. UNCHANGED <<restart, closed, present, sdk, row>> /\ session'["thinking"] = session["thinking"]
    BY <1>2 DEF Change, Live, OfSession
  <2>2. PICK r \in Request : r.type = "set" /\ up' = Append(up, r)
    BY <1>2, Requests DEF Change
  <2>3. (NoClose' => NoClose)
        /\ \A i \in DOMAIN up' : OpenAt(i)' => i \in DOMAIN up /\ OpenAt(i) /\ up'[i] = up[i]
    BY <2>2, Longer
  <2> HIDE DEF NoClose, OpenAt
  <2> QED
    BY <2>1, <2>3
<1>3. ASSUME NEW v \in Value, SetEffort(v) PROVE ThinksAsAsked'
  BY <1>3 DEF SetEffort, Asked, Saves
<1>4. ASSUME NEW v \in Value, Think(v) PROVE ThinksAsAsked'
  BY <1>4 DEF Think, Asked, Saves
<1>5. CASE Written
  BY <1>5 DEF Written
<1>6. CASE BeginRestart
  <2>1. NoOpen /\ InTable /\ ~Opening
    BY <1>6 DEF BeginRestart, Steady, NoOpen, Asked, InTable
  <2>2. UNCHANGED <<session, row, present, sdk>>
    BY <1>6 DEF BeginRestart
  <2>3. CASE closed /\ tracked = "handle"
    <3>1. restart' = "idle" /\ up' = up /\ closed'
      BY <1>6, <2>3 DEF BeginRestart, OpenSession
    <3> QED
      BY <2>1, <3>1
  <2>4. CASE (closed /\ tracked # "handle") \/ ~Connected
    <3>1. present = "no"
      BY <2>4, <1>6 DEF BeginRestart, ClosedIsGone, Between, StoreInv, DownIsEmpty, Connected
    <3>2. CASE up' = up /\ restart' = "idle"
      BY <2>1, <2>2, <3>1, <3>2
    <3>3. ASSUME NEW r \in Request, r.settings = OpenWith, up' = Append(up, r),
                 restart' = "opening"
          PROVE  ThinksAsAsked'
      BY <2>1, <2>2, <3>1, <3>3, Longer DEF NoOpen, OpenWith, Field
    <3> QED
      BY <1>6, <2>4, <3>2, <3>3, OpenEffect
  <2>5. CASE ~closed /\ Connected
    BY <1>6, <2>1, <2>2, <2>5 DEF BeginRestart
  <2> QED
    BY <2>3, <2>4, <2>5
<1>7. CASE CloseEnds
  <2>1. NoOpen /\ (present = "no" \/ ~NoClose) /\ restart = "closing"
    BY <1>7 DEF CloseEnds, OneOpen, ClosedIsGone
  <2>2. UNCHANGED <<session, row, present, sdk>>
    BY <1>7 DEF CloseEnds
  <2>3. CASE up' = up /\ restart' = "idle"
    BY <2>1, <2>2, <2>3
  <2>4. ASSUME NEW r \in Request, r.settings = OpenWith, up' = Append(up, r),
               restart' = "opening"
        PROVE  ThinksAsAsked'
    <3>1. NoClose' => NoClose
      BY <2>4, Longer
    <3>2. session["thinking"] = OpenWith["thinking"]
      BY DEF OpenWith, Field
    <3>3. \A i \in DOMAIN up' : OpenAt(i)' => up'[i] = r
      BY <2>1, <2>4, Longer DEF NoOpen
    <3> HIDE DEF NoClose
    <3> QED
      BY <2>1, <2>2, <2>4, <3>1, <3>2, <3>3
  <2>5. restart' # "closing"
    BY <1>7 DEF CloseEnds, OpenSession
  <2> QED
    BY <1>7, <2>3, <2>4, <2>5, OpenEffect
<1>8. CASE OpenReturns
  <2>1. restart' = "idle" /\ UNCHANGED <<up, present, sdk>> /\ Opening
    BY <1>8 DEF OpenReturns
  <2>2. session' = IF restart = "booting" THEN [f \in OfSession |-> row[f]] ELSE session
    BY <1>8 DEF OpenReturns
  <2>3. session'["thinking"] = Thought
    BY <2>1, <2>2 DEF OfSession
  <2> QED
    BY <2>1, <2>3
<1>9. CASE OpenRaises
  BY <1>9 DEF OpenRaises, Opening, Steady
<1>10. CASE Deliver
  BY <1>10 DEF Deliver
<1>11. CASE Drop
  BY <1>11 DEF Drop, Fault, Unlink, Connected
<1>12. CASE Dial
  BY <1>12 DEF Dial
<1>13. CASE Reopen
  BY <1>13 DEF Reopen
<1>14. CASE Crash
  BY <1>14 DEF Crash, Fault, Unlink
<1>15. CASE Boot
  BY <1>15 DEF Boot
<1>16. CASE HandleSet
  <2>1. up # <<>> /\ up' = Tail(up) /\ Head(up).type = "set"
    BY <1>16 DEF HandleSet, Handles
  <2>2. UNCHANGED <<restart, closed, present, session, row>>
        /\ (sdk' = sdk \/ sdk' = [sdk EXCEPT ![Head(up).field] = Head(up).value])
    BY <1>16 DEF HandleSet
  <2>3. Head(up).field # "thinking"
    BY <2>1, Shorter, Requests DEF Live
  <2>4. sdk'["thinking"] = sdk["thinking"]
    BY <2>2, <2>3 DEF Field
  <2>5. NoClose' => NoClose
    BY <2>1, Shorter
  <2>6. \A i \in DOMAIN up' : OpenAt(i)' =>
          OpenAt(i + 1) /\ up'[i] = up[i + 1] /\ i + 1 \in DOMAIN up
    BY <2>1, Shorter
  <2>7. Thought' = Thought
    BY <2>2
  <2> HIDE DEF NoClose, OpenAt, Thought
  <2> QED
    BY <2>2, <2>4, <2>5, <2>6, <2>7
<1>17. CASE HandleOpen
  <2>1. up # <<>> /\ up' = Tail(up) /\ Head(up).type = "open"
    BY <1>17 DEF HandleOpen, Handles
  <2>2. OpenAt(1) /\ 1 \in DOMAIN up /\ Head(up) = up[1]
    BY <2>1, Shorter
  <2>3. Opening
    BY <2>2 DEF OneOpen, NoOpen
  <2>4. Head(up).settings["thinking"] = Thought
    BY <2>2, <2>3 DEF Field
  <2>5. NoClose' => NoClose
    BY <2>1, Shorter
  <2>6. \A i \in DOMAIN up' : OpenAt(i)' =>
          OpenAt(i + 1) /\ up'[i] = up[i + 1] /\ i + 1 \in DOMAIN up
    BY <2>1, Shorter
  <2>7. UNCHANGED <<restart, closed, session, row>> /\ Thought' = Thought
    BY <1>17 DEF HandleOpen
  <2>8. sdk'["thinking"] = IF present = "no" THEN Thought ELSE sdk["thinking"]
    BY <1>17, <2>4 DEF HandleOpen
  <2>9. present' = "no" \/ present # "no" \/ sdk'["thinking"] = Thought
    BY <2>8
  <2> HIDE DEF NoClose, OpenAt, Thought
  <2> QED
    BY <2>3, <2>5, <2>6, <2>7, <2>8, <1>17 DEF HandleOpen, Opening
<1>18. CASE StartReturns
  BY <1>18 DEF StartReturns, Reports, Connected
<1>19. CASE HandleClose
  BY <1>19 DEF HandleClose, Handles, Reports, Connected
<1>20. ASSUME NEW f \in Live, NEW v \in Value, ReopenBehindChange(f, v) PROVE ThinksAsAsked'
  BY <1>20 DEF ReopenBehindChange
<1>21. QED
  BY <1>1, <1>2, <1>3, <1>4, <1>5, <1>6, <1>7, <1>8, <1>9, <1>10, <1>11, <1>12, <1>13, <1>14, <1>15,
     <1>16, <1>17, <1>18, <1>19, <1>20
     DEF Next, Command

\* The open of a boot is the only envelope, and asks for what the row says.
LEMMA BootThinks ==
  ASSUME TypeOK, StoreInv, Boot
  PROVE  ThinkInv'
<1> DEFINE r == [type |-> "open", settings |-> row]
<1>1. r \in Request /\ r.type = "open" /\ r.settings = row
  BY Requests DEF TypeOK
<1>2. /\ up' = Append(up, r) /\ UNCHANGED <<row, present, down>>
      /\ restart' = "booting" /\ opened' = FALSE
  BY DEF Boot, storeVars, runnerVars
<1>3. up = <<>> /\ down = <<>> /\ present = "no"
  BY DEF Boot, StoreInv, DownIsEmpty
<1> HIDE DEF r
<1>4. DOMAIN up' = {1} /\ up'[1] = r
  BY <1>1, <1>2, <1>3
<1>5. OneOpen'
  BY <1>1, <1>2, <1>3, <1>4 DEF OneOpen, OpenAt, NoOpen, Opening
<1>6. OpenedIsAwaited'
  BY <1>2, <1>3 DEF OpenedIsAwaited
<1>7. ClosedIsGone'
  BY <1>2, <1>3 DEF ClosedIsGone, Between
<1>8. ThinksAsAsked'
  BY <1>1, <1>2, <1>3, <1>4 DEF ThinksAsAsked, Thought
<1> QED
  BY <1>5, <1>6, <1>7, <1>8 DEF ThinkInv

\* Every step keeps what thinks: a boot begins anew, and after a re-open there is nothing to
\* keep.
LEMMA ThinkInvStep ==
  ASSUME TypeOK, StoreInv, ThinkInv, [Next]_vars
  PROVE  ThinkInv'
<1>1. CASE Boot
  BY <1>1, BootThinks
<1>2. CASE ~Boot
  <2>1. ~unawaited' => ~unawaited
    <3>1. CASE UNCHANGED vars
      BY <3>1 DEF vars, pastVars
    <3>2. CASE Next
      BY <1>2, <3>2 DEF Next, Command, Change, ReopenBehindChange, SetEffort, Think, Written,
         BeginRestart, CloseEnds, OpenReturns, OpenRaises, Deliver, Drop, Dial, Reopen, Crash, HandleSet,
         HandleOpen, StartReturns, HandleClose, pastVars, TypeOK
    <3> QED
      BY <3>1, <3>2
  <2>2. ASSUME ~unawaited'
        PROVE  OneOpen' /\ OpenedIsAwaited' /\ ClosedIsGone' /\ ThinksAsAsked'
    <3>1. ~unawaited /\ Thinks
      BY <2>1, <2>2 DEF ThinkInv, Thinks
    <3> QED
      BY <1>2, <2>2, <3>1, OneOpenStep, OpenedIsAwaitedStep, ClosedIsGoneStep, ThinksAsAskedStep
  <2> QED
    BY <2>2 DEF ThinkInv
<1> QED
  BY <1>1, <1>2

-----------------------------------------------------------------------------
(* Theorems.                                                               *)

SafetyInv == TypeOK /\ StoreInv /\ AgreeInv /\ ThinkInv

\* It holds of a session just opened ...
LEMMA InitSafe == Init => SafetyInv
<1> SUFFICES ASSUME Init PROVE SafetyInv
  OBVIOUS
<1>1. /\ All(OfSession) \in [OfSession -> Value] /\ All(OfState) \in [OfState -> Value]
      /\ All(Field) \in [Field -> Value]
  BY DefaultIsValue DEF All
<1>2. TypeOK
  <2>1. Copies
    BY <1>1 DEF Init, Copies
  <2>2. Places
    <3>1. 0 \in 0 .. MaxChanges /\ 0 \in 0 .. MaxFaults
      BY BoundsAreNaturals
    <3> QED
      BY <3>1 DEF Init, Places
  <2>3. Queues
    BY DEF Init, Queues
  <2> QED
    BY <2>1, <2>2, <2>3, TypeParts
<1>3. StoreInv
  BY DEF Init, StoreInv, DownIsEmpty, ThinkingWrites, BootFromRow, InTable
<1>4. \A f \in Live : /\ handle[f] = Default /\ row[f] = Default /\ sdk[f] = Default
                      /\ session["model"] = Default
  BY DEF Init, All, Live, OfSession, OfState, Field
<1>5. AgreeInv
  <2>1. RowFollows
    BY <1>4, NothingToWrite DEF Init, RowFollows, Live
  <2>2. \A f \in Live : SetsLeave(up, 0, f, sdk[f], Held(f))
    BY <1>4 DEF Init, SetsLeave, Held
  <2> QED
    BY <2>1, <2>2 DEF Init, AgreeInv, SdkFollows, OpenAt
<1>6. ThinkInv
  <2>1. OneOpen /\ OpenedIsAwaited /\ ClosedIsGone
    BY DEF Init, OneOpen, OpenedIsAwaited, ClosedIsGone, OpenAt, NoOpen, NoClose, Opening,
           Between
  <2>2. sdk["thinking"] = session["thinking"]
    BY DEF Init, All, OfSession, Field
  <2>3. ThinksAsAsked
    BY <2>2 DEF Init, ThinksAsAsked, Thought, Opening
  <2> QED
    BY <2>1, <2>3 DEF ThinkInv
<1> QED
  BY <1>2, <1>3, <1>5, <1>6 DEF SafetyInv

\* ... and every step keeps it.
LEMMA StepSafe == SafetyInv /\ [Next]_vars => SafetyInv'
<1> SUFFICES ASSUME SafetyInv, [Next]_vars PROVE SafetyInv'
  OBVIOUS
<1>1. TypeOK /\ StoreInv /\ AgreeInv /\ RowFollows /\ ThinkInv
  BY DEF SafetyInv, AgreeInv
<1>2. TypeOK'
  <2>1. Copies' /\ Places' /\ Queues'
    BY <1>1, CopiesStep, PlacesStep, QueuesStep
  <2> QED
    BY <2>1 DEF TypeOK, Copies, Places, Queues
<1>3. StoreInv'
  BY <1>1, DownIsEmptyStep, ThinkingWritesStep, BootFromRowStep DEF StoreInv
<1>4. AgreeInv'
  BY <1>1, RowFollowsStep, SdkFollowsStep DEF AgreeInv
<1>5. ThinkInv'
  BY <1>1, ThinkInvStep
<1> QED
  BY <1>2, <1>3, <1>4, <1>5 DEF SafetyInv

\* So it always holds: of any values, and after any number of changes, restarts, drops
\* and crashes.
THEOREM SettingsSafety == Spec => []SafetyInv
BY InitSafe, StepSafe, PTL DEF Spec

\* The variables stay within their types.
THEOREM SettingsTypes == Spec => []TypeOK
<1>1. SafetyInv => TypeOK
  BY DEF SafetyInv
<1> QED
  BY <1>1, SettingsSafety, PTL

\* Once all is settled the SDK has the mode and the model that the handle and the row
\* have, unless a change was missed.
THEOREM SettingsAgreeAlways == Spec => []SettingsAgree
<1>1. SafetyInv => SettingsAgree
  <2> SUFFICES ASSUME SafetyInv, Settled, ~missed, NEW f \in Live
               PROVE  sdk[f] = handle[f] /\ sdk[f] = row[f]
    BY DEF SettingsAgree
  <2>1. /\ restart = "idle" /\ present = "open" /\ InTable /\ NoClose
        /\ up = <<>> /\ writes = <<>> /\ RowFollows /\ SdkFollows
    BY DEF Settled, SafetyInv, AgreeInv, InTable, NoClose
  <2>2. WritesLeave(<<>>, f, row[f], handle[f]) /\ SetsLeave(<<>>, 0, f, sdk[f], handle[f])
    BY <2>1 DEF RowFollows, SdkFollows, Held
  <2> QED
    BY <2>2, NothingToWrite DEF SetsLeave
<1> QED
  BY <1>1, SettingsSafety, PTL

\* Once all is settled the SDK thinks as the session says, unless the runner opened what
\* nobody awaited, or a late CLOSED has closed the handle.
THEOREM ThinkingAppliesAlways == Spec => []ThinkingApplies
<1>1. SafetyInv => ThinkingApplies
  BY DEF SafetyInv, ThinkInv, ThinksAsAsked, Thought, NoClose, Settled, ThinkingApplies
<1> QED
  BY <1>1, SettingsSafety, PTL

=============================================================================
