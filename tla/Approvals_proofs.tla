-------------------------- MODULE Approvals_proofs --------------------------
(***************************************************************************)
(* Proofs about Approvals for every set of requests and tools.             *)
(***************************************************************************)
EXTENDS Approvals, TLAPS

\* Every variable stays in its type: no callback, card, tap or sweep leaves the
\* others in a state they do not know.
THEOREM ApprovalsTypes == Spec => []TypeOK
<1> USE ToolsAreKnown
<1>1. Init => TypeOK
  BY DEF Init, TypeOK
<1>2. TypeOK /\ [Next]_vars => TypeOK'
  <2> SUFFICES ASSUME TypeOK, [Next]_vars PROVE TypeOK'
    OBVIOUS
  <2> USE DEF TypeOK, Verdict, runnerVars, wireVars, uiVars, lastingVars
  <2>1. CASE UNCHANGED vars
    BY <2>1 DEF vars
  <2>2. CASE Ready
    BY <2>2 DEF Ready
  <2>3. CASE Restart
    BY <2>3 DEF Restart
  <2>4. CASE StopSession
    BY <2>4 DEF StopSession, SessionGone, Stop
  <2>5. CASE Reopen
    BY <2>5 DEF Reopen
  <2>6. CASE Break
    BY <2>6 DEF Break, RunnerTearsDown, SessionGone, Stop
  <2>7. CASE Reconnect
    BY <2>7 DEF Reconnect
  <2>8. CASE Crash
    BY <2>8 DEF Crash, RunnerTearsDown, SessionGone, Stop
  <2>9. ASSUME NEW r \in Req, AutoRun(r) PROVE TypeOK'
    BY <2>9 DEF AutoRun
  <2>10. ASSUME NEW r \in Req, Ask(r) PROVE TypeOK'
    BY <2>10 DEF Ask
  <2>11. ASSUME NEW r \in Req, RequestSent(r) PROVE TypeOK'
    BY <2>11 DEF RequestSent
  <2>12. ASSUME NEW r \in Req, Return(r) PROVE TypeOK'
    BY <2>12 DEF Return
  <2>13. ASSUME NEW r \in Req, Cancelled(r) PROVE TypeOK'
    BY <2>13 DEF Cancelled
  <2>14. ASSUME NEW r \in Req, DropRequest(r) PROVE TypeOK'
    BY <2>14 DEF DropRequest
  <2>15. ASSUME NEW r \in Req, BeginCard(r) PROVE TypeOK'
    BY <2>15 DEF BeginCard
  <2>16. ASSUME NEW r \in Req, CardSent(r) PROVE TypeOK'
    BY <2>16 DEF CardSent
  <2>17. ASSUME NEW r \in Req, CardRefused(r) PROVE TypeOK'
    BY <2>17 DEF CardRefused, SendDecide, SendRaises
  <2>18. ASSUME NEW r \in Req, CardFails(r) PROVE TypeOK'
    BY <2>18 DEF CardFails
  <2>19. ASSUME NEW r \in Req, CardSaved(r) PROVE TypeOK'
    BY <2>19 DEF CardSaved
  <2>20. ASSUME NEW r \in Req, TapDeletes(r) PROVE TypeOK'
    BY <2>20 DEF TapDeletes
  <2>21. ASSUME NEW r \in Req, TapEdits(r) PROVE TypeOK'
    BY <2>21 DEF TapEdits
  <2>22. ASSUME NEW r \in Req, SweepTakes(r) PROVE TypeOK'
    BY <2>22 DEF SweepTakes, SendDecide, SendRaises
  <2>23. ASSUME NEW r \in Req, SweepEdits(r) PROVE TypeOK'
    BY <2>23 DEF SweepEdits
  <2>24. ASSUME NEW r \in Req, SweepFails(r) PROVE TypeOK'
    BY <2>24 DEF SweepFails
  <2>25. ASSUME NEW r \in Req, NEW v \in Verdict, HandleDecide(r, v) PROVE TypeOK'
    BY <2>25 DEF HandleDecide, Resolve
  <2>26. ASSUME NEW r \in Req, NEW v \in Verdict, Tap(r, v) PROVE TypeOK'
    BY <2>26 DEF Tap, SendDecide, SendRaises
  <2>27. ASSUME NEW S \in SUBSET Req, SweepLists(S) PROVE TypeOK'
    BY <2>27 DEF SweepLists
  <2>28. QED
    BY <2>1, <2>2, <2>3, <2>4, <2>5, <2>6, <2>7, <2>8, <2>9, <2>10, <2>11,
      <2>12, <2>13, <2>14, <2>15, <2>16, <2>17, <2>18, <2>19, <2>20, <2>21,
      <2>22, <2>23, <2>24, <2>25, <2>26, <2>27 DEF Next, Callback, Card,
      Tapped, Sweep
<1>3. QED
  BY <1>1, <1>2, PTL DEF Spec

-----------------------------------------------------------------------------

\* Only a session on a link that is up has requests whose future counts.
SessionOnLink ==
  /\ link = "down" => session = "none"
  /\ session = "none" => current = {}

\* What has not happened yet to a request that has not been sent, ...
NotYetSent ==
  \A r \in Req : callback[r] \in {"idle", "asking"} =>
    /\ verdict[r] = "none"
    /\ r \notin requests /\ r \notin entries /\ r \notin undecided
    /\ render[r] = "no"
    /\ callback[r] = "idle" => r \notin current /\ future[r] = "none"

\* ... and to one whose card has not been sent: this is why it is decided once.
NotYetShown ==
  \A r \in Req : r \in requests \/ render[r] = "sending" =>
    /\ verdict[r] = "none"
    /\ r \notin entries
    /\ r \in requests => render[r] = "no"

\* A callback that returned has taken its future with it.
Returned ==
  \A r \in Req : callback[r] \in {"ran", "refused"} => future[r] = "none"

\* The future is open until the decision reaches it.
OpenUntilDecided ==
  /\ \A r \in current : verdict[r] = "none" => future[r] = "open"
  /\ \A r \in current, v \in Verdict : <<r, v>> \in decides => future[r] = "open"

\* An approving result is the user's approval, even after its session is gone.
ApprovalsAreGiven ==
  \A r \in Req : future[r] \in {"allow", "always"} => verdict[r] = future[r]

\* The entry is made before the row: a card being saved has its entry, unless it
\* was decided or a restart has dropped it.
EntryBeforeRow ==
  \A r \in current :
    render[r] = "saving" /\ session = "open" => r \in entries \/ verdict[r] # "none"

ApprovalInv ==
  /\ SessionOnLink
  /\ NotYetSent
  /\ NotYetShown
  /\ Returned
  /\ OpenUntilDecided
  /\ ApprovalsAreGiven
  /\ EntryBeforeRow
  /\ OneDecision
  /\ EntriesCanDecide
  /\ DecisionArrives
  /\ RowHasAnswerer

\* The invariants of the approvals hold together, with what makes them inductive:
\* where a request is between callback and card, and that its entry precedes its row.
THEOREM ApprovalSafety == Spec => []ApprovalInv
<1> USE ToolsAreKnown
<1>1. Init => ApprovalInv
  BY DEF Init, Verdict, ApprovalInv, SessionOnLink, NotYetSent, NotYetShown, Returned,
         OpenUntilDecided, ApprovalsAreGiven, EntryBeforeRow, OneDecision,
         EntriesCanDecide, DecisionArrives, RowHasAnswerer
<1>2. TypeOK /\ ApprovalInv /\ [Next]_vars => ApprovalInv'
  <2> SUFFICES ASSUME TypeOK, ApprovalInv, [Next]_vars PROVE ApprovalInv'
    OBVIOUS
  <2> USE DEF TypeOK, Verdict, runnerVars, wireVars, uiVars, lastingVars, ApprovalInv,
              SessionOnLink, NotYetSent, NotYetShown, Returned, OpenUntilDecided,
              ApprovalsAreGiven, EntryBeforeRow, OneDecision, EntriesCanDecide,
              DecisionArrives, RowHasAnswerer
  <2>1. CASE UNCHANGED vars
    BY <2>1 DEF vars
  <2>2. CASE Ready
    BY <2>2 DEF Ready
  <2>3. CASE Restart
    BY <2>3 DEF Restart
  <2>4. CASE StopSession
    BY <2>4 DEF StopSession, SessionGone, Stop
  <2>5. CASE Reopen
    BY <2>5 DEF Reopen
  <2>6. CASE Break
    BY <2>6 DEF Break, RunnerTearsDown, SessionGone, Stop
  <2>7. CASE Reconnect
    BY <2>7 DEF Reconnect
  <2>8. CASE Crash
    BY <2>8 DEF Crash, RunnerTearsDown, SessionGone, Stop
  <2>9. ASSUME NEW r \in Req, AutoRun(r) PROVE ApprovalInv'
    BY <2>9 DEF AutoRun
  <2>10. ASSUME NEW r \in Req, Ask(r) PROVE ApprovalInv'
    <3>1. SessionOnLink'
      BY <2>10 DEF Ask
    <3>2. NotYetSent'
      BY <2>10 DEF Ask
    <3>3. NotYetShown'
      BY <2>10 DEF Ask
    <3>4. Returned'
      BY <2>10 DEF Ask
    <3>5. OpenUntilDecided'
      BY <2>10 DEF Ask
    <3>6. ApprovalsAreGiven'
      BY <2>10 DEF Ask
    <3>7. EntryBeforeRow'
      BY <2>10 DEF Ask
    <3>8. OneDecision'
      BY <2>10 DEF Ask
    <3>9. EntriesCanDecide'
      BY <2>10 DEF Ask
    <3>10. DecisionArrives'
      BY <2>10 DEF Ask
    <3>11. RowHasAnswerer'
      BY <2>10 DEF Ask
    <3> HIDE DEF SessionOnLink, NotYetSent, NotYetShown, Returned, OpenUntilDecided,
           ApprovalsAreGiven,
           EntryBeforeRow, OneDecision, EntriesCanDecide, DecisionArrives, RowHasAnswerer
    <3>12. QED
      BY <3>1, <3>2, <3>3, <3>4, <3>5, <3>6, <3>7, <3>8, <3>9, <3>10, <3>11 DEF ApprovalInv
  <2>11. ASSUME NEW r \in Req, RequestSent(r) PROVE ApprovalInv'
    BY <2>11 DEF RequestSent
  <2>12. ASSUME NEW r \in Req, Return(r) PROVE ApprovalInv'
    BY <2>12 DEF Return
  <2>13. ASSUME NEW r \in Req, Cancelled(r) PROVE ApprovalInv'
    BY <2>13 DEF Cancelled
  <2>14. ASSUME NEW r \in Req, DropRequest(r) PROVE ApprovalInv'
    BY <2>14 DEF DropRequest
  <2>15. ASSUME NEW r \in Req, BeginCard(r) PROVE ApprovalInv'
    BY <2>15 DEF BeginCard
  <2>16. ASSUME NEW r \in Req, CardSent(r) PROVE ApprovalInv'
    BY <2>16 DEF CardSent
  <2>17. ASSUME NEW r \in Req, CardRefused(r) PROVE ApprovalInv'
    BY <2>17 DEF CardRefused, SendDecide, SendRaises
  <2>18. ASSUME NEW r \in Req, CardFails(r) PROVE ApprovalInv'
    BY <2>18 DEF CardFails
  <2>19. ASSUME NEW r \in Req, CardSaved(r) PROVE ApprovalInv'
    BY <2>19 DEF CardSaved
  <2>20. ASSUME NEW r \in Req, TapDeletes(r) PROVE ApprovalInv'
    BY <2>20 DEF TapDeletes
  <2>21. ASSUME NEW r \in Req, TapEdits(r) PROVE ApprovalInv'
    BY <2>21 DEF TapEdits
  <2>22. ASSUME NEW r \in Req, SweepTakes(r) PROVE ApprovalInv'
    BY <2>22 DEF SweepTakes, SendDecide, SendRaises
  <2>23. ASSUME NEW r \in Req, SweepEdits(r) PROVE ApprovalInv'
    BY <2>23 DEF SweepEdits
  <2>24. ASSUME NEW r \in Req, SweepFails(r) PROVE ApprovalInv'
    BY <2>24 DEF SweepFails
  <2>25. ASSUME NEW r \in Req, NEW v \in Verdict, HandleDecide(r, v) PROVE ApprovalInv'
    <3>1. /\ verdict[r] = v
          /\ r \in current => future[r] = "open" /\ future' = [future EXCEPT ![r] = v]
      BY <2>25 DEF HandleDecide, Resolve
    <3>2. r \notin current => future' = future
      BY <2>25 DEF HandleDecide
    <3>3. /\ decides' = decides \ {<<r, v>>}
          /\ UNCHANGED <<session, current, remembered, callback, link, requests, phase, render,
                         entries, tap, sweep, undecided, expired, verdict>>
      BY <2>25 DEF HandleDecide
    <3>4. SessionOnLink'
      BY <3>1, <3>2, <3>3
    <3>5. NotYetSent'
      BY <3>1, <3>2, <3>3
    <3>6. NotYetShown'
      BY <3>1, <3>2, <3>3
    <3>7. Returned'
      BY <3>1, <3>2, <3>3
    <3>8. OpenUntilDecided'
      BY <3>1, <3>2, <3>3
    <3>9. ApprovalsAreGiven'
      BY <3>1, <3>2, <3>3
    <3>10. EntryBeforeRow'
      BY <3>1, <3>2, <3>3
    <3>11. OneDecision'
      BY <3>1, <3>2, <3>3
    <3>12. EntriesCanDecide'
      BY <3>1, <3>2, <3>3
    <3>13. DecisionArrives'
      BY <3>1, <3>2, <3>3
    <3>14. RowHasAnswerer'
      BY <3>1, <3>2, <3>3
    <3> HIDE DEF SessionOnLink, NotYetSent, NotYetShown, Returned, OpenUntilDecided,
           ApprovalsAreGiven,
           EntryBeforeRow, OneDecision, EntriesCanDecide, DecisionArrives, RowHasAnswerer
    <3>15. QED
      BY <3>4, <3>5, <3>6, <3>7, <3>8, <3>9, <3>10, <3>11, <3>12, <3>13, <3>14 DEF ApprovalInv
  <2>26. ASSUME NEW r \in Req, NEW v \in Verdict, Tap(r, v) PROVE ApprovalInv'
    BY <2>26 DEF Tap, SendDecide, SendRaises
  <2>27. ASSUME NEW S \in SUBSET Req, SweepLists(S) PROVE ApprovalInv'
    BY <2>27 DEF SweepLists
  <2> HIDE DEF TypeOK, ApprovalInv
  <2>28. QED
    BY <2>1, <2>2, <2>3, <2>4, <2>5, <2>6, <2>7, <2>8, <2>9, <2>10, <2>11,
      <2>12, <2>13, <2>14, <2>15, <2>16, <2>17, <2>18, <2>19, <2>20, <2>21,
      <2>22, <2>23, <2>24, <2>25, <2>26, <2>27 DEF Next, Callback, Card,
      Tapped, Sweep
<1>3. QED
  BY <1>1, <1>2, ApprovalsTypes, PTL DEF Spec

\* No request is ever decided twice: taps, expiry, failed cards, restarts and
\* crashes notwithstanding, what is on the wire and in the future is the decision.
THEOREM OneDecisionAlways == Spec => []OneDecision
<1>1. ApprovalInv => OneDecision
  BY DEF ApprovalInv
<1>2. QED
  BY <1>1, ApprovalSafety, PTL

\* A registered card can still decide: neither a second tap nor the sweep finds the
\* entry of a request that was decided.
THEOREM EntriesCanDecideAlways == Spec => []EntriesCanDecide
<1>1. ApprovalInv => EntriesCanDecide
  BY DEF ApprovalInv
<1>2. QED
  BY <1>1, ApprovalSafety, PTL

\* A decision taken is not lost on its way to the callback while the session lives.
THEOREM DecisionArrivesAlways == Spec => []DecisionArrives
<1>1. ApprovalInv => DecisionArrives
  BY DEF ApprovalInv
<1>2. QED
  BY <1>1, ApprovalSafety, PTL

\* No row stands for a request that nobody will answer.
THEOREM RowHasAnswererAlways == Spec => []RowHasAnswerer
<1>1. ApprovalInv => RowHasAnswerer
  BY DEF ApprovalInv
<1>2. QED
  BY <1>1, ApprovalSafety, PTL

-----------------------------------------------------------------------------
(* Expiry.                                                                 *)

\* A request with a row, listed by a sweep or EXPIRED, has had its card sent.
ListedWasShown ==
  \A r \in Req : r \in undecided \/ sweep[r] # "no" \/ r \in expired =>
    /\ callback[r] \notin {"idle", "asking"}
    /\ r \notin requests /\ render[r] # "sending"

\* The sweep takes the entry before it says EXPIRED.
TakenIsGone ==
  \A r \in Req : sweep[r] = "editing" \/ r \in expired => r \notin entries

ExpiryInv == ListedWasShown /\ TakenIsGone

\* A request expires only after its card was sent, and when its entry is gone; so neither
\* a card sent late nor a restart or a new bridge makes one for it again.
THEOREM ExpirySafety == Spec => []ExpiryInv
<1> USE ToolsAreKnown
<1>1. Init => ExpiryInv
  BY DEF Init, ExpiryInv, ListedWasShown, TakenIsGone
<1>2. TypeOK /\ ApprovalInv /\ ExpiryInv /\ [Next]_vars => ExpiryInv'
  <2> SUFFICES ASSUME TypeOK, ApprovalInv, ExpiryInv, [Next]_vars PROVE ExpiryInv'
    OBVIOUS
  <2> USE DEF TypeOK, Verdict, runnerVars, wireVars, uiVars, lastingVars, ExpiryInv,
              ListedWasShown, TakenIsGone, NotYetSent, NotYetShown
  <2>0. NotYetSent /\ NotYetShown
    BY DEF ApprovalInv
  <2>1. CASE UNCHANGED vars
    BY <2>1 DEF vars
  <2>2. CASE Ready
    BY <2>2 DEF Ready
  <2>3. CASE Restart
    BY <2>3 DEF Restart
  <2>4. CASE StopSession
    BY <2>4 DEF StopSession, SessionGone, Stop
  <2>5. CASE Reopen
    BY <2>5 DEF Reopen
  <2>6. CASE Break
    BY <2>6 DEF Break, RunnerTearsDown, SessionGone, Stop
  <2>7. CASE Reconnect
    BY <2>7 DEF Reconnect
  <2>8. CASE Crash
    BY <2>8 DEF Crash, RunnerTearsDown, SessionGone, Stop
  <2>9. ASSUME NEW r \in Req, AutoRun(r) PROVE ExpiryInv'
    BY <2>9 DEF AutoRun
  <2>10. ASSUME NEW r \in Req, Ask(r) PROVE ExpiryInv'
    BY <2>10 DEF Ask
  <2>11. ASSUME NEW r \in Req, RequestSent(r) PROVE ExpiryInv'
    BY <2>0, <2>11 DEF RequestSent
  <2>12. ASSUME NEW r \in Req, Return(r) PROVE ExpiryInv'
    BY <2>12 DEF Return
  <2>13. ASSUME NEW r \in Req, Cancelled(r) PROVE ExpiryInv'
    BY <2>13 DEF Cancelled
  <2>14. ASSUME NEW r \in Req, DropRequest(r) PROVE ExpiryInv'
    BY <2>14 DEF DropRequest
  <2>15. ASSUME NEW r \in Req, BeginCard(r) PROVE ExpiryInv'
    BY <2>0, <2>15 DEF BeginCard
  <2>16. ASSUME NEW r \in Req, CardSent(r) PROVE ExpiryInv'
    BY <2>0, <2>16 DEF CardSent
  <2>17. ASSUME NEW r \in Req, CardRefused(r) PROVE ExpiryInv'
    BY <2>17 DEF CardRefused, SendDecide, SendRaises
  <2>18. ASSUME NEW r \in Req, CardFails(r) PROVE ExpiryInv'
    BY <2>18 DEF CardFails
  <2>19. ASSUME NEW r \in Req, CardSaved(r) PROVE ExpiryInv'
    BY <2>0, <2>19 DEF CardSaved
  <2>20. ASSUME NEW r \in Req, TapDeletes(r) PROVE ExpiryInv'
    BY <2>20 DEF TapDeletes
  <2>21. ASSUME NEW r \in Req, TapEdits(r) PROVE ExpiryInv'
    BY <2>21 DEF TapEdits
  <2>22. ASSUME NEW r \in Req, SweepTakes(r) PROVE ExpiryInv'
    BY <2>22 DEF SweepTakes, SendDecide, SendRaises
  <2>23. ASSUME NEW r \in Req, SweepEdits(r) PROVE ExpiryInv'
    BY <2>23 DEF SweepEdits
  <2>24. ASSUME NEW r \in Req, SweepFails(r) PROVE ExpiryInv'
    BY <2>24 DEF SweepFails
  <2>25. ASSUME NEW r \in Req, NEW v \in Verdict, HandleDecide(r, v) PROVE ExpiryInv'
    BY <2>25 DEF HandleDecide, Resolve
  <2>26. ASSUME NEW r \in Req, NEW v \in Verdict, Tap(r, v) PROVE ExpiryInv'
    BY <2>26 DEF Tap, SendDecide, SendRaises
  <2>27. ASSUME NEW S \in SUBSET Req, SweepLists(S) PROVE ExpiryInv'
    BY <2>27 DEF SweepLists
  <2>28. QED
    BY <2>1, <2>2, <2>3, <2>4, <2>5, <2>6, <2>7, <2>8, <2>9, <2>10, <2>11,
      <2>12, <2>13, <2>14, <2>15, <2>16, <2>17, <2>18, <2>19, <2>20, <2>21,
      <2>22, <2>23, <2>24, <2>25, <2>26, <2>27 DEF Next, Callback, Card,
      Tapped, Sweep
<1>3. QED
  BY <1>1, <1>2, ApprovalsTypes, ApprovalSafety, PTL DEF Spec

\* Once a card says EXPIRED no tap, no sweep and no failed card decides its request any
\* more, in any step.
THEOREM ExpiredIsFinalAlways == Spec => ExpiredIsFinal
<1> DEFINE Kept == \A r \in expired : verdict'[r] = verdict[r]
<1>1. TypeOK /\ ExpiryInv /\ [Next]_vars => [Kept]_vars
  <2> SUFFICES ASSUME TypeOK, ExpiryInv, [Next]_vars PROVE Kept
    OBVIOUS
  <2> USE DEF TypeOK, Verdict, runnerVars, wireVars, uiVars, lastingVars, ExpiryInv,
              ListedWasShown, TakenIsGone
  <2>1. CASE UNCHANGED vars
    BY <2>1 DEF vars
  <2>2. CASE Ready
    BY <2>2 DEF Ready
  <2>3. CASE Restart
    BY <2>3 DEF Restart
  <2>4. CASE StopSession
    BY <2>4 DEF StopSession, SessionGone, Stop
  <2>5. CASE Reopen
    BY <2>5 DEF Reopen
  <2>6. CASE Break
    BY <2>6 DEF Break, RunnerTearsDown, SessionGone, Stop
  <2>7. CASE Reconnect
    BY <2>7 DEF Reconnect
  <2>8. CASE Crash
    BY <2>8 DEF Crash, RunnerTearsDown, SessionGone, Stop
  <2>9. ASSUME NEW r \in Req, AutoRun(r) PROVE Kept
    BY <2>9 DEF AutoRun
  <2>10. ASSUME NEW r \in Req, Ask(r) PROVE Kept
    BY <2>10 DEF Ask
  <2>11. ASSUME NEW r \in Req, RequestSent(r) PROVE Kept
    BY <2>11 DEF RequestSent
  <2>12. ASSUME NEW r \in Req, Return(r) PROVE Kept
    BY <2>12 DEF Return
  <2>13. ASSUME NEW r \in Req, Cancelled(r) PROVE Kept
    BY <2>13 DEF Cancelled
  <2>14. ASSUME NEW r \in Req, DropRequest(r) PROVE Kept
    BY <2>14 DEF DropRequest
  <2>15. ASSUME NEW r \in Req, BeginCard(r) PROVE Kept
    BY <2>15 DEF BeginCard
  <2>16. ASSUME NEW r \in Req, CardSent(r) PROVE Kept
    BY <2>16 DEF CardSent
  <2>17. ASSUME NEW r \in Req, CardRefused(r) PROVE Kept
    BY <2>17 DEF CardRefused, SendDecide, SendRaises
  <2>18. ASSUME NEW r \in Req, CardFails(r) PROVE Kept
    BY <2>18 DEF CardFails
  <2>19. ASSUME NEW r \in Req, CardSaved(r) PROVE Kept
    BY <2>19 DEF CardSaved
  <2>20. ASSUME NEW r \in Req, TapDeletes(r) PROVE Kept
    BY <2>20 DEF TapDeletes
  <2>21. ASSUME NEW r \in Req, TapEdits(r) PROVE Kept
    BY <2>21 DEF TapEdits
  <2>22. ASSUME NEW r \in Req, SweepTakes(r) PROVE Kept
    BY <2>22 DEF SweepTakes, SendDecide, SendRaises
  <2>23. ASSUME NEW r \in Req, SweepEdits(r) PROVE Kept
    BY <2>23 DEF SweepEdits
  <2>24. ASSUME NEW r \in Req, SweepFails(r) PROVE Kept
    BY <2>24 DEF SweepFails
  <2>25. ASSUME NEW r \in Req, NEW v \in Verdict, HandleDecide(r, v) PROVE Kept
    BY <2>25 DEF HandleDecide, Resolve
  <2>26. ASSUME NEW r \in Req, NEW v \in Verdict, Tap(r, v) PROVE Kept
    BY <2>26 DEF Tap, SendDecide, SendRaises
  <2>27. ASSUME NEW S \in SUBSET Req, SweepLists(S) PROVE Kept
    BY <2>27 DEF SweepLists
  <2>28. QED
    BY <2>1, <2>2, <2>3, <2>4, <2>5, <2>6, <2>7, <2>8, <2>9, <2>10, <2>11,
      <2>12, <2>13, <2>14, <2>15, <2>16, <2>17, <2>18, <2>19, <2>20, <2>21,
      <2>22, <2>23, <2>24, <2>25, <2>26, <2>27 DEF Next, Callback, Card,
      Tapped, Sweep
<1>2. QED
  BY <1>1, ApprovalsTypes, ExpirySafety, PTL DEF Spec, ExpiredIsFinal

-----------------------------------------------------------------------------

\* The detailed approvals implement the gate: whatever is lost, late, repeated or
\* restarted, a tool runs only by its own request's decision or by its session's trust.
THEOREM ApprovalsImplementGate == Spec => GateHolds
<1> USE ToolsAreKnown
<1>1. Init => Gate!Init
  BY DEF Init, Gate!Init
<1>2. TypeOK /\ ApprovalInv /\ [Next]_vars => [Gate!Next]_Gate!gateVars
  <2> SUFFICES ASSUME TypeOK, ApprovalInv, [Next]_vars
               PROVE [Gate!Next]_Gate!gateVars
    OBVIOUS
  <2> USE DEF TypeOK, Verdict, runnerVars, wireVars, uiVars, lastingVars, ApprovalInv,
              SessionOnLink, NotYetShown, ApprovalsAreGiven, EntriesCanDecide,
              Gate!gateVars
  <2>1. CASE UNCHANGED vars
    BY <2>1 DEF vars
  <2>2. CASE Ready
    BY <2>2 DEF Ready
  <2>3. CASE Restart
    BY <2>3 DEF Restart
  <2>4. CASE StopSession
    BY <2>4 DEF StopSession, SessionGone, Stop, Gate!Next, Gate!NewSession
  <2>5. CASE Reopen
    BY <2>5 DEF Reopen, Gate!Next, Gate!NewSession
  <2>6. CASE Break
    BY <2>6 DEF Break, RunnerTearsDown, SessionGone, Stop, Gate!Next,
      Gate!NewSession
  <2>7. CASE Reconnect
    BY <2>7 DEF Reconnect, Gate!Next, Gate!NewSession
  <2>8. CASE Crash
    BY <2>8 DEF Crash, RunnerTearsDown, SessionGone, Stop, Gate!Next,
      Gate!NewSession
  <2>9. ASSUME NEW r \in Req, AutoRun(r) PROVE [Gate!Next]_Gate!gateVars
    <3>1. Gate!Run(r)
      BY <2>9 DEF AutoRun, Gate!Run
    <3>2. QED
      BY <3>1 DEF Gate!Next
  <2>10. ASSUME NEW r \in Req, Ask(r) PROVE [Gate!Next]_Gate!gateVars
    BY <2>10 DEF Ask, Gate!Next, Gate!Ask, NotYetSent
  <2>11. ASSUME NEW r \in Req, RequestSent(r) PROVE [Gate!Next]_Gate!gateVars
    BY <2>11 DEF RequestSent
  <2>12. ASSUME NEW r \in Req, Return(r) PROVE [Gate!Next]_Gate!gateVars
    <3>1. CASE future[r] = "deny"
      <4>1. Gate!Refuse(r)
        BY <2>12, <3>1 DEF Return, Gate!Refuse
      <4>2. QED
        BY <4>1 DEF Gate!Next
    <3>2. CASE future[r] \in {"allow", "always"}
      <4>1. Gate!Run(r)
        BY <2>12, <3>2 DEF Return, Gate!Run
      <4>2. QED
        BY <4>1 DEF Gate!Next
    <3>3. QED
      BY <2>12, <3>1, <3>2 DEF Return
  <2>13. ASSUME NEW r \in Req, Cancelled(r) PROVE [Gate!Next]_Gate!gateVars
    <3>1. Gate!Refuse(r)
      BY <2>13 DEF Cancelled, Gate!Refuse
    <3>2. QED
      BY <3>1 DEF Gate!Next
  <2>14. ASSUME NEW r \in Req, DropRequest(r) PROVE [Gate!Next]_Gate!gateVars
    BY <2>14 DEF DropRequest
  <2>15. ASSUME NEW r \in Req, BeginCard(r) PROVE [Gate!Next]_Gate!gateVars
    BY <2>15 DEF BeginCard
  <2>16. ASSUME NEW r \in Req, CardSent(r) PROVE [Gate!Next]_Gate!gateVars
    BY <2>16 DEF CardSent
  <2>17. ASSUME NEW r \in Req, CardRefused(r) PROVE [Gate!Next]_Gate!gateVars
    BY <2>17 DEF CardRefused, SendDecide, SendRaises, Gate!Next, Gate!Decide
  <2>18. ASSUME NEW r \in Req, CardFails(r) PROVE [Gate!Next]_Gate!gateVars
    BY <2>18 DEF CardFails
  <2>19. ASSUME NEW r \in Req, CardSaved(r) PROVE [Gate!Next]_Gate!gateVars
    BY <2>19 DEF CardSaved
  <2>20. ASSUME NEW r \in Req, TapDeletes(r) PROVE [Gate!Next]_Gate!gateVars
    BY <2>20 DEF TapDeletes
  <2>21. ASSUME NEW r \in Req, TapEdits(r) PROVE [Gate!Next]_Gate!gateVars
    BY <2>21 DEF TapEdits
  <2>22. ASSUME NEW r \in Req, SweepTakes(r) PROVE [Gate!Next]_Gate!gateVars
    BY <2>22 DEF SweepTakes, SendDecide, SendRaises, Gate!Next, Gate!Decide
  <2>23. ASSUME NEW r \in Req, SweepEdits(r) PROVE [Gate!Next]_Gate!gateVars
    BY <2>23 DEF SweepEdits
  <2>24. ASSUME NEW r \in Req, SweepFails(r) PROVE [Gate!Next]_Gate!gateVars
    BY <2>24 DEF SweepFails
  <2>25. ASSUME NEW r \in Req, NEW v \in Verdict, HandleDecide(r, v) PROVE [Gate!Next]_Gate!gateVars
    BY <2>25 DEF HandleDecide, Resolve
  <2>26. ASSUME NEW r \in Req, NEW v \in Verdict, Tap(r, v) PROVE [Gate!Next]_Gate!gateVars
    BY <2>26 DEF Tap, SendDecide, SendRaises, Gate!Next, Gate!Decide
  <2>27. ASSUME NEW S \in SUBSET Req, SweepLists(S) PROVE [Gate!Next]_Gate!gateVars
    BY <2>27 DEF SweepLists
  <2>28. QED
    BY <2>1, <2>2, <2>3, <2>4, <2>5, <2>6, <2>7, <2>8, <2>9, <2>10, <2>11,
      <2>12, <2>13, <2>14, <2>15, <2>16, <2>17, <2>18, <2>19, <2>20, <2>21,
      <2>22, <2>23, <2>24, <2>25, <2>26, <2>27 DEF Next, Callback, Card,
      Tapped, Sweep
<1>3. QED
  BY <1>1, <1>2, ApprovalsTypes, ApprovalSafety, PTL DEF Spec, GateHolds, Gate!Spec

=============================================================================
