----------------------------- MODULE Questions -----------------------------
(***************************************************************************)
(* One AskUserQuestion request on the bridge: the question flow of         *)
(* PermissionsUI in bridge/permissions_ui.py.  Its questions are shown one *)
(* at a time on one card; taps on the card's buttons collect the answers,  *)
(* and the last one resolves the request with them.                        *)
(*                                                                         *)
(* The reader renders the card; each tap is a task of its own, which has   *)
(* read the flow's state when it suspends in query.answer and in the edit  *)
(* of the card.  Telegram may refuse or fail any call, and applies two     *)
(* edits that are under way in either order.                               *)
(***************************************************************************)
EXTENDS Naturals, Sequences, FiniteSets

CONSTANTS Tap,         \* handlers that may be under way at the same time
          Count,       \* the number of questions
          Multi,       \* those with multiSelect
          Option,      \* the options of a multiSelect question
          MaxAnswers   \* bound on the answers recorded

ASSUME CountIsPositive == Count \in Nat \ {0}
ASSUME TapsAreFinite == IsFiniteSet(Tap)
ASSUME MultiAreQuestions == Multi \subseteq 0 .. Count - 1

VARIABLES
  session,   \* "open", or "gone" with the request's future: closed, torn down
  render,    \* the reader in _render_question_flow: what it awaits
  pending,   \* whether the request is in _pending_questions
  hasId,     \* whether card_message_id is known
  shown,     \* questions whose buttons the user has got to see
  card,      \* what the card shows now
  answers,   \* state.answers: for each, the question it was given to
  current,   \* state.current_idx
  selected,  \* state.selected
  at,        \* what each tap's handler awaits
  edit,      \* what its edit will show
  sent,      \* history: the resolutions given to the session
  lost       \* history: a handler died with the entry it had popped

flowVars == <<pending, hasId, answers, current, selected>>
tapVars  == <<at, edit>>
cardVars == <<shown, card>>
vars == <<session, render, flowVars, cardVars, tapVars, sent, lost>>

Question == 0 .. Count - 1
Summary  == Count        \* a card that lists the answers and has no buttons
NoCard   == Count + 1
Verdict  == {"malformed", "reply", "unsendable", "answers"}

TypeOK ==
  /\ session \in {"open", "gone"}
  /\ render \in {"asked", "texting", "sending", "done"}
  /\ pending \in BOOLEAN /\ hasId \in BOOLEAN /\ lost \in BOOLEAN
  /\ shown \subseteq Question
  /\ card \in 0 .. Count + 1
  /\ answers \in Seq(Question)
  /\ current \in Nat
  /\ selected \in [Question -> SUBSET Option]
  /\ at \in [Tap -> {"idle", "recorded", "toggled", "editing", "closing"}]
  /\ edit \in [Tap -> 0 .. Count + 1]
  /\ sent \in Seq(Verdict)

Init ==
  /\ session = "open" /\ render = "asked"
  /\ pending = FALSE /\ hasId = FALSE /\ lost = FALSE
  /\ shown = {} /\ card = NoCard
  /\ answers = <<>> /\ current = 0
  /\ selected = [q \in Question |-> {}]
  /\ at = [t \in Tap |-> "idle"]
  /\ edit = [t \in Tap |-> NoCard]
  /\ sent = <<>>

\* SessionHandle.resolve_permission; it raises on a link that is down, and then
\* the session is gone.
Resolve(v) == sent' = Append(sent, v)
ResolveRaises == session = "gone" /\ UNCHANGED sent

-----------------------------------------------------------------------------
(* The reader: _render_question_flow.                                      *)

NoQuestions ==
  /\ render = "asked"
  /\ render' = "done"
  /\ Resolve("malformed") \/ ResolveRaises
  /\ UNCHANGED <<session, flowVars, cardVars, tapVars, lost>>

\* A question without options is posted as text, whatever becomes of that, and the
\* request is resolved so that the user may reply in the next message.
FreeText ==
  /\ render = "asked"
  /\ render' = "texting"
  /\ UNCHANGED <<session, flowVars, cardVars, tapVars, sent, lost>>

TextPosted ==
  /\ render = "texting"
  /\ render' = "done"
  /\ Resolve("reply") \/ ResolveRaises
  /\ UNCHANGED <<session, flowVars, cardVars, tapVars, lost>>

\* The state is registered before the card is sent.
Register ==
  /\ render = "asked"
  /\ render' = "sending"
  /\ pending' = TRUE
  /\ UNCHANGED <<session, hasId, answers, current, selected, cardVars, tapVars, sent,
                 lost>>

\* The user sees the card, and may tap it, before send_message returns.
CardPosted ==
  /\ render = "sending" /\ card = NoCard
  /\ card' = 0
  /\ shown' = {0}
  /\ UNCHANGED <<session, render, flowVars, tapVars, sent, lost>>

CardSent ==
  /\ render = "sending" /\ card # NoCard
  /\ render' = "done"
  /\ hasId' = TRUE
  /\ UNCHANGED <<session, pending, answers, current, selected, cardVars, tapVars, sent,
                 lost>>

\* TelegramBadRequest: deny, then pop.
CardRefused ==
  /\ render = "sending" /\ card = NoCard
  /\ render' = "done"
  /\ \/ Resolve("unsendable") /\ pending' = FALSE
     \/ ResolveRaises /\ UNCHANGED pending
  /\ UNCHANGED <<session, hasId, answers, current, selected, cardVars, tapVars, lost>>

\* Any other exception, the card posted or not, goes to the reader, which logs it:
\* the state stays, without its card's id.
CardFails ==
  /\ render = "sending"
  /\ render' = "done"
  /\ UNCHANGED <<session, flowVars, cardVars, tapVars, sent, lost>>

-----------------------------------------------------------------------------
(* A tap: _handle_question_callback.  One on another question than the      *)
(* current one is told "already answered", and changes nothing.            *)

CanTap(t) ==
  /\ pending
  /\ at[t] = "idle"
  /\ current \in shown

\* Bug: the answer is put down for the next question.
RecordNext(t) ==
  /\ Len(answers) < MaxAnswers
  /\ answers' = Append(answers, current + 1)
  /\ at' = [at EXCEPT ![t] = "recorded"]
  /\ UNCHANGED <<session, render, pending, hasId, current, selected, cardVars, edit,
                 sent, lost>>

\* The answer is recorded, and current_idx left for after query.answer.
Record(t) ==
  /\ Len(answers) < MaxAnswers
  /\ answers' = Append(answers, current)
  /\ at' = [at EXCEPT ![t] = "recorded"]
  /\ UNCHANGED <<session, render, pending, hasId, current, selected, cardVars, edit,
                 sent, lost>>

Choose(t) ==
  /\ CanTap(t) /\ current \notin Multi
  /\ Record(t)

Submit(t) ==
  /\ CanTap(t) /\ current \in Multi
  /\ selected[current] # {}
  /\ Record(t)

Toggle(t, o) ==
  /\ CanTap(t) /\ current \in Multi
  /\ selected' = [selected EXCEPT ![current] = IF o \in @ THEN @ \ {o} ELSE @ \cup {o}]
  /\ at' = [at EXCEPT ![t] = "toggled"]
  /\ UNCHANGED <<session, render, pending, hasId, answers, current, cardVars, edit, sent,
                 lost>>

\* query.answer raises (the query is too old, the network is down): the handler
\* ends, an answer it recorded stays.
AnswerFails(t) ==
  /\ at[t] \in {"recorded", "toggled"}
  /\ at' = [at EXCEPT ![t] = "idle"]
  /\ UNCHANGED <<session, render, flowVars, cardVars, edit, sent, lost>>

\* What a handler's edit will show; without the card's id Telegram refuses it.
Shows(t, what) == edit' = [edit EXCEPT ![t] = IF hasId THEN what ELSE NoCard]

\* There is a next question: _edit_question_card.
AdvanceToNext(t) ==
  /\ at[t] = "recorded"
  /\ current + 1 < Count
  /\ current' = current + 1
  /\ at' = [at EXCEPT ![t] = "editing"]
  /\ Shows(t, current + 1)
  /\ UNCHANGED <<session, render, pending, hasId, answers, selected, cardVars, sent, lost>>

\* Bug: the entry is left for after the card's edit.
FinalizeKeepsEntry(t) ==
  /\ at[t] = "recorded"
  /\ current + 1 >= Count
  /\ current' = current + 1
  /\ at' = [at EXCEPT ![t] = IF pending THEN "closing" ELSE "idle"]
  /\ Shows(t, Summary)
  /\ UNCHANGED <<session, render, pending, hasId, answers, selected, cardVars, sent, lost>>

\* Bug: the handler finalizes only if its answer was the last one asked for.
FinalizeExact(t) ==
  /\ at[t] = "recorded"
  /\ current + 1 >= Count
  /\ current' = current + 1
  /\ pending' = FALSE
  /\ at' = [at EXCEPT ![t] =
              IF pending /\ Len(answers) = Count THEN "closing" ELSE "idle"]
  /\ Shows(t, Summary)
  /\ UNCHANGED <<session, render, hasId, answers, selected, cardVars, sent, lost>>

\* There is none: _finalize_question, which pops the entry before it awaits.  A
\* second handler finds none and returns.
Finalize(t) ==
  /\ at[t] = "recorded"
  /\ current + 1 >= Count
  /\ current' = current + 1
  /\ pending' = FALSE
  /\ at' = [at EXCEPT ![t] = IF pending THEN "closing" ELSE "idle"]
  /\ Shows(t, Summary)
  /\ UNCHANGED <<session, render, hasId, answers, selected, cardVars, sent, lost>>

\* Bug: the branch of a toggle goes on like an answer.
RedrawAdvances(t) ==
  /\ at[t] = "toggled"
  /\ current' = current + 1
  /\ at' = [at EXCEPT ![t] = IF current + 1 < Count THEN "editing" ELSE "idle"]
  /\ Shows(t, IF current + 1 < Count THEN current + 1 ELSE NoCard)
  /\ UNCHANGED <<session, render, pending, hasId, answers, selected, cardVars, sent, lost>>

\* After a toggle the card is edited to the question that is current by now; when
\* there is none left, formatting it raises.
Redraw(t) ==
  /\ at[t] = "toggled"
  /\ at' = [at EXCEPT ![t] = IF current < Count THEN "editing" ELSE "idle"]
  /\ Shows(t, IF current < Count THEN current ELSE NoCard)
  /\ UNCHANGED <<session, render, flowVars, cardVars, sent, lost>>

Apply(t) ==
  /\ edit[t] # NoCard
  /\ card' = edit[t]
  /\ shown' = shown \cup ({edit[t]} \cap Question)

\* The edit returns; TelegramBadRequest is passed over, and any other exception
\* ends a handler that has nothing left to do.
Edited(t) ==
  /\ at[t] = "editing"
  /\ at' = [at EXCEPT ![t] = "idle"]
  /\ Apply(t) \/ UNCHANGED cardVars
  /\ UNCHANGED <<session, render, flowVars, edit, sent, lost>>

\* The rest of _finalize_question: deny with the answers.
Finalized(t) ==
  /\ at[t] = "closing"
  /\ at' = [at EXCEPT ![t] = "idle"]
  /\ Apply(t) \/ UNCHANGED cardVars
  /\ Resolve("answers") \/ ResolveRaises
  /\ UNCHANGED <<session, render, flowVars, edit, lost>>

\* Anything but TelegramBadRequest from the edit: the request is not resolved.
FinalizeFails(t) ==
  /\ at[t] = "closing"
  /\ at' = [at EXCEPT ![t] = "idle"]
  /\ Apply(t) \/ UNCHANGED cardVars
  /\ lost' = TRUE
  /\ UNCHANGED <<session, render, flowVars, edit, sent>>

-----------------------------------------------------------------------------

\* The session is closed, restarted or torn down; cancel_pending_for drops the
\* entry in those that the bridge began.
SessionEnds ==
  /\ session = "open"
  /\ session' = "gone"
  /\ pending' \in {pending, FALSE}
  /\ UNCHANGED <<render, hasId, answers, current, selected, cardVars, tapVars, sent, lost>>

Reader ==
  \/ NoQuestions \/ FreeText \/ TextPosted
  \/ Register \/ CardPosted \/ CardSent \/ CardRefused \/ CardFails

Handler(t) ==
  \/ AnswerFails(t) \/ AdvanceToNext(t) \/ Finalize(t) \/ Redraw(t)
  \/ Edited(t) \/ Finalized(t) \/ FinalizeFails(t)

Next ==
  \/ Reader
  \/ \E t \in Tap :
       \/ Choose(t) \/ Submit(t)
       \/ \E o \in Option : Toggle(t, o)
       \/ Handler(t)
  \/ SessionEnds

\* A handler or reader whose await returned runs on.  Nothing is assumed of the
\* user, who may never tap.
Fairness ==
  /\ WF_vars(NoQuestions \/ FreeText \/ Register)
  /\ WF_vars(TextPosted \/ CardSent \/ CardRefused \/ CardFails)
  /\ \A t \in Tap : WF_vars(Handler(t))

Spec == Init /\ [][Next]_vars /\ Fairness

-----------------------------------------------------------------------------
(* Properties.                                                             *)

\* A question that got two answers among the first n: two taps that overlapped, or
\* one repeated after query.answer failed.
AnsweredTwice(n, q) ==
  \E i, j \in 1 .. n : i < j /\ answers[i] = q /\ answers[j] = q

\* The model reads the answers by position.  An answer stands at its question's
\* place, and a question that was passed, or sent on, has one of its own; only a
\* question answered twice moves later answers back, and makes a tap pass a later
\* question for which there is no answer.  Answers keep the order of the questions
\* even then, and none is given to a question before it was current.
AnswersInPlace ==
  /\ \A i, j \in DOMAIN answers : i < j => answers[i] <= answers[j]
  /\ \A i \in DOMAIN answers : answers[i] <= current
  /\ \A i \in DOMAIN answers :
       answers[i] # i - 1 => \E q \in Question : AnsweredTwice(i, q)
  /\ \A q \in Question :
       q < current \/ (\E i \in DOMAIN sent : sent[i] = "answers") =>
         \/ \E i \in DOMAIN answers : answers[i] = q
         \/ \E p \in Question : p < q /\ AnsweredTwice(Len(answers), p)

\* The request is resolved once, whoever taps twice or while another finalizes; and
\* until then it is with the reader, registered, or with a handler that will
\* resolve it, unless that died in Telegram.
OneVerdict ==
  /\ Len(sent) <= 1
  /\ session = "open" /\ ~lost =>
       \/ render \in {"asked", "texting"}
       \/ pending
       \/ \E t \in Tap : at[t] = "closing"
       \/ sent # <<>>

\* A flow whose questions are all passed comes to its end: the answers reach the
\* session, or it is gone, or the handler that had the entry died.
AnsweredIsSent ==
  (current >= Count) ~> (sent # <<>> \/ lost \/ session = "gone")

=============================================================================
