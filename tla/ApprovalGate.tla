---------------------------- MODULE ApprovalGate ----------------------------
(***************************************************************************)
(* What the approval machinery promises, with everything between the SDK   *)
(* and the user's thumb left out: a tool runs only by a decision taken for *)
(* that very request, or because its tool is trusted in this session;      *)
(* refusing is always possible; a decision, once taken, stands.            *)
(***************************************************************************)

CONSTANTS Req,        \* tool_use ids
          ToolOf,     \* the tool each request asks for
          AutoAllow   \* tools of the user's /allow list

VARIABLES
  outcome,   \* of each request: none yet, ran, refused
  consent,   \* the decision taken for it: none, allow, always, deny
  present,   \* the requests the present session has made
  trusted    \* the tools the present session runs without asking

gateVars == <<outcome, consent, present, trusted>>

Init ==
  /\ outcome = [r \in Req |-> "none"]
  /\ consent = [r \in Req |-> "none"]
  /\ present = {}
  /\ trusted = {}

Ask(r) ==
  /\ outcome[r] = "none"
  /\ present' = present \cup {r}
  /\ UNCHANGED <<outcome, consent, trusted>>

Decide(r, v) ==
  /\ consent[r] = "none"
  /\ consent' = [consent EXCEPT ![r] = v]
  /\ UNCHANGED <<outcome, present, trusted>>

\* "always" makes the tool trusted, in the session that asked and in no other.
Run(r) ==
  /\ outcome[r] = "none"
  /\ outcome' = [outcome EXCEPT ![r] = "ran"]
  /\ \/ consent[r] \in {"allow", "always"} /\ UNCHANGED trusted
     \/ consent[r] = "always" /\ r \in present /\ trusted' = trusted \cup {ToolOf[r]}
     \/ ToolOf[r] \in trusted /\ UNCHANGED trusted
  /\ UNCHANGED <<consent, present>>

Refuse(r) ==
  /\ outcome[r] = "none"
  /\ outcome' = [outcome EXCEPT ![r] = "refused"]
  /\ UNCHANGED <<consent, present, trusted>>

\* A new SDK client starts with nothing but the user's own list.
NewSession ==
  /\ present' = {}
  /\ trusted' \in {{}, AutoAllow}
  /\ UNCHANGED <<outcome, consent>>

Next ==
  \/ \E r \in Req, v \in {"allow", "always", "deny"} : Decide(r, v)
  \/ \E r \in Req : Ask(r) \/ Run(r) \/ Refuse(r)
  \/ NewSession

Spec == Init /\ [][Next]_gateVars

=============================================================================
