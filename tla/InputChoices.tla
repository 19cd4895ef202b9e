----------------------------- MODULE InputChoices -----------------------------
(***************************************************************************)
(* Messages that arrive while the agent works are kept in the table        *)
(* pending_input_choices until the user says what to do with them: steer   *)
(* the turn, queue, interrupt it, or cancel.  One topic is modelled; its   *)
(* updates are handled one after the other (UpdateProcessor), pressed      *)
(* buttons may come twice and, after a crash, again.  A message is a row   *)
(* of the table: one that Telegram delivers again because a crash cut off  *)
(* its first handling is offered as another row.                           *)
(***************************************************************************)
EXTENDS Naturals, FiniteSets

CONSTANTS
  ChoiceWindows,
  Messages,        \* bound on the messages, a range of numbers from 1
  MaxPending,      \* limit of pending choices per topic
  MaxDisturbances  \* bound on crashes, rebinds and failing sends

VARIABLES
  boundTo,   \* the topic's window
  choices,   \* the table: the window of each pending message
  expired,   \* messages that are past _INPUT_ROUTE_CHOICE_MAX_AGE_SECONDS
  seen,      \* messages that have been handled
  handler,   \* the update being handled: mode, message, window and step
  sent,      \* how often each message was handed to an agent
  disturbances

choicesVars == <<boundTo, choices, expired, seen, handler, sent, disturbances>>

Modes == {"steer", "queue", "interrupt", "cancel"}
Idle == [step |-> "idle", mode |-> "none", message |-> 0, window |-> "none"]
Pending == DOMAIN choices
Without(ids) == [m \in Pending \ ids |-> choices[m]]
Disturbance == disturbances < MaxDisturbances /\ disturbances' = disturbances + 1

ChoicesInit ==
  /\ boundTo \in ChoiceWindows /\ choices = <<>> /\ expired = {} /\ seen = {}
  /\ handler = Idle /\ sent = [m \in Messages |-> 0] /\ disturbances = 0

------------------------------------------------------------------------------
\* _offer_input_route_choice: expired choices go first, then the message is
\* stored if there is room, or refused with a notice.
Offer == \E m \in Messages \ seen:
  /\ handler = Idle /\ \A n \in Messages: n < m => n \in seen
  /\ seen' = seen \cup {m}
  /\ LET kept == Without(expired) IN
     IF Cardinality(DOMAIN kept) < MaxPending
     THEN choices' = [n \in DOMAIN kept \cup {m} |-> IF n = m THEN boundTo ELSE kept[n]]
     ELSE choices' = kept
  /\ UNCHANGED <<boundTo, expired, handler, sent, disturbances>>

Expire == \E m \in seen \ expired:
  /\ expired' = expired \cup {m}
  /\ UNCHANGED <<boundTo, choices, seen, handler, sent, disturbances>>

\* claim_pending_input_choice takes the row out, expired or not.
\* Fault: the row is only read.
ClaimedKept(m) == choices
Claimed(m) == Without({m})

\* A button is pressed, for a message that is pending or was: an unknown one
\* is answered as handled or expired, Cancel ends here.
Press == \E m \in seen, mode \in Modes:
  /\ handler = Idle
  /\ IF m \in Pending THEN choices' = Claimed(m) ELSE UNCHANGED choices
  /\ IF m \in Pending \ expired /\ mode # "cancel"
     THEN handler' = [step |-> "claimed", mode |-> mode, message |-> m, window |-> choices[m]]
     ELSE handler' = Idle
  /\ UNCHANGED <<boundTo, expired, seen, sent, disturbances>>

\* The binding must still be the one the message was written for; then the
\* pane is captured.
Check ==
  /\ handler.step = "claimed"
  /\ IF boundTo = handler.window
     THEN handler' = [handler EXCEPT !.step = IF handler.mode = "interrupt" THEN "discard" ELSE "send"]
     ELSE handler' = Idle
  /\ UNCHANGED <<boundTo, choices, expired, seen, sent, disturbances>>

\* Interrupt drops what waits for the topic, other choices included.
Discard ==
  /\ handler.step = "discard"
  /\ choices' = <<>> /\ handler' = [handler EXCEPT !.step = "send"]
  /\ UNCHANGED <<boundTo, expired, seen, sent, disturbances>>

\* The native route, the queue or a new turn; a pane that says why not ends
\* with a notice.
Route ==
  /\ handler.step = "send" /\ handler' = Idle
  /\ \/ sent' = [sent EXCEPT ![handler.message] = @ + 1] /\ UNCHANGED disturbances
     \/ UNCHANGED sent /\ Disturbance
  /\ UNCHANGED <<boundTo, choices, expired, seen>>

\* Unbinding or binding another window discards the choices of the topic.
Rebind == \E w \in ChoiceWindows \ {boundTo}:
  /\ Disturbance /\ handler = Idle /\ boundTo' = w /\ choices' = <<>>
  /\ UNCHANGED <<expired, seen, handler, sent>>
\* A recovered topic changes its window while a handler awaits, also after
\* the check: what was chosen still goes to the window it was written for.
Recover == \E w \in ChoiceWindows \ {boundTo}:
  /\ Disturbance /\ boundTo' = w
  /\ UNCHANGED <<choices, expired, seen, handler, sent>>
ChoicesCrash ==
  /\ handler # Idle /\ Disturbance /\ handler' = Idle
  /\ UNCHANGED <<boundTo, choices, expired, seen, sent>>

ChoicesNext == Offer \/ Expire \/ Press \/ Check \/ Discard \/ Route \/ Rebind \/ Recover \/ ChoicesCrash
ChoicesSpec == ChoicesInit /\ [][ChoicesNext]_choicesVars

------------------------------------------------------------------------------
\* However often a button is pressed, a message reaches an agent at most
\* once, and what has reached one is neither offered nor handled any more.
ChosenOnce ==
  /\ \A m \in Messages: sent[m] <= 1
  /\ \A m \in Messages: sent[m] = 1 => m \notin Pending /\ handler.message # m
=============================================================================
