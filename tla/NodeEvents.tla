----------------------------- MODULE NodeEvents ------------------------------
(***************************************************************************)
(* The event subscription of the socket backend: the bot ("center",        *)
(* backend.py) keeps one TCP connection to an agent node (agent_node.py)   *)
(* and reads from it what the node's transcript monitor publishes.  The    *)
(* node writes every message to all its subscribers and keeps none: what   *)
(* is published while nobody is subscribed is gone, which is why a         *)
(* connection must not lose messages on its own.                           *)
(*                                                                         *)
(* Connections are numbered; a number is used again when both ends have    *)
(* forgotten it.  A lost connection is noticed by both ends, at different  *)
(* times: the code has no keepalive for one that dies silently.            *)
(***************************************************************************)
EXTENDS Naturals, Sequences

CONSTANTS
  MaxMessages,   \* bound on the messages published
  MaxFaults      \* bound on lost connections, failing callbacks, crashes and stops

VARIABLES
  published,     \* messages published, numbered from 1
  node,          \* the node is running
  subscribers,   \* _subscribers: the connections the node writes to
  center,        \* the loop: "stopped", "connect", "read", "handle" or "delay"
  conn,          \* the center's connection, 0 without one
  alive,         \* connections that are not lost
  pipe,          \* lines sent to the center on conn and not yet read
  since,         \* messages published before conn was registered
  event,         \* the message whose callback runs
  handled,       \* messages whose callback completed
  faults

vars == <<published, node, subscribers, center, conn, alive, pipe, since, event, handled, faults>>

Unregistered == MaxMessages + 1
Connections == 1..MaxFaults + 2
NewConn == CHOOSE c \in Connections:
  c \notin subscribers \cup alive /\ \A d \in 1..c - 1: d \in subscribers \cup alive
Fail == faults < MaxFaults /\ faults' = faults + 1

Init ==
  /\ published = 0 /\ node = TRUE /\ subscribers = {}
  /\ center = "stopped" /\ conn = 0 /\ alive = {} /\ pipe = <<>> /\ since = Unregistered
  /\ event = 0 /\ handled = <<>> /\ faults = 0

------------------------------------------------------------------------------
(* The center: start, stop and _subscribe_loop.                            *)

Start ==
  /\ center = "stopped" /\ center' = "connect"
  /\ UNCHANGED <<published, node, subscribers, conn, alive, pipe, since, event, handled, faults>>

\* The connection is closed by its finally clause.
Closed ==
  /\ conn' = 0 /\ alive' = alive \ {conn} /\ pipe' = <<>> /\ since' = Unregistered
  /\ event' = 0

\* The cancelled loop ends wherever it waits.
Stop ==
  /\ center # "stopped" /\ Fail /\ center' = "stopped" /\ Closed
  /\ UNCHANGED <<published, node, subscribers, handled>>

Connect ==
  /\ center = "connect" /\ node
  /\ conn' = NewConn /\ alive' = alive \cup {NewConn} /\ center' = "read"
  /\ UNCHANGED <<published, node, subscribers, pipe, since, event, handled, faults>>

\* Where an exception leads.
\* Fault: it ends the loop.
AfterLossEnd == "ended"
AfterLoss == "delay"

ConnectRefused ==
  /\ center = "connect" /\ ~node /\ center' = AfterLoss
  /\ UNCHANGED <<published, node, subscribers, conn, alive, pipe, since, event, handled, faults>>

Retry ==
  /\ center = "delay" /\ center' = "connect"
  /\ UNCHANGED <<published, node, subscribers, conn, alive, pipe, since, event, handled, faults>>

\* readline, then the callback, one message at a time (_handle_event).
Read ==
  /\ center = "read" /\ pipe # <<>>
  /\ event' = Head(pipe) /\ pipe' = Tail(pipe) /\ center' = "handle"
  /\ UNCHANGED <<published, node, subscribers, conn, alive, since, handled, faults>>

Handled ==
  /\ center = "handle"
  /\ handled' = Append(handled, event) /\ event' = 0 /\ center' = "read"
  /\ UNCHANGED <<published, node, subscribers, conn, alive, pipe, since, faults>>

\* A callback that raises ends the connection, with what it still holds.
CallbackRaises ==
  /\ center = "handle" /\ Fail /\ center' = AfterLoss /\ Closed
  /\ UNCHANGED <<published, node, subscribers, handled>>

\* End of file, after the lines that arrived.
Lost ==
  /\ center = "read" /\ pipe = <<>> /\ conn \notin alive
  /\ center' = AfterLoss /\ Closed
  /\ UNCHANGED <<published, node, subscribers, handled, faults>>

------------------------------------------------------------------------------
(* The node: _handle_subscribe and _publish_message.                       *)

Subscribe ==
  /\ node /\ conn # 0 /\ conn \in alive \ subscribers
  /\ subscribers' = subscribers \cup {conn} /\ since' = published
  /\ UNCHANGED <<published, node, center, conn, alive, pipe, event, handled, faults>>

\* reader.read() of a connection that was lost or closed returns.
Unsubscribe == \E c \in subscribers \ alive:
  /\ subscribers' = subscribers \ {c}
  /\ UNCHANGED <<published, node, center, conn, alive, pipe, since, event, handled, faults>>

\* The subscribers that are left after a write to each; one that fails is
\* discarded.
\* Fault: the first failure gives up the others.
WrittenNone == IF subscribers \subseteq alive THEN subscribers ELSE {}
Written == subscribers \cap alive

Publish ==
  /\ node /\ published < MaxMessages
  /\ published' = published + 1
  /\ subscribers' = Written
  /\ pipe' = IF conn # 0 /\ conn \in Written THEN Append(pipe, published + 1) ELSE pipe
  /\ UNCHANGED <<node, center, conn, alive, since, event, handled, faults>>

------------------------------------------------------------------------------
(* The network and the processes.                                          *)

\* Of the lines on their way some still arrive.
Cut == pipe' \in {SubSeq(pipe, 1, n): n \in 0..Len(pipe)}

Break ==
  /\ conn \in alive /\ Fail
  /\ alive' = alive \ {conn} /\ Cut
  /\ UNCHANGED <<published, node, subscribers, center, conn, since, event, handled>>

NodeStops ==
  /\ node /\ Fail /\ node' = FALSE
  /\ subscribers' = {} /\ alive' = {} /\ Cut
  /\ UNCHANGED <<published, center, conn, since, event, handled>>

NodeStarts ==
  /\ ~node /\ node' = TRUE
  /\ UNCHANGED <<published, subscribers, center, conn, alive, pipe, since, event, handled, faults>>

------------------------------------------------------------------------------
Center == Connect \/ ConnectRefused \/ Retry \/ Read \/ Handled \/ Lost
Node == Subscribe \/ Unsubscribe
Next ==
  \/ Start \/ Center \/ Node \/ Publish
  \/ Stop \/ CallbackRaises \/ Break \/ NodeStops \/ NodeStarts

Fairness == WF_vars(Start) /\ WF_vars(Center) /\ WF_vars(Subscribe) /\ WF_vars(NodeStarts)
Spec == Init /\ [][Next]_vars /\ Fairness

------------------------------------------------------------------------------
\* What the center has read from the node comes in the order it was
\* published and no message twice, over any number of connections; and while
\* a registered connection is alive, every message published since is
\* handled, being handled, or on its way.
NoGap ==
  LET here == handled \o (IF event = 0 THEN <<>> ELSE <<event>>) \o pipe
  IN  /\ \A i, j \in DOMAIN here: i < j => here[i] < here[j]
      /\ conn # 0 /\ conn \in alive /\ since # Unregistered =>
           (since + 1)..published \subseteq {here[i]: i \in DOMAIN here}

\* The center is subscribed again after every loss it can notice: lost
\* connections, callbacks that raise, stops of either process.
Resubscribes == <>[](conn # 0 /\ conn \in alive \cap subscribers)
==============================================================================
