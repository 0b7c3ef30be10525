----------------------------- MODULE EventBroker -----------------------------
(***************************************************************************)
(* EventBroker of app/services/events_service.py: the in-memory pub/sub    *)
(* that fans workspace events out to one bounded queue per subscriber.     *)
(* Subscribing, publishing and signalling never await, so each is a part   *)
(* of one step of the task that calls it: they are operators that the      *)
(* actions of EventGateway conjoin.                                        *)
(*                                                                         *)
(* An envelope is its number in the history of published events, and a     *)
(* queue holds the numbers.  The history is kept while somebody is         *)
(* subscribed: an event nobody hears leaves nothing but the next _seq, of  *)
(* which only the order matters.                                           *)
(***************************************************************************)
EXTENDS Naturals, Sequences, SequencesExt

CONSTANTS
  Users,        \* user ids
  Workspaces,   \* workspace ids
  Queues,       \* identities of the subscribers' queues
  QueueMax,     \* _QUEUE_MAXSIZE (100 in the code)
  MaxEvents     \* bound of the model: how many events are published

ASSUME QueueMaxAssumption == QueueMax \in Nat \ {0}
ASSUME MaxEventsAssumption == MaxEvents \in Nat

VARIABLES
  streams,      \* streams[topic]: _streams, the queues subscribed to a topic
  byUser,       \* byUser[u]: _by_user, the queues of a user's sockets
  queue,        \* queue[q]: the items in the subscriber's asyncio.Queue
  log           \* history: the events published, in the order of their seq

brokerVars == <<streams, byUser, queue, log>>

\* What a stream subscribes to: a workspace, or a user's own events.
Topics == ({"workspace"} \X Workspaces) \cup ({"user"} \X Users)

EventItem(n) == [kind |-> "event", seq |-> n, code |-> 0]
CloseSignal(c) == [kind |-> "close", seq |-> 0, code |-> c]

FORCE_RESYNC == CloseSignal(4009)
LOGGED_OUT == CloseSignal(4001)

Items == {EventItem(n) : n \in 1..MaxEvents} \cup {FORCE_RESYNC, LOGGED_OUT}

BrokerInit ==
  /\ streams = [t \in Topics |-> {}]
  /\ byUser = [u \in Users |-> {}]
  /\ queue = [q \in Queues |-> <<>>]
  /\ log = <<>>

\* A new, empty queue, registered under its topic and under its user.
Subscribe(q, topic, u) ==
  /\ streams' = [streams EXCEPT ![topic] = @ \cup {q}]
  /\ byUser' = [byUser EXCEPT ![u] = @ \cup {q}]
  /\ queue' = [queue EXCEPT ![q] = <<>>]
  /\ UNCHANGED log

\* Mutant: the queue stays registered under its user.
HalfUnsubscribe(q, topic, u) ==
  /\ streams' = [streams EXCEPT ![topic] = @ \ {q}]
  /\ queue' = [queue EXCEPT ![q] = <<>>]
  /\ log' = IF \A t \in Topics : streams[t] \subseteq {q} THEN <<>> ELSE log
  /\ UNCHANGED byUser

\* Forget the queue; without any subscriber the history is forgotten, too.
Unsubscribe(q, topic, u) ==
  /\ streams' = [streams EXCEPT ![topic] = @ \ {q}]
  /\ byUser' = [byUser EXCEPT ![u] = @ \ {q}]
  /\ queue' = [queue EXCEPT ![q] = <<>>]
  /\ log' = IF \A t \in Topics : streams[t] \subseteq {q} THEN <<>> ELSE log

\* Drain the backlog, then enqueue the signal.
Signalled(signal) == <<signal>>

\* Mutant: an event is dropped when the queue is full.
DroppingPut(items, item) ==
  IF Len(items) < QueueMax THEN Append(items, item) ELSE items

\* put_nowait, and what publish does when the queue is full.
Put(items, item) ==
  IF Len(items) < QueueMax THEN Append(items, item) ELSE Signalled(FORCE_RESYNC)

\* The subscribers of an event: those of its workspace and the user streams
\* of e.users.
Subscribers(e) ==
  streams[<<"workspace", e.workspace>>] \cup UNION {streams[<<"user", u>>] : u \in e.users}

\* publish: number the event and fan it out.
Publish(e) ==
  IF \A t \in Topics : streams[t] = {} THEN UNCHANGED brokerVars
  ELSE /\ Len(log) < MaxEvents
       /\ log' = Append(log, e)
       /\ queue' = [q \in Queues |->
                      IF q \in Subscribers(e) THEN Put(queue[q], EventItem(Len(log) + 1))
                      ELSE queue[q]]
       /\ UNCHANGED <<streams, byUser>>

\* close_user_connections: every socket of the user is told to close.
CloseUserConnections(u) ==
  /\ queue' = [q \in Queues |->
                 IF q \in byUser[u] THEN Signalled(LOGGED_OUT) ELSE queue[q]]
  /\ UNCHANGED <<streams, byUser, log>>

\* queue.get() of an item that is there.
Get(q) ==
  /\ queue[q] # <<>>
  /\ queue' = [queue EXCEPT ![q] = Tail(@)]
  /\ UNCHANGED <<streams, byUser, log>>
=============================================================================
