------------------------- MODULE EventGatewayProofs -------------------------
(***************************************************************************)
(* Proofs about EventGateway, for any users, connections, queue size and   *)
(* number of events.                                                       *)
(***************************************************************************)
EXTENDS EventGateway, Integers, SequenceTheorems, TLAPS

-----------------------------------------------------------------------------
(* Queues *)

\* What may lie in a queue: events with their number, and the two signals,
\* which have none.
LEMMA ItemFacts ==
  /\ FORCE_RESYNC \in Items /\ LOGGED_OUT \in Items
  /\ \A n \in 1..MaxEvents : EventItem(n) \in Items
  /\ FORCE_RESYNC.seq = 0 /\ LOGGED_OUT.seq = 0
  /\ FORCE_RESYNC.kind = "close" /\ LOGGED_OUT.kind = "close"
  /\ \A n : EventItem(n).seq = n
  /\ \A x \in Items : /\ x.seq \in 0..MaxEvents
                      /\ x.kind = "event" => x.seq \in 1..MaxEvents
                      /\ x.kind = "close" => x.code \in {4001, 4009}
BY MaxEventsAssumption DEF Items, FORCE_RESYNC, LOGGED_OUT, EventItem, CloseSignal

\* A signal leaves a queue with itself alone (events_service.py:112-117).
LEMMA SignalledFacts ==
  ASSUME NEW s \in Items
  PROVE  /\ Signalled(s) \in Seq(Items)
         /\ Len(Signalled(s)) = 1
         /\ Signalled(s)[1] = s
         /\ Signalled(s) # <<>>
<1>1. /\ Signalled(s) \in Seq(Items)
      /\ Len(Signalled(s)) = 1
      /\ Signalled(s)[1] = s
  BY DEF Signalled
<1>2. Signalled(s) = <<>> => Len(Signalled(s)) = 0
  OBVIOUS
<1>3. Signalled(s) # <<>>
  BY <1>1, <1>2
<1>4. QED
  BY <1>1, <1>3

\* publish on one queue (events_service.py:95-103): the queue stays within
\* its bound, and its head stays unless the overflow signal replaces it.
LEMMA PutFacts ==
  ASSUME NEW q \in Seq(Items), Len(q) <= QueueMax, NEW n \in 1..MaxEvents
  PROVE  LET r == Put(q, EventItem(n))
         IN /\ r \in Seq(Items)
            /\ Len(r) <= QueueMax
            /\ \A i \in 1..Len(r) :
                 r[i].seq = n \/ r[i].seq = 0 \/ \E j \in 1..Len(q) : r[i] = q[j]
            /\ q # <<>> => r # <<>> /\ (r[1] = q[1] \/ r[1].kind = "close")
<1> DEFINE x == EventItem(n)
<1>1. x \in Items /\ x.seq = n /\ FORCE_RESYNC \in Items
  BY ItemFacts
<1>2. CASE Len(q) < QueueMax
  <2>1. Put(q, x) = Append(q, x)
    BY <1>2 DEF Put
  <2> HIDE DEF x
  <2>2. /\ Append(q, x) \in Seq(Items)
        /\ Len(Append(q, x)) = Len(q) + 1
        /\ \A i \in 1..Len(q) : Append(q, x)[i] = q[i]
        /\ Append(q, x)[Len(q) + 1] = x
    BY <1>1, AppendProperties
  <2>3. Len(q) \in Nat /\ (q # <<>> => Len(q) >= 1)
    BY EmptySeq
  <2>4. q # <<>> => Append(q, x) # <<>> /\ Append(q, x)[1] = q[1]
    BY <2>2, <2>3
  <2>5. \A i \in 1..Len(Append(q, x)) :
          Append(q, x)[i].seq = n \/ \E j \in 1..Len(q) : Append(q, x)[i] = q[j]
    BY <2>2, <2>3, <1>1
  <2>6. Len(Append(q, x)) <= QueueMax
    BY <2>2, <2>3, <1>2, QueueMaxAssumption
  <2> USE DEF x
  <2>7. QED
    BY <2>1, <2>2, <2>4, <2>5, <2>6
<1>3. CASE ~(Len(q) < QueueMax)
  <2>1. Put(q, x) = Signalled(FORCE_RESYNC)
    BY <1>3 DEF Put
  <2>2. /\ Signalled(FORCE_RESYNC) \in Seq(Items)
        /\ Len(Signalled(FORCE_RESYNC)) = 1
        /\ Signalled(FORCE_RESYNC)[1] = FORCE_RESYNC
    BY <1>1, SignalledFacts
  <2>3. Signalled(FORCE_RESYNC) # <<>>
    BY <1>1, SignalledFacts
  <2>4. FORCE_RESYNC.seq = 0 /\ FORCE_RESYNC.kind = "close"
    BY ItemFacts
  <2>5. QED
    BY <2>1, <2>2, <2>3, <2>4, QueueMaxAssumption
<1>4. QED
  BY <1>2, <1>3

\* queue.get(): what is left was there before.
LEMMA TailFacts ==
  ASSUME NEW q \in Seq(Items), q # <<>>
  PROVE  /\ Head(q) = q[1] /\ q[1] \in Items
         /\ Tail(q) \in Seq(Items)
         /\ Len(Tail(q)) = Len(q) - 1
         /\ \A i \in 1..Len(Tail(q)) : Tail(q)[i] = q[i + 1]
<1>1. Head(q) = q[1]
  OBVIOUS
<1>2. q[1] \in Items
  <2>1. Len(q) \in Nat /\ Len(q) # 0
    BY EmptySeq, LenProperties
  <2>2. 1 \in 1..Len(q)
    BY <2>1
  <2>3. QED
    BY <2>2, ElementOfSeq
<1>3. /\ Tail(q) \in Seq(Items)
      /\ Len(Tail(q)) = Len(q) - 1
      /\ \A i \in 1..Len(Tail(q)) : Tail(q)[i] = q[i + 1]
  BY HeadTailProperties
<1>4. QED
  BY <1>1, <1>2, <1>3

-----------------------------------------------------------------------------
(* Types: what each operation of the broker does to its variables. *)

LEMMA PublishTyped ==
  ASSUME BrokerTypeOK, NEW e \in Events, Publish(e)
  PROVE  BrokerTypeOK'
<1>1. CASE \A t \in Topics : streams[t] = {}
  BY <1>1 DEF Publish, brokerVars, BrokerTypeOK
<1>2. CASE ~\A t \in Topics : streams[t] = {}
  <2>1. /\ Len(log) < MaxEvents
        /\ log' = Append(log, e)
        /\ queue' = [q \in Queues |->
                       IF q \in Subscribers(e) THEN Put(queue[q], EventItem(Len(log) + 1))
                       ELSE queue[q]]
        /\ UNCHANGED <<streams, byUser>>
    BY <1>2 DEF Publish
  <2>2. log' \in Seq(Events) /\ Len(log') = Len(log) + 1 /\ Len(log) \in Nat
    BY <2>1, AppendProperties DEF BrokerTypeOK
  <2>3. Len(log') <= MaxEvents /\ Len(log) + 1 \in 1..MaxEvents
    BY <2>1, <2>2, MaxEventsAssumption
  <2>4. ASSUME NEW q \in Queues
        PROVE  queue'[q] \in Seq(Items) /\ Len(queue'[q]) <= QueueMax
    <3>1. queue[q] \in Seq(Items) /\ Len(queue[q]) <= QueueMax
      BY DEF BrokerTypeOK, Connections
    <3>2. LET r == Put(queue[q], EventItem(Len(log) + 1))
          IN r \in Seq(Items) /\ Len(r) <= QueueMax
      BY <2>3, <3>1, PutFacts
    <3>3. QED
      BY <2>1, <3>1, <3>2
  <2>5. queue' \in [Queues -> Seq(Items)]
    <3>1. queue' = [q \in Queues |-> queue'[q]]
      BY <2>1
    <3>2. QED
      BY <2>4, <3>1
  <2>6. QED
    BY <2>1, <2>2, <2>3, <2>4, <2>5 DEF BrokerTypeOK, Connections
<1>3. QED
  BY <1>1, <1>2

LEMMA SubscribeTyped ==
  ASSUME BrokerTypeOK, NEW q \in Connections, NEW t \in Topics, NEW u \in Users,
         Subscribe(q, t, u)
  PROVE  BrokerTypeOK'
<1>1. <<>> \in Seq(Items) /\ Len(<<>>) = 0
  OBVIOUS
<1>2. queue' \in [Connections -> Seq(Items)]
  BY <1>1 DEF Subscribe, BrokerTypeOK
<1>3. \A c \in Connections : Len(queue'[c]) <= QueueMax
  BY <1>1, QueueMaxAssumption DEF Subscribe, BrokerTypeOK
<1>4. QED
  BY <1>2, <1>3 DEF Subscribe, BrokerTypeOK

LEMMA UnsubscribeTyped ==
  ASSUME BrokerTypeOK, NEW q \in Connections, NEW t \in Topics, NEW u \in Users,
         Unsubscribe(q, t, u)
  PROVE  BrokerTypeOK'
<1>1. <<>> \in Seq(Items) /\ Len(<<>>) = 0 /\ <<>> \in Seq(Events)
  OBVIOUS
<1>2. queue' \in [Connections -> Seq(Items)]
  BY <1>1 DEF Unsubscribe, BrokerTypeOK
<1>3. \A c \in Connections : Len(queue'[c]) <= QueueMax
  BY <1>1, QueueMaxAssumption DEF Unsubscribe, BrokerTypeOK
<1>4. log' \in Seq(Events) /\ Len(log') <= MaxEvents
  BY <1>1, MaxEventsAssumption DEF Unsubscribe, BrokerTypeOK
<1>5. QED
  BY <1>2, <1>3, <1>4 DEF Unsubscribe, BrokerTypeOK

LEMMA CloseUserTyped ==
  ASSUME BrokerTypeOK, NEW u \in Users, CloseUserConnections(u)
  PROVE  BrokerTypeOK'
<1>1. Signalled(LOGGED_OUT) \in Seq(Items) /\ Len(Signalled(LOGGED_OUT)) = 1
  BY ItemFacts, SignalledFacts
<1>2. queue' \in [Connections -> Seq(Items)]
  BY <1>1 DEF CloseUserConnections, BrokerTypeOK, Connections
<1>3. ASSUME NEW c \in Connections
      PROVE  Len(queue'[c]) <= QueueMax
  <2>1. queue'[c] = IF c \in byUser[u] THEN Signalled(LOGGED_OUT) ELSE queue[c]
    BY DEF CloseUserConnections, Connections
  <2>2. Len(queue[c]) <= QueueMax
    BY DEF BrokerTypeOK
  <2>3. QED
    BY <1>1, <2>1, <2>2, QueueMaxAssumption
<1>4. QED
  BY <1>2, <1>3 DEF CloseUserConnections, BrokerTypeOK

LEMMA GetTyped ==
  ASSUME BrokerTypeOK, NEW q \in Connections, Get(q)
  PROVE  BrokerTypeOK'
<1>1. queue[q] \in Seq(Items) /\ queue[q] # <<>> /\ Len(queue[q]) <= QueueMax
  BY DEF Get, BrokerTypeOK
<1>2. Tail(queue[q]) \in Seq(Items) /\ Len(Tail(queue[q])) = Len(queue[q]) - 1
  BY <1>1, TailFacts
<1>3. queue' \in [Connections -> Seq(Items)]
  BY <1>2 DEF Get, BrokerTypeOK
<1>4. Len(Tail(queue[q])) <= QueueMax
  BY <1>1, <1>2, QueueMaxAssumption
<1>5. \A c \in Connections : Len(queue'[c]) <= QueueMax
  BY <1>4 DEF Get, BrokerTypeOK
<1>6. QED
  BY <1>3, <1>5 DEF Get, BrokerTypeOK

-----------------------------------------------------------------------------
(* Types: the actions. *)

LEMMA TopicFacts ==
  ASSUME AccessTypeOK, ConnTypeOK
  PROVE  /\ Members \subseteq Users
         /\ \A c \in Connections : Topic(c) \in Topics
BY OwnerAssumption, WorkspaceAssumption DEF AccessTypeOK, ConnTypeOK, Members, Topic, Topics

LEMMA EventTyped ==
  ASSUME NEW type \in EventTypes, NEW client \in Connections \cup {NoClient},
         NEW target \in Users \cup {NoUser}, NEW us \in SUBSET Users, NEW rs \in SUBSET Users
  PROVE  Event(type, client, target, us, rs) \in Events
BY DEF Event, Events

\* The steps that change access and publish what they did.
LEMMA AccessStepTyped ==
  ASSUME TypeOK, NEW client \in Connections \cup {NoClient},
         \/ ChangeWorkspace(client)
         \/ FinishDelete(client)
         \/ BeginDelete
         \/ \E u \in Users \ {Owner} :
              AddCollaborator(u, client) \/ RedeemShare(u, client)
                \/ RevokeCollaborator(u, client)
  PROVE  TypeOK'
<1>0. BrokerTypeOK /\ AccessTypeOK /\ ConnTypeOK /\ Members \subseteq Users
  BY TopicFacts DEF TypeOK
<1>1. CASE ChangeWorkspace(client)
  <2>1. PICK type \in {"file.saved", "workspace.updated"} :
          Publish(Event(type, client, NoUser,
                        IF type = "file.saved" THEN {} ELSE Members, Members))
    BY <1>1 DEF ChangeWorkspace
  <2>2. Event(type, client, NoUser,
              IF type = "file.saved" THEN {} ELSE Members, Members) \in Events
    BY <1>0, EventTyped DEF EventTypes
  <2>3. BrokerTypeOK'
    BY <1>0, <2>1, <2>2, PublishTyped
  <2>4. UNCHANGED <<accessVars, connVars>>
    BY <1>1 DEF ChangeWorkspace
  <2>5. QED
    BY <1>0, <2>3, <2>4 DEF TypeOK, AccessTypeOK, ConnTypeOK, accessVars, connVars
<1>2. CASE FinishDelete(client)
  <2>1. BrokerTypeOK'
    <3>1. CASE Publish(Event("workspace.deleted", client, NoUser, members, Members))
      <4>1. Event("workspace.deleted", client, NoUser, members, Members) \in Events
        BY <1>0, EventTyped DEF EventTypes, Closing, AccessTypeOK
      <4>2. QED
        BY <1>0, <3>1, <4>1, PublishTyped
    <3>2. CASE UNCHANGED <<brokerVars, exists, accepted>>
      BY <1>0, <3>2 DEF brokerVars, BrokerTypeOK
    <3>3. QED
      BY <1>2, <3>1, <3>2 DEF FinishDelete
  <2>2. AccessTypeOK'
    BY <1>0, <1>2 DEF FinishDelete, AccessTypeOK
  <2>3. ConnTypeOK'
    BY <1>0, <1>2 DEF FinishDelete, ConnTypeOK, connVars
  <2>4. QED
    BY <2>1, <2>2, <2>3 DEF TypeOK
<1>3. CASE BeginDelete
  BY <1>0, <1>3 DEF BeginDelete, TypeOK, BrokerTypeOK, AccessTypeOK, ConnTypeOK, brokerVars, connVars
<1>4. ASSUME NEW u \in Users \ {Owner},
             AddCollaborator(u, client) \/ RedeemShare(u, client)
               \/ RevokeCollaborator(u, client)
      PROVE  TypeOK'
  <2>1. PICK type \in EventTypes, rs \in SUBSET Users :
          Publish(Event(type, client, u, {u}, rs))
    <3>1. Members \cup {u} \in SUBSET Users /\ Members \in SUBSET Users
      BY <1>0
    <3>2. {"collaborator.added", "collaborator.revoked"} \subseteq EventTypes
      BY DEF EventTypes, Closing
    <3>3. QED
      BY <1>4, <3>1, <3>2 DEF AddCollaborator, RedeemShare, Join, RevokeCollaborator
  <2>2. Event(type, client, u, {u}, rs) \in Events
    BY EventTyped
  <2>3. BrokerTypeOK'
    BY <1>0, <2>1, <2>2, PublishTyped
  <2>4. AccessTypeOK'
    BY <1>0, <1>4
    DEF AddCollaborator, RedeemShare, Join, RevokeCollaborator, AccessTypeOK, accessVars
  <2>5. ConnTypeOK'
    BY <1>0, <1>4
    DEF AddCollaborator, RedeemShare, Join, RevokeCollaborator, ConnTypeOK, connVars
  <2>6. QED
    BY <2>3, <2>4, <2>5 DEF TypeOK
<1>5. QED
  BY <1>1, <1>2, <1>3, <1>4

\* The steps of one connection, and the end of a session.
LEMMA BrokerStepTyped ==
  ASSUME TypeOK, NEW c \in Connections,
         \/ \E k \in {"workspace", "user"}, u \in Users : Connect(c, k, u)
         \/ ExpireToken(c) \/ ClientGone(c) \/ Handler(c)
         \/ \E u \in Users : Logout(u)
  PROVE  BrokerTypeOK'
<1>0. BrokerTypeOK /\ AccessTypeOK /\ ConnTypeOK /\ Topic(c) \in Topics /\ user[c] \in Users
  BY TopicFacts DEF TypeOK, ConnTypeOK
<1>1. CASE UNCHANGED brokerVars
  BY <1>0, <1>1 DEF brokerVars, BrokerTypeOK
<1>2. ASSUME NEW k \in {"workspace", "user"}, NEW u \in Users, SubscribeAndCheck(c, k, u)
      PROVE  BrokerTypeOK'
  <2>1. <<"workspace", Workspace>> \in Topics /\ <<"user", u>> \in Topics
    BY WorkspaceAssumption DEF Topics
  <2>2. PICK t \in Topics : Subscribe(c, t, u)
    BY <1>2, <2>1 DEF SubscribeAndCheck
  <2>3. QED
    BY <1>0, <2>2, SubscribeTyped
<1>3. CASE TakeSignal(c) \/ TakeEvent(c)
  BY <1>0, <1>3, GetTyped DEF TakeSignal, TakeEvent
<1>4. CASE Finish(c)
  BY <1>0, <1>4, UnsubscribeTyped DEF Finish
<1>5. CASE \E k \in {"workspace", "user"}, u \in Users : Connect(c, k, u)
  BY <1>1, <1>2, <1>5 DEF Connect
<1>6. CASE Authenticated(c)
  <2>1. kind[c] \in {"workspace", "user"}
    BY <1>0 DEF ConnTypeOK
  <2>2. QED
    BY <1>0, <1>2, <1>6, <2>1 DEF Authenticated
<1>7. CASE \E u \in Users : Logout(u)
  BY <1>0, <1>7, CloseUserTyped DEF Logout
<1>8. CASE ExpireToken(c) \/ ClientGone(c) \/ Rejected(c) \/ Accept(c)
             \/ TopOfLoop(c) \/ Timeout(c) \/ Sent(c)
  BY <1>1, <1>8 DEF ExpireToken, ClientGone, Rejected, Accept, TopOfLoop, Timeout, Sent
<1>9. QED
  BY <1>3, <1>4, <1>5, <1>6, <1>7, <1>8 DEF Handler

\* What a step of a handler does to its connection.
Moved(c, p, code) ==
  /\ pc' = [pc EXCEPT ![c] = p]
  /\ item' = [item EXCEPT ![c] = 0]
  /\ closeCode' = [closeCode EXCEPT ![c] = code]

MovedTypeOK ==
  /\ pc \in [Connections -> Phases]
  /\ item \in [Connections -> 0..MaxEvents]
  /\ closeCode \in [Connections -> CloseCodes]
  /\ \A d \in Connections : item[d] # 0 <=> pc[d] = "sending"

\* A handler moves to a phase where it sends nothing, with its close code.
LEMMA MoveTyped ==
  ASSUME TypeOK, NEW c \in Connections, NEW p \in Phases, p # "sending",
         NEW code \in CloseCodes, Moved(c, p, code)
  PROVE  MovedTypeOK'
<1>1. MovedTypeOK
  BY DEF TypeOK, ConnTypeOK, MovedTypeOK
<1>2. /\ pc' \in [Connections -> Phases]
      /\ item' \in [Connections -> 0..MaxEvents]
  BY <1>1, MaxEventsAssumption DEF Moved, MovedTypeOK
<1>3. closeCode' \in [Connections -> CloseCodes]
  BY <1>1 DEF Moved, MovedTypeOK
<1>4. \A d \in Connections : item'[d] # 0 <=> pc'[d] = "sending"
  BY <1>1 DEF Moved, MovedTypeOK
<1>5. QED
  BY <1>2, <1>3, <1>4 DEF MovedTypeOK

LEMMA ConnStepTyped ==
  ASSUME TypeOK, NEW c \in Connections,
         \/ \E k \in {"workspace", "user"}, u \in Users : Connect(c, k, u)
         \/ ExpireToken(c) \/ ClientGone(c) \/ Handler(c)
         \/ \E u \in Users : Logout(u)
  PROVE  TypeOK'
<1>0. BrokerTypeOK /\ AccessTypeOK /\ ConnTypeOK
  BY DEF TypeOK
<1>1. BrokerTypeOK'
  BY BrokerStepTyped
<1>2. /\ Len(log) \in 0..MaxEvents /\ Len(log) \in 0..LoggedIn
      /\ LoggedIn \in 0..LoggedIn /\ 0 \in 0..MaxEvents
  BY <1>0, MaxEventsAssumption, LenProperties DEF BrokerTypeOK, LoggedIn
<1>3. ASSUME NEW k \in {"workspace", "user"}, NEW u \in Users, SubscribeAndCheck(c, k, u)
      PROVE  /\ pc' \in [Connections -> Phases]
             /\ since' \in [Connections -> 0..MaxEvents]
             /\ taken' \in [Connections -> 0..MaxEvents]
             /\ \E p \in Phases \ {"sending"} : pc' = [pc EXCEPT ![c] = p]
  <2>1. /\ pc' = [pc EXCEPT ![c] = "accepting"]
        /\ since' = [since EXCEPT ![c] = Len(log)]
        /\ taken' = [taken EXCEPT ![c] = Len(log)]
    BY <1>3 DEF SubscribeAndCheck
  <2>2. "accepting" \in Phases \ {"sending"}
    BY DEF Phases
  <2>3. since' \in [Connections -> 0..MaxEvents] /\ taken' \in [Connections -> 0..MaxEvents]
    BY <1>0, <1>2, <2>1 DEF ConnTypeOK
  <2>4. pc' \in [Connections -> Phases]
    BY <1>0, <2>1, <2>2 DEF ConnTypeOK
  <2>5. QED
    BY <2>1, <2>2, <2>3, <2>4
<1>4. ASSUME Forget(c)
      PROVE  ConnTypeOK'
  <2>1. <<>> \in Seq(1..MaxEvents)
    OBVIOUS
  <2>2. sent' \in [Connections -> Seq(1..MaxEvents)]
    BY <1>0, <1>4, <2>1 DEF Forget, ConnTypeOK
  <2>3. 0 \in 0..MaxEvents
    BY MaxEventsAssumption
  <2>4. QED
    BY <1>0, <1>2, <1>4, <2>2, <2>3, OwnerAssumption DEF Forget, ConnTypeOK, Phases, CloseCodes
<1>5. CASE \E k \in {"workspace", "user"}, u \in Users : Connect(c, k, u)
  <2>1. PICK k \in {"workspace", "user"}, u \in Users : Connect(c, k, u)
    BY <1>5
  <2>2. /\ pc' \in [Connections -> Phases]
        /\ since' \in [Connections -> 0..MaxEvents]
        /\ taken' \in [Connections -> 0..MaxEvents]
        /\ pc[c] = "new" /\ \E p \in Phases \ {"sending"} : pc' = [pc EXCEPT ![c] = p]
    <3>1. CASE SubscribeAndCheck(c, k, u)
      BY <1>3, <2>1, <3>1 DEF Connect
    <3>2. CASE pc' = [pc EXCEPT ![c] = "authenticating"] /\ UNCHANGED <<brokerVars, since, taken>>
      <4>1. "authenticating" \in Phases \ {"sending"} /\ pc[c] = "new"
        BY <2>1 DEF Phases, Connect
      <4>2. pc' \in [Connections -> Phases]
        BY <1>0, <3>2, <4>1 DEF ConnTypeOK
      <4>3. QED
        BY <1>0, <3>2, <4>1, <4>2 DEF ConnTypeOK
    <3>3. QED
      BY <2>1, <3>1, <3>2 DEF Connect
  <2>3. /\ kind' \in [Connections -> {"workspace", "user"}]
        /\ user' \in [Connections -> Users]
        /\ UNCHANGED <<accessVars, loggedOutAt, expired, item, closeCode, sent>>
    BY <1>0, <2>1 DEF Connect, ConnTypeOK
  <2>4. \A d \in Connections : item'[d] # 0 <=> pc'[d] = "sending"
    <3>1. pc \in [Connections -> Phases] /\ item' = item
            /\ \A d \in Connections : item[d] # 0 <=> pc[d] = "sending"
      BY <1>0, <2>3 DEF ConnTypeOK
    <3>2. QED
      BY <2>2, <3>1
  <2>5. ConnTypeOK' /\ AccessTypeOK'
    BY <1>0, <2>2, <2>3, <2>4 DEF ConnTypeOK, AccessTypeOK, accessVars
  <2>6. QED
    BY <1>1, <2>5 DEF TypeOK
<1>6. CASE Authenticated(c)
  <2>1. kind[c] \in {"workspace", "user"} /\ user[c] \in Users /\ pc[c] = "authenticating"
    BY <1>0, <1>6 DEF Authenticated, ConnTypeOK
  <2>2. /\ pc' \in [Connections -> Phases]
        /\ since' \in [Connections -> 0..MaxEvents]
        /\ taken' \in [Connections -> 0..MaxEvents]
        /\ \E p \in Phases \ {"sending"} : pc' = [pc EXCEPT ![c] = p]
    BY <1>3, <1>6, <2>1 DEF Authenticated
  <2>3. UNCHANGED <<accessVars, kind, user, loggedOutAt, expired, item, closeCode, sent>>
    BY <1>6 DEF Authenticated
  <2>4. \A d \in Connections : item'[d] # 0 <=> pc'[d] = "sending"
    BY <1>0, <2>1, <2>2, <2>3 DEF ConnTypeOK
  <2>5. ConnTypeOK' /\ AccessTypeOK'
    BY <1>0, <2>2, <2>3, <2>4 DEF ConnTypeOK, AccessTypeOK, accessVars
  <2>6. QED
    BY <1>1, <2>5 DEF TypeOK
<1>7. CASE Rejected(c) \/ Finish(c)
  BY <1>0, <1>1, <1>4, <1>7 DEF Rejected, Finish, accessVars, AccessTypeOK, TypeOK
<1>8. CASE TakeSignal(c)
  <2>1. queue[c] \in Seq(Items) /\ queue[c] # <<>> /\ Head(queue[c]).kind = "close"
    BY <1>0, <1>8 DEF TakeSignal, HasItem, BrokerTypeOK
  <2>2. Head(queue[c]) \in Items
    BY <2>1, TailFacts
  <2>3. Head(queue[c]).code \in {4001, 4009}
    BY <2>1, <2>2, ItemFacts
  <2>4. PICK code \in {4001, 4009} : Close(c, code)
    BY <1>8, <2>3 DEF TakeSignal
  <2>5. pc[c] # "sending" /\ item[c] = 0 /\ item' = [item EXCEPT ![c] = 0]
    BY <1>0, <1>8 DEF TakeSignal, HasItem, ConnTypeOK
  <2>6. MovedTypeOK'
    <3>1. "closing" \in Phases /\ code \in CloseCodes
      BY DEF Phases, CloseCodes
    <3>2. QED
      <4>1. Moved(c, "closing", code)
        BY <2>4, <2>5 DEF Close, Moved
      <4>2. QED
        BY <3>1, <4>1, MoveTyped
  <2>7. ConnTypeOK' /\ AccessTypeOK'
    BY <1>0, <1>8, <2>6 DEF TakeSignal, ConnTypeOK, MovedTypeOK, AccessTypeOK, accessVars
  <2>8. QED
    BY <1>1, <2>7 DEF TypeOK
<1>9. CASE TakeEvent(c)
  <2>1. queue[c] \in Seq(Items) /\ queue[c] # <<>> /\ Head(queue[c]).kind = "event"
    BY <1>0, <1>9 DEF TakeEvent, HasItem, BrokerTypeOK
  <2>2. Head(queue[c]) \in Items
    BY <2>1, TailFacts
  <2>3. Head(queue[c]).seq \in 1..MaxEvents
    BY <2>1, <2>2, ItemFacts
  <2>4. PICK n \in 1..MaxEvents : n = Head(queue[c]).seq
    BY <2>3
  <2>5. /\ taken' = [taken EXCEPT ![c] = n]
        /\ \/ pc' = [pc EXCEPT ![c] = "sending"] /\ item' = [item EXCEPT ![c] = n] /\ UNCHANGED closeCode
           \/ Close(c, 4003) /\ UNCHANGED item
           \/ pc' = [pc EXCEPT ![c] = "top"] /\ UNCHANGED <<item, closeCode>>
        /\ UNCHANGED <<accessVars, kind, user, loggedOutAt, expired, since, sent>>
    BY <1>9, <2>4 DEF TakeEvent
  <2>6. n \in 0..MaxEvents /\ n # 0 /\ pc[c] # "sending"
    BY <1>9 DEF TakeEvent, HasItem
  <2>7. taken' \in [Connections -> 0..MaxEvents]
    BY <1>0, <2>5, <2>6 DEF ConnTypeOK
  <2>8. CASE pc' = [pc EXCEPT ![c] = "sending"] /\ item' = [item EXCEPT ![c] = n] /\ UNCHANGED closeCode
    BY <1>0, <1>1, <2>5, <2>6, <2>7, <2>8
    DEF ConnTypeOK, Phases, AccessTypeOK, accessVars, TypeOK
  <2>9. CASE Close(c, 4003) /\ UNCHANGED item
    <3>1. item[c] = 0 /\ "closing" \in Phases /\ 4003 \in CloseCodes
      BY <1>0, <2>6 DEF ConnTypeOK, Phases, CloseCodes
    <3>2. Moved(c, "closing", 4003)
      BY <1>0, <2>9, <3>1 DEF Close, Moved, ConnTypeOK
    <3>3. MovedTypeOK'
      BY <3>1, <3>2, MoveTyped
    <3>4. QED
      BY <1>0, <1>1, <2>5, <2>7, <3>3
      DEF MovedTypeOK, ConnTypeOK, AccessTypeOK, accessVars, TypeOK
  <2>10. CASE pc' = [pc EXCEPT ![c] = "top"] /\ UNCHANGED <<item, closeCode>>
    BY <1>0, <1>1, <2>5, <2>6, <2>7, <2>10
    DEF ConnTypeOK, Phases, AccessTypeOK, accessVars, TypeOK
  <2>11. QED
    BY <2>5, <2>8, <2>9, <2>10
<1>10. CASE Sent(c)
  <2>1. item[c] \in 1..MaxEvents
    BY <1>0, <1>10, MaxEventsAssumption DEF Sent, ConnTypeOK
  <2>2. sent' \in [Connections -> Seq(1..MaxEvents)]
    <3>1. Append(sent[c], item[c]) \in Seq(1..MaxEvents)
      BY <1>0, <2>1, AppendProperties DEF ConnTypeOK
    <3>2. QED
      BY <1>0, <1>10, <3>1 DEF Sent, ConnTypeOK
  <2>3. item' = [item EXCEPT ![c] = 0]
    BY <1>10 DEF Sent
  <2>4. PICK p \in {"closing", "top"}, code \in {4003, closeCode[c]} :
          pc' = [pc EXCEPT ![c] = p] /\ closeCode' = [closeCode EXCEPT ![c] = code]
    BY <1>0, <1>10 DEF Sent, Close, ConnTypeOK
  <2>5. code \in CloseCodes /\ p \in Phases /\ p # "sending"
    <3>1. 4001 \in CloseCodes /\ 4003 \in CloseCodes
      BY DEF CloseCodes
    <3>2. closeCode[c] \in CloseCodes
      BY <1>0 DEF ConnTypeOK
    <3>3. p \in Phases /\ p # "sending"
      BY DEF Phases
    <3>4. QED
      BY <3>1, <3>2, <3>3
  <2>6. MovedTypeOK'
    <3>1. Moved(c, p, code)
      BY <2>3, <2>4 DEF Moved
    <3>2. QED
      BY <2>5, <3>1, MoveTyped
  <2>7. ConnTypeOK' /\ AccessTypeOK'
    BY <1>0, <1>10, <2>2, <2>6, SMTT(30)
    DEF Sent, ConnTypeOK, MovedTypeOK, AccessTypeOK, accessVars
  <2>8. QED
    BY <1>1, <2>7 DEF TypeOK
<1>11. CASE \E u \in Users : Logout(u)
  <2>1. loggedOutAt' \in [Connections -> 0..LoggedIn]
    BY <1>0, <1>2, <1>11 DEF Logout, ConnTypeOK
  <2>2. ConnTypeOK' /\ AccessTypeOK'
    BY <1>0, <1>11, <2>1 DEF Logout, ConnTypeOK, AccessTypeOK, accessVars
  <2>3. QED
    BY <1>1, <2>2 DEF TypeOK
<1>12. CASE ExpireToken(c) \/ Accept(c) \/ TopOfLoop(c) \/ Timeout(c)
  <2>1. CASE ExpireToken(c)
    BY <1>0, <1>1, <2>1 DEF ExpireToken, ConnTypeOK, AccessTypeOK, accessVars, TypeOK
  <2>2. CASE Accept(c) \/ TopOfLoop(c) \/ Timeout(c)
    <3>1. pc[c] # "sending" /\ item[c] = 0 /\ item' = [item EXCEPT ![c] = 0]
      BY <1>0, <2>2 DEF Accept, TopOfLoop, Timeout, ConnTypeOK
    <3>2. PICK p \in {"closing", "top", "waiting"}, code \in {4001, closeCode[c]} :
            pc' = [pc EXCEPT ![c] = p] /\ closeCode' = [closeCode EXCEPT ![c] = code]
      BY <1>0, <2>2 DEF Accept, TopOfLoop, Timeout, Close, ConnTypeOK
    <3>3. code \in CloseCodes /\ p \in Phases /\ p # "sending"
      <4>1. 4001 \in CloseCodes /\ 4003 \in CloseCodes
        BY DEF CloseCodes
      <4>2. closeCode[c] \in CloseCodes
        BY <1>0 DEF ConnTypeOK
      <4>3. p \in Phases /\ p # "sending"
        BY DEF Phases
      <4>4. QED
        BY <4>1, <4>2, <4>3
    <3>4. MovedTypeOK'
      <4>1. Moved(c, p, code)
        BY <3>1, <3>2 DEF Moved
      <4>2. QED
        BY <3>3, <4>1, MoveTyped
    <3>5. UNCHANGED <<accessVars, kind, user, loggedOutAt, expired, since, taken, sent>>
      BY <2>2 DEF Accept, TopOfLoop, Timeout
    <3>6. QED
      BY <1>0, <1>1, <3>4, <3>5 DEF ConnTypeOK, MovedTypeOK, AccessTypeOK, accessVars, TypeOK
  <2>3. QED
    BY <1>12, <2>1, <2>2
<1>13. CASE ClientGone(c)
  <2>1. PICK code \in {1000, 1008} : Close(c, code)
    BY <1>13 DEF ClientGone
  <2>2. item' = [item EXCEPT ![c] = 0] /\ "closing" \in Phases /\ code \in CloseCodes
    BY <1>13 DEF ClientGone, Phases, CloseCodes
  <2>3. MovedTypeOK'
    <3>1. Moved(c, "closing", code)
      BY <2>1, <2>2 DEF Close, Moved
    <3>2. QED
      BY <2>2, <3>1, MoveTyped
  <2>4. QED
    BY <1>0, <1>1, <1>13, <2>3 DEF ClientGone, ConnTypeOK, MovedTypeOK, AccessTypeOK, accessVars, TypeOK
<1>14. QED
  BY <1>5, <1>6, <1>7, <1>8, <1>9, <1>10, <1>11, <1>12, <1>13 DEF Handler

\* What a next step is, in the groups the proofs need.
LEMMA NextSteps ==
  ASSUME TypeOK, Next
  PROVE  \/ \E client \in Connections \cup {NoClient} :
              \/ ChangeWorkspace(client) \/ FinishDelete(client) \/ BeginDelete
              \/ \E u \in Users \ {Owner} :
                   AddCollaborator(u, client) \/ RedeemShare(u, client)
                     \/ RevokeCollaborator(u, client)
         \/ \E u \in Users : Logout(u)
         \/ \E c \in Connections :
              \/ \E k \in {"workspace", "user"}, u \in Users : Connect(c, k, u)
              \/ ExpireToken(c) \/ ClientGone(c) \/ Handler(c)
<1>1. \A u \in Users : ClientsOf(u) \subseteq Connections \cup {NoClient}
  BY DEF ClientsOf
<1>2. NoClient \in Connections \cup {NoClient} /\ Owner \in Users
  BY OwnerAssumption
<1>3. QED
  BY <1>1, <1>2 DEF Next

\* TypeOK is inductive.
LEMMA TypeStep ==
  ASSUME TypeOK, [Next]_vars
  PROVE  TypeOK'
<1>1. CASE UNCHANGED vars
  BY <1>1
  DEF vars, brokerVars, accessVars, connVars, TypeOK, BrokerTypeOK, AccessTypeOK, ConnTypeOK
<1>2. CASE Next
  <2>1. ASSUME NEW client \in Connections \cup {NoClient},
               \/ ChangeWorkspace(client) \/ FinishDelete(client) \/ BeginDelete
               \/ \E u \in Users \ {Owner} :
                    AddCollaborator(u, client) \/ RedeemShare(u, client)
                      \/ RevokeCollaborator(u, client)
        PROVE  TypeOK'
    BY <2>1, AccessStepTyped
  <2>2. ASSUME NEW u \in Users, Logout(u)
        PROVE  TypeOK'
    <3>1. CASE Connections = {}
      BY <2>2, <3>1, CloseUserTyped
      DEF Logout, TypeOK, BrokerTypeOK, AccessTypeOK, ConnTypeOK, accessVars
    <3>2. CASE Connections # {}
      BY <2>2, <3>2, ConnStepTyped
    <3>3. QED
      BY <3>1, <3>2
  <2>3. ASSUME NEW c \in Connections,
               \/ \E k \in {"workspace", "user"}, u \in Users : Connect(c, k, u)
               \/ ExpireToken(c) \/ ClientGone(c) \/ Handler(c)
        PROVE  TypeOK'
    BY <2>3, ConnStepTyped
  <2>4. QED
    BY <1>2, <2>1, <2>2, <2>3, NextSteps
<1>3. QED
  BY <1>1, <1>2

LEMMA InitTyped == Init => TypeOK
<1> SUFFICES ASSUME Init PROVE TypeOK
  OBVIOUS
<1>1. <<>> \in Seq(Items) /\ Len(<<>>) = 0 /\ <<>> \in Seq(Events) /\ <<>> \in Seq(1..MaxEvents)
  OBVIOUS
<1>2. BrokerTypeOK
  BY <1>1, QueueMaxAssumption, MaxEventsAssumption DEF Init, BrokerInit, BrokerTypeOK, Connections
<1>3. AccessTypeOK
  BY DEF Init, AccessTypeOK
<1>4. ConnTypeOK
  BY <1>1, OwnerAssumption, MaxEventsAssumption
  DEF Init, ConnTypeOK, Phases, CloseCodes, LoggedIn
<1>5. QED
  BY <1>2, <1>3, <1>4 DEF TypeOK

-----------------------------------------------------------------------------
(* The registries of the broker *)

\* A step that leaves the registries alone and neither opens, ends nor renames
\* a subscribed connection keeps them exact.
LEMMA RegistryFrame ==
  ASSUME RegistriesAreExact, UNCHANGED <<streams, byUser>>,
         \A d \in Connections :
           /\ pc'[d] \in Subscribed <=> pc[d] \in Subscribed
           /\ pc[d] \in Subscribed => kind'[d] = kind[d] /\ user'[d] = user[d]
  PROVE  RegistriesAreExact'
BY DEF RegistriesAreExact, Topic

\* Subscribing before the access check adds the connection to the registries
\* of its topic and of its user (collab.py:131).
LEMMA RegistrySubscribe ==
  ASSUME TypeOK, RegistriesAreExact, NEW c \in Connections, pc[c] \notin Subscribed,
         NEW k \in {"workspace", "user"}, NEW u \in Users,
         SubscribeAndCheck(c, k, u),
         kind' = [kind EXCEPT ![c] = k], user' = [user EXCEPT ![c] = u]
  PROVE  RegistriesAreExact'
<1> DEFINE topic == IF k = "workspace" THEN <<"workspace", Workspace>> ELSE <<"user", u>>
<1>1. /\ pc \in [Connections -> Phases]
      /\ kind \in [Connections -> {"workspace", "user"}]
      /\ user \in [Connections -> Users]
      /\ streams \in [Topics -> SUBSET Connections]
      /\ byUser \in [Users -> SUBSET Connections]
  BY DEF TypeOK, BrokerTypeOK, ConnTypeOK
<1>2. /\ streams' = [streams EXCEPT ![topic] = @ \cup {c}]
      /\ byUser' = [byUser EXCEPT ![u] = @ \cup {c}]
      /\ pc' = [pc EXCEPT ![c] = "accepting"]
  BY DEF SubscribeAndCheck, Subscribe
<1>3. topic \in Topics /\ Topic(c)' = topic
  BY <1>1, WorkspaceAssumption DEF Topics, Topic
<1>4. \A d \in Connections : d # c => pc'[d] = pc[d] /\ Topic(d)' = Topic(d) /\ user'[d] = user[d]
  BY <1>1, <1>2 DEF Topic
<1>5. pc'[c] \in Subscribed /\ user'[c] = u
  BY <1>1, <1>2 DEF Subscribed, Serving
<1> HIDE DEF topic
<1>6. ASSUME NEW t \in Topics
      PROVE  streams'[t] = {d \in Connections : pc'[d] \in Subscribed /\ Topic(d)' = t}
  <2>1. streams[t] = {d \in Connections : pc[d] \in Subscribed /\ Topic(d) = t}
    BY DEF RegistriesAreExact
  <2>2. streams'[t] = IF t = topic THEN streams[t] \cup {c} ELSE streams[t]
    BY <1>1, <1>2, <1>3
  <2>3. QED
    BY <1>3, <1>4, <1>5, <2>1, <2>2
<1>7. ASSUME NEW v \in Users
      PROVE  byUser'[v] = {d \in Connections : pc'[d] \in Subscribed /\ user'[d] = v}
  <2>1. byUser[v] = {d \in Connections : pc[d] \in Subscribed /\ user[d] = v}
    BY DEF RegistriesAreExact
  <2>2. byUser'[v] = IF v = u THEN byUser[v] \cup {c} ELSE byUser[v]
    BY <1>1, <1>2
  <2>3. QED
    BY <1>4, <1>5, <2>1, <2>2
<1>8. QED
  BY <1>6, <1>7 DEF RegistriesAreExact

\* The finally of _serve takes the connection out of both (collab.py:201).
LEMMA RegistryFinish ==
  ASSUME TypeOK, RegistriesAreExact, NEW c \in Connections, Finish(c)
  PROVE  RegistriesAreExact'
<1>1. /\ pc \in [Connections -> Phases]
      /\ kind \in [Connections -> {"workspace", "user"}]
      /\ user \in [Connections -> Users]
      /\ streams \in [Topics -> SUBSET Connections]
      /\ byUser \in [Users -> SUBSET Connections]
      /\ Topic(c) \in Topics /\ user[c] \in Users
  BY TopicFacts DEF TypeOK, BrokerTypeOK, ConnTypeOK
<1>2. /\ streams' = [streams EXCEPT ![Topic(c)] = @ \ {c}]
      /\ byUser' = [byUser EXCEPT ![user[c]] = @ \ {c}]
  BY DEF Finish, Unsubscribe
<1>3. /\ pc' = [pc EXCEPT ![c] = "new"]
      /\ \A d \in Connections : d # c => kind'[d] = kind[d] /\ user'[d] = user[d]
  BY <1>1 DEF Finish, Forget
<1>4. \A d \in Connections : d # c => pc'[d] = pc[d] /\ Topic(d)' = Topic(d) /\ user'[d] = user[d]
  BY <1>1, <1>3 DEF Topic
<1>5. pc'[c] \notin Subscribed
  BY <1>1, <1>3 DEF Subscribed, Serving
<1>6. ASSUME NEW t \in Topics
      PROVE  streams'[t] = {d \in Connections : pc'[d] \in Subscribed /\ Topic(d)' = t}
  <2>1. streams[t] = {d \in Connections : pc[d] \in Subscribed /\ Topic(d) = t}
    BY DEF RegistriesAreExact
  <2>2. streams'[t] = streams[t] \ {c}
    BY <1>1, <1>2, <2>1
  <2>3. QED
    BY <1>4, <1>5, <2>1, <2>2
<1>7. ASSUME NEW v \in Users
      PROVE  byUser'[v] = {d \in Connections : pc'[d] \in Subscribed /\ user'[d] = v}
  <2>1. byUser[v] = {d \in Connections : pc[d] \in Subscribed /\ user[d] = v}
    BY DEF RegistriesAreExact
  <2>2. byUser'[v] = byUser[v] \ {c}
    BY <1>1, <1>2, <2>1
  <2>3. QED
    BY <1>4, <1>5, <2>1, <2>2
<1>8. QED
  BY <1>6, <1>7 DEF RegistriesAreExact

\* Publishing and the signal of a logout leave the registries alone.
LEMMA PublishKeepsRegistries ==
  ASSUME NEW e, Publish(e)
  PROVE  UNCHANGED <<streams, byUser>>
BY DEF Publish, brokerVars

LEMMA RegistryStep ==
  ASSUME TypeOK, RegistriesAreExact, [Next]_vars
  PROVE  RegistriesAreExact'
<1>0. pc \in [Connections -> Phases] /\ kind \in [Connections -> {"workspace", "user"}]
        /\ user \in [Connections -> Users]
  BY DEF TypeOK, ConnTypeOK
<1>1. CASE UNCHANGED vars
  BY <1>1, RegistryFrame DEF vars, brokerVars, connVars
<1>2. ASSUME NEW client \in Connections \cup {NoClient},
             \/ ChangeWorkspace(client) \/ FinishDelete(client) \/ BeginDelete
             \/ \E u \in Users \ {Owner} :
                  AddCollaborator(u, client) \/ RedeemShare(u, client)
                    \/ RevokeCollaborator(u, client)
      PROVE  RegistriesAreExact'
  <2>1. UNCHANGED connVars
    BY <1>2 DEF ChangeWorkspace, FinishDelete, BeginDelete, AddCollaborator,
                RedeemShare, Join, RevokeCollaborator
  <2>2. UNCHANGED brokerVars \/ \E e : Publish(e)
    BY <1>2 DEF ChangeWorkspace, FinishDelete, BeginDelete, AddCollaborator,
                RedeemShare, Join, RevokeCollaborator, brokerVars
  <2>3. UNCHANGED <<streams, byUser>>
    BY <2>2, PublishKeepsRegistries DEF brokerVars
  <2>4. QED
    BY <2>1, <2>3, RegistryFrame DEF connVars
<1>3. ASSUME NEW u \in Users, Logout(u)
      PROVE  RegistriesAreExact'
  BY <1>3, RegistryFrame DEF Logout, CloseUserConnections
<1>4. ASSUME NEW c \in Connections, NEW k \in {"workspace", "user"}, NEW u \in Users,
             Connect(c, k, u)
      PROVE  RegistriesAreExact'
  <2>1. /\ pc[c] = "new" /\ pc[c] \notin Subscribed
        /\ kind' = [kind EXCEPT ![c] = k] /\ user' = [user EXCEPT ![c] = u]
    BY <1>4 DEF Connect, Subscribed, Serving
  <2>2. CASE SubscribeAndCheck(c, k, u)
    BY <2>1, <2>2, RegistrySubscribe
  <2>3. CASE pc' = [pc EXCEPT ![c] = "authenticating"] /\ UNCHANGED <<brokerVars, since, taken>>
    <3>1. \A d \in Connections :
            /\ pc'[d] \in Subscribed <=> pc[d] \in Subscribed
            /\ pc[d] \in Subscribed => kind'[d] = kind[d] /\ user'[d] = user[d]
      BY <1>0, <2>1, <2>3 DEF Subscribed, Serving
    <3>2. QED
      BY <2>3, <3>1, RegistryFrame DEF brokerVars
  <2>4. QED
    BY <1>4, <2>2, <2>3 DEF Connect
<1>5. ASSUME NEW c \in Connections, Authenticated(c)
      PROVE  RegistriesAreExact'
  <2>1. /\ pc[c] \notin Subscribed
        /\ kind[c] \in {"workspace", "user"} /\ user[c] \in Users
        /\ SubscribeAndCheck(c, kind[c], user[c])
        /\ kind' = [kind EXCEPT ![c] = kind[c]] /\ user' = [user EXCEPT ![c] = user[c]]
    BY <1>0, <1>5 DEF Authenticated, Subscribed, Serving
  <2>2. QED
    BY <2>1, RegistrySubscribe
<1>6. ASSUME NEW c \in Connections, Rejected(c)
      PROVE  RegistriesAreExact'
  <2>1. \A d \in Connections :
          /\ pc'[d] \in Subscribed <=> pc[d] \in Subscribed
          /\ pc[d] \in Subscribed => kind'[d] = kind[d] /\ user'[d] = user[d]
    BY <1>0, <1>6 DEF Rejected, Forget, Subscribed, Serving
  <2>2. QED
    BY <1>6, <2>1, RegistryFrame DEF Rejected, brokerVars
<1>7. ASSUME NEW c \in Connections,
             ExpireToken(c) \/ ClientGone(c) \/ Accept(c) \/ TopOfLoop(c) \/ Timeout(c)
               \/ TakeSignal(c) \/ TakeEvent(c) \/ Sent(c)
      PROVE  RegistriesAreExact'
  <2>1. UNCHANGED <<streams, byUser, kind, user>>
    BY <1>7 DEF ExpireToken, ClientGone, Accept, TopOfLoop, Timeout, TakeSignal, TakeEvent,
                Sent, Get, brokerVars
  <2>2. /\ pc[c] \in Serving
        /\ pc' = pc \/ \E p \in Subscribed : pc' = [pc EXCEPT ![c] = p]
    <3>1. {"top", "waiting", "sending", "closing"} \subseteq Subscribed
      BY DEF Subscribed, Serving
    <3>2. CASE ExpireToken(c) \/ ClientGone(c) \/ Accept(c)
      BY <3>1, <3>2 DEF ExpireToken, ClientGone, Accept, Close, Serving
    <3>3. CASE TopOfLoop(c) \/ Timeout(c) \/ Sent(c)
      BY <3>1, <3>3 DEF TopOfLoop, Timeout, Sent, Close, Serving
    <3>4. CASE TakeSignal(c)
      BY <3>1, <3>4 DEF TakeSignal, HasItem, Close, Serving
    <3>5. CASE TakeEvent(c)
      BY <3>1, <3>5 DEF TakeEvent, HasItem, Close, Serving
    <3>6. QED
      BY <1>7, <3>2, <3>3, <3>4, <3>5
  <2>3. \A d \in Connections : pc'[d] \in Subscribed <=> pc[d] \in Subscribed
    BY <1>0, <2>2 DEF Subscribed
  <2>4. QED
    BY <2>1, <2>3, RegistryFrame
<1>8. QED
  BY <1>1, <1>2, <1>3, <1>4, <1>5, <1>6, <1>7, RegistryFinish, NextSteps DEF Handler

-----------------------------------------------------------------------------
(* The end of a session *)

\* What the variables of one connection are.
LEMMA ConnFacts ==
  ASSUME TypeOK, NEW d \in Connections
  PROVE  /\ pc[d] \in Phases
         /\ queue[d] \in Seq(Items) /\ Len(queue[d]) \in Nat
         /\ Len(log) \in Nat /\ Len(log) <= MaxEvents
         /\ loggedOutAt[d] \in 0..LoggedIn /\ LoggedIn = MaxEvents + 1
         /\ item[d] \in 0..MaxEvents /\ (item[d] # 0 <=> pc[d] = "sending")
         /\ sent[d] \in Seq(1..MaxEvents) /\ Len(sent[d]) \in Nat
         /\ \A i \in 1..Len(sent[d]) : sent[d][i] \in 1..MaxEvents
         /\ \A i \in 1..Len(queue[d]) : queue[d][i] \in Items /\ queue[d][i].seq \in 0..MaxEvents
<1>1. /\ queue[d] \in Seq(Items) /\ log \in Seq(Events) /\ Len(log) <= MaxEvents
      /\ sent[d] \in Seq(1..MaxEvents)
  BY DEF TypeOK, BrokerTypeOK, ConnTypeOK
<1>2. /\ pc[d] \in Phases
      /\ loggedOutAt[d] \in 0..LoggedIn
      /\ item[d] \in 0..MaxEvents /\ (item[d] # 0 <=> pc[d] = "sending")
  BY DEF TypeOK, ConnTypeOK
<1>3. Len(queue[d]) \in Nat /\ Len(log) \in Nat /\ Len(sent[d]) \in Nat
  BY <1>1, LenProperties
<1>4. \A i \in 1..Len(sent[d]) : sent[d][i] \in 1..MaxEvents
  BY <1>1, ElementOfSeq
<1>5. \A i \in 1..Len(queue[d]) : queue[d][i] \in Items
  BY <1>1, ElementOfSeq
<1>6. \A i \in 1..Len(queue[d]) : queue[d][i].seq \in 0..MaxEvents
  BY <1>5, ItemFacts
<1>7. QED
  BY <1>1, <1>2, <1>3, <1>4, <1>5, <1>6 DEF LoggedIn

\* A connection that a step does not concern.
LEMMA SignedOutFrame ==
  ASSUME NEW d \in Connections, SignedOutInv(d),
         pc'[d] = pc[d], queue'[d] = queue[d], log' = log,
         loggedOutAt'[d] = loggedOutAt[d], item'[d] = item[d], sent'[d] = sent[d]
  PROVE  SignedOutInv(d)'
BY DEF SignedOutInv

\* Publishing never takes the signal from the head of a queue.
LEMMA SignedOutPublish ==
  ASSUME TypeOK, NEW d \in Connections, SignedOutInv(d), NEW e \in Events, Publish(e),
         UNCHANGED connVars
  PROVE  SignedOutInv(d)'
<1>1. CASE \A t \in Topics : streams[t] = {}
  BY <1>1, SignedOutFrame DEF Publish, brokerVars, connVars
<1>2. CASE ~\A t \in Topics : streams[t] = {}
  <2> DEFINE n == Len(log) + 1
             put == Put(queue[d], EventItem(n))
  <2>0. /\ Len(log) < MaxEvents /\ log' = Append(log, e)
        /\ queue'[d] = queue[d] \/ queue'[d] = put
    BY <1>2 DEF Publish, Connections
  <2>1. /\ queue[d] \in Seq(Items) /\ Len(queue[d]) <= QueueMax /\ log \in Seq(Events)
        /\ Len(log) \in Nat
    BY ConnFacts DEF TypeOK, BrokerTypeOK
  <2>2. n \in 1..MaxEvents /\ Len(log') = n
    BY <2>0, <2>1, AppendProperties, MaxEventsAssumption
  <2>3. /\ \A i \in 1..Len(put) :
             put[i].seq = n \/ put[i].seq = 0 \/ \E j \in 1..Len(queue[d]) : put[i] = queue[d][j]
        /\ queue[d] # <<>> => put # <<>> /\ (put[1] = queue[d][1] \/ put[1].kind = "close")
    BY <2>1, <2>2, PutFacts
  <2> HIDE DEF put
  <2>4. UNCHANGED <<pc, loggedOutAt, item, sent>>
    BY DEF connVars
  <2>5. pc[d] \in Serving => \A i \in 1..Len(queue'[d]) : queue'[d][i].seq <= Len(log')
    <3>1. ASSUME pc[d] \in Serving
          PROVE  \A i \in 1..Len(queue[d]) : queue[d][i].seq <= n /\ queue[d][i].seq \in Nat
      BY <2>1, <3>1, ConnFacts DEF SignedOutInv
    <3>2. CASE queue'[d] = queue[d]
      BY <2>2, <3>1, <3>2
    <3>3. CASE queue'[d] = put
      <4> SUFFICES ASSUME pc[d] \in Serving, NEW i \in 1..Len(put)
                   PROVE  put[i].seq <= n
        BY <2>2, <3>3
      <4>1. CASE put[i].seq = n \/ put[i].seq = 0
        BY <2>2, <4>1
      <4>2. CASE \E j \in 1..Len(queue[d]) : put[i] = queue[d][j]
        BY <3>1, <4>2
      <4>3. QED
        BY <2>3, <4>1, <4>2
    <3>4. QED
      BY <2>0, <3>2, <3>3
  <2>6. pc[d] \in Serving /\ loggedOutAt[d] # LoggedIn =>
          queue'[d] # <<>> /\ queue'[d][1].kind = "close"
    BY <2>0, <2>3 DEF SignedOutInv
  <2>7. pc[d] \in Subscribed =>
          item[d] <= Len(log') /\ \A i \in 1..Len(sent[d]) : sent[d][i] <= Len(log')
    <3>1. /\ item[d] \in Nat /\ \A i \in 1..Len(sent[d]) : sent[d][i] \in Nat
      BY ConnFacts
    <3>2. QED
      BY <2>1, <2>2, <3>1 DEF SignedOutInv
  <2>8. QED
    BY <2>4, <2>5, <2>6, <2>7 DEF SignedOutInv
<1>3. QED
  BY <1>1, <1>2

\* A logout finds every subscribed socket of the user in the registry, leaves
\* the signal in its queue and comes after all that was sent.
LEMMA SignedOutLogout ==
  ASSUME TypeOK, RegistriesAreExact, NEW d \in Connections, SignedOutInv(d),
         NEW u \in Users, Logout(u)
  PROVE  SignedOutInv(d)'
<1>1. /\ queue'[d] = IF d \in byUser[u] THEN Signalled(LOGGED_OUT) ELSE queue[d]
      /\ loggedOutAt'[d] = IF pc[d] # "new" /\ user[d] = u /\ loggedOutAt[d] = LoggedIn
                           THEN Len(log) ELSE loggedOutAt[d]
      /\ UNCHANGED <<log, pc, item, sent>>
  BY DEF Logout, CloseUserConnections, Connections
<1>2. /\ Signalled(LOGGED_OUT)[1] = LOGGED_OUT /\ Len(Signalled(LOGGED_OUT)) = 1
      /\ Signalled(LOGGED_OUT) # <<>> /\ LOGGED_OUT.kind = "close" /\ LOGGED_OUT.seq = 0
  BY ItemFacts, SignalledFacts
<1>3. d \in byUser[u] <=> pc[d] \in Subscribed /\ user[d] = u
  BY DEF RegistriesAreExact
<1>4. /\ pc[d] \in {"new", "authenticating"} \cup Subscribed
      /\ item[d] \in Nat /\ Len(log) \in Nat
      /\ (item[d] # 0 => pc[d] = "sending")
      /\ Len(<<>>) = 0
  BY ConnFacts DEF Phases, Subscribed, Serving
<1>5. pc[d] \in Serving => pc[d] \in Subscribed
  BY DEF Subscribed
<1>6. pc[d] \in Serving => \A i \in 1..Len(queue'[d]) : queue'[d][i].seq <= Len(log)
  <2>1. CASE d \in byUser[u]
    <3>1. queue'[d] = Signalled(LOGGED_OUT)
      BY <1>1, <2>1
    <3>2. ASSUME NEW i \in 1..Len(queue'[d])
          PROVE  queue'[d][i] = LOGGED_OUT
      <4>1. Len(queue'[d]) = 1 /\ queue'[d][1] = LOGGED_OUT
        BY <1>2, <3>1
      <4>2. i = 1
        BY <4>1
      <4>3. QED
        BY <4>1, <4>2
    <3>3. QED
      BY <1>2, <1>4, <3>2
  <2>2. CASE d \notin byUser[u]
    BY <1>1, <2>2 DEF SignedOutInv
  <2>3. QED
    BY <2>1, <2>2
<1>7. pc[d] \in Serving /\ loggedOutAt'[d] # LoggedIn =>
        queue'[d] # <<>> /\ queue'[d][1].kind = "close"
  BY <1>1, <1>2, <1>3, <1>5 DEF SignedOutInv
<1>8. item[d] <= loggedOutAt'[d] /\ \A i \in 1..Len(sent[d]) : sent[d][i] <= loggedOutAt'[d]
  <2>1. CASE pc[d] \in Subscribed
    BY <1>1, <2>1 DEF SignedOutInv
  <2>2. CASE pc[d] \in {"new", "authenticating"}
    <3>1. sent[d] = <<>> /\ item[d] = 0
      BY <1>4, <2>2 DEF SignedOutInv
    <3>2. loggedOutAt'[d] = Len(log) \/ loggedOutAt'[d] = loggedOutAt[d]
      BY <1>1
    <3>3. item[d] <= loggedOutAt[d] /\ loggedOutAt[d] \in Nat
      BY ConnFacts DEF SignedOutInv
    <3>4. QED
      BY <1>4, <3>1, <3>2, <3>3
  <2>3. QED
    BY <1>4, <2>1, <2>2
<1>9. QED
  BY <1>1, <1>6, <1>7, <1>8 DEF SignedOutInv

\* The steps of a connection, for that connection: nothing is sent once the
\* head of its queue is a signal.
LEMMA SignedOutStep ==
  ASSUME TypeOK, NEW c \in Connections, SignedOutInv(c),
         \/ \E k \in {"workspace", "user"}, u \in Users : Connect(c, k, u)
         \/ ExpireToken(c) \/ ClientGone(c) \/ Handler(c)
  PROVE  SignedOutInv(c)'
<1>0. /\ pc \in [Connections -> Phases] /\ item \in [Connections -> 0..MaxEvents]
      /\ queue \in [Connections -> Seq(Items)]
      /\ sent \in [Connections -> Seq(1..MaxEvents)]
      /\ loggedOutAt \in [Connections -> 0..LoggedIn]
  BY DEF TypeOK, BrokerTypeOK, ConnTypeOK
<1>1. /\ Len(log) \in Nat /\ Len(log) <= MaxEvents
      /\ loggedOutAt[c] \in 0..LoggedIn /\ LoggedIn = MaxEvents + 1
      /\ item[c] \in 0..MaxEvents /\ (item[c] # 0 <=> pc[c] = "sending")
      /\ \A i \in 1..Len(sent[c]) : sent[c][i] \in 1..MaxEvents
      /\ Len(<<>>) = 0
  BY ConnFacts
<1>2. ASSUME Forget(c)
      PROVE  SignedOutInv(c)'
  <2>1. /\ pc'[c] = "new" /\ loggedOutAt'[c] = LoggedIn /\ item'[c] = 0 /\ sent'[c] = <<>>
    BY <1>0, <1>2 DEF Forget
  <2>2. pc'[c] \notin Serving /\ pc'[c] \notin Subscribed
    BY <2>1 DEF Subscribed, Serving
  <2>3. QED
    BY <1>1, <2>1, <2>2, MaxEventsAssumption DEF SignedOutInv
<1>3. ASSUME NEW k, NEW u, SubscribeAndCheck(c, k, u), pc[c] \in {"new", "authenticating"},
             loggedOutAt[c] = LoggedIn, UNCHANGED <<loggedOutAt, item, sent>>
      PROVE  SignedOutInv(c)'
  <2>1. pc'[c] = "accepting" /\ queue'[c] = <<>> /\ log' = log
    BY <1>0, <1>3 DEF SubscribeAndCheck, Subscribe
  <2>2. sent[c] = <<>> /\ item[c] = 0
    BY <1>1, <1>3 DEF SignedOutInv
  <2>3. QED
    BY <1>1, <1>3, <2>1, <2>2, MaxEventsAssumption DEF SignedOutInv
<1>4. ASSUME NEW k \in {"workspace", "user"}, NEW u \in Users, Connect(c, k, u)
      PROVE  SignedOutInv(c)'
  <2>1. pc[c] = "new" /\ loggedOutAt[c] = LoggedIn /\ UNCHANGED <<loggedOutAt, item, sent>>
    BY <1>4 DEF Connect, SignedOutInv
  <2>2. CASE SubscribeAndCheck(c, k, u)
    BY <1>3, <2>1, <2>2
  <2>3. CASE pc' = [pc EXCEPT ![c] = "authenticating"]
    <3>1. pc'[c] = "authenticating" /\ pc'[c] \notin Serving /\ pc'[c] \notin Subscribed
      BY <1>0, <2>3 DEF Subscribed, Serving
    <3>2. sent[c] = <<>> /\ item[c] = 0
      BY <1>1, <2>1 DEF SignedOutInv
    <3>3. QED
      BY <1>1, <2>1, <3>1, <3>2, MaxEventsAssumption DEF SignedOutInv
  <2>4. QED
    BY <1>4, <2>2, <2>3 DEF Connect
<1>5. CASE Authenticated(c)
  BY <1>3, <1>5 DEF Authenticated
<1>6. CASE Rejected(c) \/ Finish(c)
  BY <1>2, <1>6 DEF Rejected, Finish
<1>7. CASE Sent(c)
  <2>1. /\ pc[c] = "sending" /\ pc[c] \in Serving /\ pc[c] \in Subscribed
        /\ sent'[c] = Append(sent[c], item[c]) /\ item'[c] = 0
        /\ pc'[c] \in {"closing", "top"}
        /\ UNCHANGED <<queue, log, loggedOutAt>>
    BY <1>0, <1>7 DEF Sent, Close, brokerVars, Subscribed, Serving
  <2>2. \A i \in 1..Len(sent'[c]) :
          sent'[c][i] = item[c] \/ \E j \in 1..Len(sent[c]) : sent'[c][i] = sent[c][j]
    <3>1. sent[c] \in Seq(1..MaxEvents) /\ item[c] \in 1..MaxEvents
      BY <1>0, <1>1, <2>1
    <3>2. /\ Len(sent'[c]) = Len(sent[c]) + 1 /\ Len(sent[c]) \in Nat
          /\ \A i \in 1..Len(sent[c]) : sent'[c][i] = sent[c][i]
          /\ sent'[c][Len(sent[c]) + 1] = item[c]
      BY <2>1, <3>1, AppendProperties
    <3>3. QED
      BY <3>2
  <2>3. /\ item[c] <= Len(log) /\ item[c] <= loggedOutAt[c]
        /\ \A j \in 1..Len(sent[c]) : sent[c][j] <= Len(log) /\ sent[c][j] <= loggedOutAt[c]
    BY <2>1 DEF SignedOutInv
  <2>4. \A i \in 1..Len(sent'[c]) : sent'[c][i] <= Len(log) /\ sent'[c][i] <= loggedOutAt[c]
    BY <2>2, <2>3
  <2>5. QED
    BY <1>1, <2>1, <2>4 DEF SignedOutInv
<1>8. CASE TakeEvent(c)
  <2>1. /\ pc[c] \in Serving /\ pc[c] \in Subscribed /\ queue[c] \in Seq(Items) /\ queue[c] # <<>>
        /\ queue'[c] = Tail(queue[c]) /\ Head(queue[c]).kind = "event"
        /\ UNCHANGED <<log, loggedOutAt, sent>>
    BY <1>0, <1>8 DEF TakeEvent, HasItem, Get, Serving, Subscribed
  <2>2. /\ Head(queue[c]) = queue[c][1] /\ Len(Tail(queue[c])) = Len(queue[c]) - 1
        /\ \A i \in 1..Len(Tail(queue[c])) : Tail(queue[c])[i] = queue[c][i + 1]
        /\ Len(queue[c]) \in Nat \ {0}
    BY <2>1, TailFacts, EmptySeq
  <2>3. PICK n \in Nat : n = Head(queue[c]).seq /\ n <= Len(log)
    BY <2>1, <2>2, ConnFacts DEF SignedOutInv
  <2>4. loggedOutAt[c] = LoggedIn
    BY <2>1, <2>2 DEF SignedOutInv
  <2>5. /\ item'[c] \in {n, item[c]}
        /\ pc'[c] \in {"sending", "closing", "top"}
    BY <1>0, <1>8, <2>3 DEF TakeEvent, Close
  <2>6. \A i \in 1..Len(queue'[c]) : queue'[c][i].seq <= Len(log)
    BY <2>1, <2>2 DEF SignedOutInv
  <2>7. item'[c] <= Len(log) /\ item'[c] <= LoggedIn
    <3>1. item[c] <= Len(log)
      BY <2>1 DEF SignedOutInv
    <3>2. QED
      BY <1>1, <2>3, <2>5, <3>1, MaxEventsAssumption
  <2>8. QED
    BY <1>1, <2>1, <2>4, <2>5, <2>6, <2>7 DEF SignedOutInv
<1>9. CASE ExpireToken(c) \/ ClientGone(c) \/ Accept(c) \/ TopOfLoop(c) \/ Timeout(c)
             \/ TakeSignal(c)
  <2>1. /\ pc[c] \in Serving /\ pc[c] \in Subscribed
        /\ item'[c] \in {0, item[c]}
        /\ UNCHANGED <<log, loggedOutAt, sent>>
    BY <1>0, <1>9 DEF ExpireToken, ClientGone, Accept, TopOfLoop, Timeout, TakeSignal, HasItem,
                      Get, brokerVars, Serving, Subscribed
  <2>2. \/ pc'[c] \in Serving /\ queue' = queue
        \/ pc'[c] = "closing"
    <3>1. CASE ExpireToken(c) \/ ClientGone(c) \/ Accept(c)
      BY <1>0, <3>1 DEF ExpireToken, ClientGone, Accept, Close, brokerVars, Serving
    <3>2. CASE TopOfLoop(c) \/ Timeout(c) \/ TakeSignal(c)
      BY <1>0, <3>2 DEF TopOfLoop, Timeout, TakeSignal, Close, brokerVars, Serving
    <3>3. QED
      BY <1>9, <3>1, <3>2
  <2>3. "closing" \notin Serving /\ "closing" \notin {"new", "authenticating"}
          /\ \A p \in Serving : p \notin {"new", "authenticating"}
    BY DEF Serving
  <2>4. item'[c] <= Len(log) /\ item'[c] <= loggedOutAt[c]
    BY <1>1, <2>1 DEF SignedOutInv
  <2>5. QED
    BY <2>1, <2>2, <2>3, <2>4 DEF SignedOutInv
<1>10. QED
  BY <1>4, <1>5, <1>6, <1>7, <1>8, <1>9 DEF Handler

\* The history is forgotten only when nobody else listens.
LEMMA SignedOutFinish ==
  ASSUME TypeOK, RegistriesAreExact, NEW c \in Connections, Finish(c),
         NEW d \in Connections, d # c, SignedOutInv(d)
  PROVE  SignedOutInv(d)'
<1>0. /\ pc \in [Connections -> Phases] /\ item \in [Connections -> 0..MaxEvents]
      /\ queue \in [Connections -> Seq(Items)]
      /\ sent \in [Connections -> Seq(1..MaxEvents)]
      /\ loggedOutAt \in [Connections -> 0..LoggedIn]
      /\ Topic(d) \in Topics
  BY TopicFacts DEF TypeOK, BrokerTypeOK, ConnTypeOK
<1>1. /\ pc'[d] = pc[d] /\ queue'[d] = queue[d] /\ loggedOutAt'[d] = loggedOutAt[d]
      /\ item'[d] = item[d] /\ sent'[d] = sent[d]
  BY <1>0 DEF Finish, Forget, Unsubscribe
<1>2. CASE pc[d] \in Subscribed
  <2>1. d \in streams[Topic(d)]
    BY <1>0, <1>2 DEF RegistriesAreExact
  <2>2. log' = log
    BY <1>0, <2>1 DEF Finish, Unsubscribe
  <2>3. QED
    BY <1>1, <2>2, SignedOutFrame
<1>3. CASE pc[d] \notin Subscribed
  BY <1>1, <1>3 DEF SignedOutInv, Subscribed
<1>4. QED
  BY <1>2, <1>3

\* What a step of one connection does to the others.
LEMMA OthersUnchanged ==
  ASSUME TypeOK, NEW c \in Connections, NEW d \in Connections, d # c,
         \/ \E k \in {"workspace", "user"}, u \in Users : Connect(c, k, u)
         \/ ExpireToken(c) \/ ClientGone(c) \/ Handler(c),
         ~Finish(c)
  PROVE  /\ pc'[d] = pc[d] /\ queue'[d] = queue[d] /\ log' = log
         /\ loggedOutAt'[d] = loggedOutAt[d] /\ item'[d] = item[d] /\ sent'[d] = sent[d]
<1>0. /\ pc \in [Connections -> Phases] /\ item \in [Connections -> 0..MaxEvents]
      /\ queue \in [Connections -> Seq(Items)]
      /\ sent \in [Connections -> Seq(1..MaxEvents)]
      /\ loggedOutAt \in [Connections -> 0..LoggedIn]
  BY DEF TypeOK, BrokerTypeOK, ConnTypeOK
<1>1. ASSUME NEW k, NEW u, SubscribeAndCheck(c, k, u)
      PROVE  pc'[d] = pc[d] /\ queue'[d] = queue[d] /\ log' = log
  BY <1>0, <1>1 DEF SubscribeAndCheck, Subscribe
<1>2. CASE \E k \in {"workspace", "user"}, u \in Users : Connect(c, k, u)
  BY <1>0, <1>1, <1>2 DEF Connect, brokerVars
<1>3. CASE Authenticated(c)
  BY <1>1, <1>3 DEF Authenticated
<1>4. CASE Rejected(c)
  BY <1>0, <1>4 DEF Rejected, Forget, brokerVars
<1>5. CASE ExpireToken(c) \/ ClientGone(c) \/ Accept(c) \/ TopOfLoop(c) \/ Timeout(c)
  BY <1>0, <1>5 DEF ExpireToken, ClientGone, Accept, TopOfLoop, Timeout, Close, brokerVars
<1>6. CASE TakeSignal(c) \/ Sent(c)
  BY <1>0, <1>6 DEF TakeSignal, Sent, Close, Get, brokerVars
<1>7. CASE TakeEvent(c)
  BY <1>0, <1>7 DEF TakeEvent, Close, Get
<1>8. QED
  BY <1>2, <1>3, <1>4, <1>5, <1>6, <1>7 DEF Handler

-----------------------------------------------------------------------------
(* The first part of the inductive invariant *)

LEMMA InitInv == Init => BaseInv
<1> SUFFICES ASSUME Init PROVE BaseInv
  OBVIOUS
<1>1. TypeOK
  BY InitTyped
<1>2. RegistriesAreExact
  BY DEF Init, BrokerInit, RegistriesAreExact, Subscribed, Serving
<1>3. ASSUME NEW c \in Connections
      PROVE  SignedOutInv(c)
  <2>1. /\ pc[c] = "new" /\ loggedOutAt[c] = LoggedIn /\ sent[c] = <<>> /\ item[c] = 0
        /\ Len(<<>>) = 0 /\ LoggedIn \in Nat
    BY MaxEventsAssumption DEF Init, LoggedIn
  <2>2. QED
    BY <2>1 DEF SignedOutInv, Subscribed, Serving
<1>4. QED
  BY <1>1, <1>2, <1>3 DEF BaseInv

LEMMA SignedOutNext ==
  ASSUME BaseInv, [Next]_vars, NEW d \in Connections
  PROVE  SignedOutInv(d)'
<1>0. TypeOK /\ RegistriesAreExact /\ SignedOutInv(d) /\ Members \subseteq Users
        /\ members \subseteq Users
  BY TopicFacts DEF BaseInv, TypeOK, AccessTypeOK
<1>1. CASE UNCHANGED vars
  BY <1>0, <1>1, SignedOutFrame DEF vars, brokerVars, connVars
<1>2. ASSUME NEW client \in Connections \cup {NoClient},
             \/ ChangeWorkspace(client) \/ FinishDelete(client) \/ BeginDelete
             \/ \E u \in Users \ {Owner} :
                  AddCollaborator(u, client) \/ RedeemShare(u, client)
                    \/ RevokeCollaborator(u, client)
      PROVE  SignedOutInv(d)'
  <2>1. UNCHANGED connVars
    BY <1>2 DEF ChangeWorkspace, FinishDelete, BeginDelete, AddCollaborator,
                RedeemShare, Join, RevokeCollaborator
  <2>2. \/ UNCHANGED brokerVars
        \/ \E type \in EventTypes, target \in Users \cup {NoUser},
              us \in SUBSET Users, rs \in SUBSET Users :
              Publish(Event(type, client, target, us, rs))
    <3>1. {"file.saved", "workspace.updated", "workspace.deleted", "collaborator.added",
           "collaborator.revoked"} \subseteq EventTypes
      BY DEF EventTypes, Closing
    <3>2. CASE ChangeWorkspace(client)
      <4>1. PICK type \in {"file.saved", "workspace.updated"} :
              Publish(Event(type, client, NoUser,
                            IF type = "file.saved" THEN {} ELSE Members, Members))
        BY <3>2 DEF ChangeWorkspace
      <4>2. (IF type = "file.saved" THEN {} ELSE Members) \in SUBSET Users
              /\ Members \in SUBSET Users
        BY <1>0
      <4>3. QED
        BY <3>1, <4>1, <4>2
    <3>3. CASE FinishDelete(client)
      <4>1. members \in SUBSET Users /\ Members \in SUBSET Users
        BY <1>0
      <4>2. QED
        BY <3>1, <3>3, <4>1 DEF FinishDelete, brokerVars
    <3>4. CASE BeginDelete
      BY <3>4 DEF BeginDelete
    <3>5. ASSUME NEW u \in Users \ {Owner},
                 AddCollaborator(u, client) \/ RedeemShare(u, client)
                   \/ RevokeCollaborator(u, client)
          PROVE  \E type \in EventTypes, rs \in SUBSET Users :
                   Publish(Event(type, client, u, {u}, rs))
      <4>1. Members \in SUBSET Users /\ Members \cup {u} \in SUBSET Users
        BY <1>0
      <4>2. QED
        BY <3>1, <3>5, <4>1 DEF AddCollaborator, RedeemShare, Join, RevokeCollaborator
    <3>6. QED
      BY <1>2, <3>2, <3>3, <3>4, <3>5
  <2>3. QED
    BY <1>0, <2>1, <2>2, EventTyped, SignedOutPublish, SignedOutFrame DEF brokerVars, connVars
<1>3. ASSUME NEW u \in Users, Logout(u)
      PROVE  SignedOutInv(d)'
  BY <1>0, <1>3, SignedOutLogout
<1>4. ASSUME NEW c \in Connections,
             \/ \E k \in {"workspace", "user"}, u \in Users : Connect(c, k, u)
             \/ ExpireToken(c) \/ ClientGone(c) \/ Handler(c)
      PROVE  SignedOutInv(d)'
  <2>1. CASE d = c
    BY <1>0, <1>4, <2>1, SignedOutStep
  <2>2. CASE d # c /\ Finish(c)
    BY <1>0, <2>2, SignedOutFinish
  <2>3. CASE d # c /\ ~Finish(c)
    BY <1>0, <1>4, <2>3, OthersUnchanged, SignedOutFrame
  <2>4. QED
    BY <2>1, <2>2, <2>3
<1>5. QED
  BY <1>0, <1>1, <1>2, <1>3, <1>4, NextSteps

LEMMA StepInv ==
  ASSUME BaseInv, [Next]_vars
  PROVE  BaseInv'
<1>1. TypeOK' /\ RegistriesAreExact'
  BY TypeStep, RegistryStep DEF BaseInv
<1>2. \A c \in Connections : SignedOutInv(c)'
  BY SignedOutNext
<1>3. QED
  BY <1>1, <1>2 DEF BaseInv

-----------------------------------------------------------------------------
(* Theorems *)

\* Types, registries and sessions hold for any number of users and
\* connections.
THEOREM BaseInvariance == Spec => []BaseInv
<1>1. Init => BaseInv
  BY InitInv
<1>2. BaseInv /\ [Next]_vars => BaseInv'
  BY StepInv
<1>3. QED
  BY <1>1, <1>2, PTL DEF Spec

\* The variables of the broker and the gateway keep their types; no queue
\* grows beyond its bound.
THEOREM TypeCorrect == Spec => []TypeOK
<1>1. BaseInv => TypeOK
  BY DEF BaseInv
<1>2. QED
  BY <1>1, BaseInvariance, PTL

\* collab.py:131-145, 201: a queue is registered exactly while its handler
\* will still unsubscribe it, in the registries of its own topic and user.
THEOREM RegistriesExact == Spec => []RegistriesAreExact
<1>1. BaseInv => RegistriesAreExact
  BY DEF BaseInv
<1>2. QED
  BY <1>1, BaseInvariance, PTL

\* events_service.py:34, auth_service.py:94-99: no socket carries anything
\* that was published after the logout of the session it was opened with.
THEOREM LogoutSilences == Spec => []NothingAfterLogout
<1>1. BaseInv => NothingAfterLogout
  BY DEF BaseInv, SignedOutInv, NothingAfterLogout
<1>2. QED
  BY <1>1, BaseInvariance, PTL

-----------------------------------------------------------------------------
(***************************************************************************)
(* What the sockets carry: the events that were published for them, all of *)
(* them, in their order, and none from after the loss of access.           *)
(***************************************************************************)

\* Nothing unreadable was received.
Readable(c) == kind[c] = "workspace" => \A n \in Received(c) : user[c] \in log[n].readers

StreamInv(c) ==
  /\ Gapless(c)
  /\ pc[c] \in Serving => SignalAhead(c) \/ Backlogged(c)
  /\ PositionInv(c)
  /\ Readable(c)
  /\ RevocationInv(c)

-----------------------------------------------------------------------------
(* Facts *)

LEMMA StreamFacts ==
  ASSUME TypeOK, NEW c \in Connections
  PROVE  /\ since[c] \in Nat /\ taken[c] \in Nat /\ item[c] \in Nat /\ Len(log) \in Nat
         /\ kind[c] \in {"workspace", "user"} /\ user[c] \in Users
         /\ Received(c) \subseteq 1..MaxEvents
         /\ \A i \in 1..Len(sent[c]) : sent[c][i] \in Received(c)
         /\ item[c] # 0 <=> pc[c] = "sending"
         /\ Len(sent[c]) \in Nat /\ Len(queue[c]) \in Nat
<1>1. since[c] \in Nat /\ taken[c] \in Nat /\ kind[c] \in {"workspace", "user"} /\ user[c] \in Users
  BY MaxEventsAssumption DEF TypeOK, ConnTypeOK
<1>2. QED
  BY <1>1, ConnFacts DEF Received

LEMMA PhaseFacts ==
  /\ \A p \in Serving : p \in Subscribed /\ p \notin {"new", "authenticating", "closing"}
  /\ \A p \in Subscribed : p \notin Serving => p = "closing"
  /\ "closing" \in Subscribed /\ "closing" \notin Serving
  /\ \A p \in {"new", "authenticating"} : p \notin Subscribed /\ p \notin Serving
  /\ {"accepting", "top", "waiting", "sending"} \subseteq Serving
  /\ \A p \in Phases : p \in Subscribed \/ p \in {"new", "authenticating"}
BY DEF Serving, Subscribed, Phases

\* A connection without a stream.
LEMMA IdleStream ==
  ASSUME NEW d \in Connections, pc'[d] \notin Subscribed, sent'[d] = <<>>, item'[d] = 0
  PROVE  StreamInv(d)'
<1>1. Len(sent'[d]) = 0 /\ pc'[d] \notin Serving
  BY DEF Subscribed
<1>2. Received(d)' = {}
  BY <1>1 DEF Received
<1>3. QED
  BY <1>1, <1>2
  DEF StreamInv, Gapless, PositionInv, Readable, RevocationInv

\* A connection that has none and is not moved.
LEMMA StaysIdle ==
  ASSUME TypeOK, NEW d \in Connections, SignedOutInv(d), pc[d] \notin Subscribed,
         pc'[d] = pc[d], sent'[d] = sent[d], item'[d] = item[d]
  PROVE  StreamInv(d)'
<1>1. sent[d] = <<>> /\ item[d] = 0
  BY PhaseFacts, ConnFacts DEF SignedOutInv
<1>2. QED
  BY <1>1, IdleStream

\* A step that leaves the stream alone, and the viewer with his access.
LEMMA StreamFrame ==
  ASSUME NEW d \in Connections, StreamInv(d),
         pc'[d] \in Serving <=> pc[d] \in Serving,
         pc'[d] \in Subscribed <=> pc[d] \in Subscribed,
         queue'[d] = queue[d], log' = log, item'[d] = item[d], sent'[d] = sent[d],
         since'[d] = since[d], taken'[d] = taken[d], kind'[d] = kind[d], user'[d] = user[d],
         user[d] \in Members => user[d] \in Members'
  PROVE  StreamInv(d)'
<1>1. Received(d)' = Received(d)
  BY DEF Received
<1>2. /\ \A n : Wanted(n, d)' <=> Wanted(n, d)
      /\ \A n : Final(n, d)' <=> Final(n, d)
      /\ \A e : Addressed(e, d)' <=> Addressed(e, d)
  BY DEF Wanted, Final, Addressed, Targeted, OwnChange, Ends
<1>3. Gapless(d)' /\ PositionInv(d)' /\ Readable(d)'
  BY <1>1, <1>2 DEF StreamInv, Gapless, PositionInv, Readable
<1>4. pc'[d] \in Serving => SignalAhead(d)' \/ Backlogged(d)'
  BY <1>2 DEF StreamInv, SignalAhead, Backlogged
<1>5. RevocationInv(d)'
  BY <1>2 DEF StreamInv, RevocationInv, HasAccess
<1>6. QED
  BY <1>3, <1>4, <1>5 DEF StreamInv

\* A stream that ends keeps what it has delivered.
LEMMA StreamEnds ==
  ASSUME NEW d \in Connections, StreamInv(d),
         pc[d] \in Subscribed, pc'[d] = "closing", item'[d] = 0,
         log' = log, sent'[d] = sent[d],
         since'[d] = since[d], taken'[d] = taken[d], kind'[d] = kind[d], user'[d] = user[d]
  PROVE  StreamInv(d)'
<1>1. Received(d)' = Received(d)
  BY DEF Received
<1>2. \A n : Wanted(n, d)' <=> Wanted(n, d)
  BY DEF Wanted, Addressed, Targeted, OwnChange
<1>3. Gapless(d)' /\ PositionInv(d)' /\ Readable(d)'
  BY <1>1, <1>2, PhaseFacts DEF StreamInv, Gapless, PositionInv, Readable
<1>4. QED
  BY <1>3, PhaseFacts DEF StreamInv, RevocationInv

-----------------------------------------------------------------------------
(* Publishing *)

\* Who is told of an event (events_service.py:84-93).
LEMMA SubscribersFacts ==
  ASSUME TypeOK, RegistriesAreExact, NEW d \in Connections, pc[d] \in Subscribed,
         NEW e \in Events
  PROVE  d \in Subscribers(e) <=> Addressed(e, d)
<1>1. /\ e.workspace = Workspace /\ e.users \subseteq Users
      /\ kind[d] \in {"workspace", "user"} /\ user[d] \in Users
  BY StreamFacts DEF Events
<1>2. <<"workspace", Workspace>> \in Topics /\ \A u \in Users : <<"user", u>> \in Topics
  BY WorkspaceAssumption DEF Topics
<1>3. \A t \in Topics : d \in streams[t] <=> Topic(d) = t
  BY DEF RegistriesAreExact
<1>4. d \in Subscribers(e) <=>
        Topic(d) = <<"workspace", Workspace>> \/ \E u \in e.users : Topic(d) = <<"user", u>>
  BY <1>1, <1>2, <1>3 DEF Subscribers
<1>5. CASE kind[d] = "workspace"
  BY <1>4, <1>5 DEF Topic, Addressed
<1>6. CASE kind[d] = "user"
  <2>1. Topic(d) = <<"user", user[d]>> /\ Topic(d) # <<"workspace", Workspace>>
    BY <1>6 DEF Topic
  <2>2. \A u : Topic(d) = <<"user", u>> <=> u = user[d]
    BY <2>1
  <2>3. QED
    BY <1>4, <1>6, <2>1, <2>2 DEF Addressed
<1>7. QED
  BY <1>1, <1>5, <1>6

\* The history grows at its end.
LEMMA HistoryGrows ==
  ASSUME TypeOK, NEW d \in Connections, NEW e \in Events, log' = Append(log, e),
         UNCHANGED connVars
  PROVE  /\ Len(log') = Len(log) + 1 /\ log'[Len(log) + 1] = e
         /\ \A n \in 1..Len(log) :
              /\ log'[n] = log[n]
              /\ Wanted(n, d)' <=> Wanted(n, d)
              /\ Final(n, d)' <=> Final(n, d)
<1>1. log \in Seq(Events)
  BY DEF TypeOK, BrokerTypeOK
<1>2. /\ Len(log') = Len(log) + 1 /\ log'[Len(log) + 1] = e
      /\ \A n \in 1..Len(log) : log'[n] = log[n]
  BY <1>1, AppendProperties
<1>3. UNCHANGED <<kind, user>>
  BY DEF connVars
<1>4. QED
  BY <1>2, <1>3 DEF Wanted, Final, Addressed, Targeted, OwnChange, Ends

\* Numbers that are ahead of what was taken.
LEMMA Ahead ==
  ASSUME NEW a \in Nat, NEW b \in Nat, NEW x \in a + 1..b
  PROVE  x \in 1..b /\ x \in a + 1..b + 1 /\ x < b + 1
OBVIOUS

\* What publish does to the queue of a subscriber that no signal awaits.
LEMMA BacklogGrows ==
  ASSUME TypeOK, RegistriesAreExact, NEW d \in Connections, StreamInv(d), pc[d] \in Serving,
         NEW e \in Events, log' = Append(log, e), UNCHANGED connVars,
         queue'[d] = IF d \in Subscribers(e) THEN Put(queue[d], EventItem(Len(log) + 1))
                     ELSE queue[d],
         Backlogged(d), Len(log) < MaxEvents
  PROVE  SignalAhead(d)' \/ Backlogged(d)'
<1> DEFINE q == queue[d]
           k == Len(log) + 1
           NewAddressed(n) == Addressed(log'[n], d)
<1>1. /\ Len(log') = k /\ log'[k] = e /\ Len(log) \in Nat /\ k \in 1..MaxEvents
      /\ \A n \in 1..Len(log) : NewAddressed(n) <=> Addressed(log[n], d)
      /\ taken'[d] = taken[d] /\ taken[d] \in Nat /\ taken[d] <= Len(log)
      /\ NewAddressed(k) <=> Addressed(e, d)
  <2>1. UNCHANGED <<kind, user, taken>>
    BY DEF connVars
  <2>2. taken[d] <= Len(log)
    BY PhaseFacts DEF StreamInv, PositionInv
  <2>4. /\ Len(log') = k /\ log'[k] = e
        /\ \A n \in 1..Len(log) : log'[n] = log[n]
    BY HistoryGrows
  <2>5. Len(log) \in Nat /\ taken[d] \in Nat /\ k \in 1..MaxEvents
    BY StreamFacts, MaxEventsAssumption
  <2>6. QED
    BY <2>1, <2>2, <2>4, <2>5
<1> HIDE DEF NewAddressed
<1>2. d \in Subscribers(e) <=> Addressed(e, d)
  BY SubscribersFacts, PhaseFacts
<1>3. q \in Seq(Items) /\ Len(q) \in Nat
  BY ConnFacts
<1>4. /\ \A i \in 1..Len(q) :
           q[i].kind = "event" /\ q[i].seq \in taken[d] + 1..Len(log) /\ Addressed(log[q[i].seq], d)
      /\ \A i, j \in 1..Len(q) : i < j => q[i].seq < q[j].seq
      /\ \A n \in taken[d] + 1..Len(log) :
           Addressed(log[n], d) => \E i \in 1..Len(q) : q[i].seq = n
  BY DEF Backlogged
<1>5. CASE ~Addressed(e, d)
  <2>1. queue'[d] = q
    BY <1>2, <1>5
  <2>2. \A i \in 1..Len(q) :
          /\ q[i].kind = "event" /\ q[i].seq \in taken[d] + 1..k
          /\ NewAddressed(q[i].seq)
    <3> SUFFICES ASSUME NEW i \in 1..Len(q)
                 PROVE  q[i].kind = "event" /\ q[i].seq \in taken[d] + 1..k /\ NewAddressed(q[i].seq)
      OBVIOUS
    <3>1. q[i].seq \in taken[d] + 1..Len(log) /\ q[i].seq \in 1..Len(log)
      <4>1. q[i].seq \in taken[d] + 1..Len(log)
        BY <1>4
      <4>2. taken[d] \in Nat /\ Len(log) \in Nat
        BY <1>1
      <4>3. QED
        BY <4>1, <4>2, Ahead
    <3>2. q[i].kind = "event" /\ NewAddressed(q[i].seq)
      BY <1>1, <1>4, <3>1
    <3>3. q[i].seq \in taken[d] + 1..k
      BY <1>1, <3>1
    <3>4. QED
      BY <3>2, <3>3
  <2>3. \A n \in taken[d] + 1..k :
          NewAddressed(n) => \E i \in 1..Len(q) : q[i].seq = n
    <3> SUFFICES ASSUME NEW n \in taken[d] + 1..k, NewAddressed(n)
                 PROVE  \E i \in 1..Len(q) : q[i].seq = n
      OBVIOUS
    <3>1. n # k
      BY <1>1, <1>5
    <3>2. n \in taken[d] + 1..Len(log)
      BY <1>1, <3>1
    <3>3. QED
      BY <1>1, <1>4, <3>2
  <2>4. QED
    BY <1>1, <1>4, <2>1, <2>2, <2>3 DEF Backlogged, NewAddressed, Addressed, connVars
<1>6. CASE Addressed(e, d) /\ Len(q) < QueueMax
  <2>1. queue'[d] = Append(q, EventItem(k)) /\ EventItem(k) \in Items
    BY <1>1, <1>2, <1>6, ItemFacts DEF Put
  <2> DEFINE x == EventItem(k)
             r == Append(q, x)
  <2> HIDE DEF x, q
  <2>2. /\ Len(r) = Len(q) + 1 /\ r[Len(q) + 1] = x
        /\ \A i \in 1..Len(q) : r[i] = q[i]
    BY <1>3, <2>1, AppendProperties DEF x
  <2>3. x.seq = k /\ x.kind = "event"
    BY DEF EventItem, x
  <2> HIDE DEF r
  <2>4. \A i \in 1..Len(r) :
          /\ r[i].kind = "event" /\ r[i].seq \in taken[d] + 1..k
          /\ NewAddressed(r[i].seq)
    <3> SUFFICES ASSUME NEW i \in 1..Len(r)
                 PROVE  /\ r[i].kind = "event" /\ r[i].seq \in taken[d] + 1..k
                        /\ NewAddressed(r[i].seq)
      OBVIOUS
    <3>1. CASE i = Len(q) + 1
      <4>1. r[i].seq = k /\ r[i].kind = "event"
        BY <2>2, <2>3, <3>1
      <4>2. k \in taken[d] + 1..k /\ NewAddressed(k)
        BY <1>1, <1>6
      <4>3. QED
        BY <4>1, <4>2
    <3>2. CASE i \in 1..Len(q)
      <4>1. /\ r[i] = q[i] /\ q[i].kind = "event" /\ Addressed(log[q[i].seq], d)
            /\ q[i].seq \in taken[d] + 1..Len(log)
        BY <1>4, <2>2, <3>2
      <4>2. taken[d] \in Nat /\ Len(log) \in Nat
        BY <1>1
      <4>3. q[i].seq \in 1..Len(log) /\ q[i].seq \in taken[d] + 1..k
        BY <4>1, <4>2, Ahead
      <4>4. NewAddressed(q[i].seq)
        BY <1>1, <4>1, <4>3
      <4>5. QED
        BY <4>1, <4>3, <4>4
    <3>3. QED
      BY <1>3, <2>2, <3>1, <3>2
  <2>5. \A i, j \in 1..Len(r) : i < j => r[i].seq < r[j].seq
    <3> SUFFICES ASSUME NEW i \in 1..Len(r), NEW j \in 1..Len(r), i < j
                 PROVE  r[i].seq < r[j].seq
      OBVIOUS
    <3>1. i \in 1..Len(q)
      BY <1>3, <2>2
    <3>2. q[i].seq \in taken[d] + 1..Len(log) /\ r[i] = q[i]
      BY <1>4, <2>2, <3>1
    <3>3. CASE j = Len(q) + 1
      BY <1>1, <2>2, <2>3, <3>2, <3>3
    <3>4. CASE j \in 1..Len(q)
      BY <1>4, <2>2, <3>1, <3>4
    <3>5. QED
      BY <1>3, <2>2, <3>3, <3>4
  <2>6. \A n \in taken[d] + 1..k :
          NewAddressed(n) => \E i \in 1..Len(r) : r[i].seq = n
    <3> SUFFICES ASSUME NEW n \in taken[d] + 1..k, NewAddressed(n)
                 PROVE  \E i \in 1..Len(r) : r[i].seq = n
      OBVIOUS
    <3>1. CASE n = k
      <4>1. Len(q) + 1 \in 1..Len(r) /\ r[Len(q) + 1].seq = n
        BY <1>3, <2>2, <2>3, <3>1
      <4>2. QED
        BY <4>1
    <3>2. CASE n # k
      <4>1. n \in taken[d] + 1..Len(log) /\ n \in 1..Len(log)
        BY <1>1, <3>2
      <4>2. PICK i \in 1..Len(q) : q[i].seq = n
        BY <1>1, <1>4, <4>1
      <4>3. i \in 1..Len(r) /\ r[i].seq = n
        BY <1>3, <2>2, <4>2
      <4>4. QED
        BY <4>3
    <3>3. QED
      BY <3>1, <3>2
  <2>7. queue'[d] = r
    BY <2>1 DEF r, x, q
  <2>8. taken'[d] = taken[d] /\ Len(log') = k
    BY <1>1
  <2>9. /\ \A i \in 1..Len(queue'[d]) :
             /\ queue'[d][i].kind = "event"
             /\ queue'[d][i].seq \in taken'[d] + 1..Len(log')
             /\ NewAddressed(queue'[d][i].seq)
        /\ \A i, j \in 1..Len(queue'[d]) : i < j => queue'[d][i].seq < queue'[d][j].seq
        /\ \A n \in taken'[d] + 1..Len(log') :
             NewAddressed(n) => \E i \in 1..Len(queue'[d]) : queue'[d][i].seq = n
    BY <2>4, <2>5, <2>6, <2>7, <2>8
  <2>10. QED
    BY <2>9 DEF Backlogged, NewAddressed, Addressed, connVars
<1>7. CASE Addressed(e, d) /\ ~(Len(q) < QueueMax)
  <2>1. queue'[d] = Signalled(FORCE_RESYNC)
    BY <1>2, <1>7 DEF Put
  <2>2. FORCE_RESYNC \in Items /\ FORCE_RESYNC.kind = "close"
    BY ItemFacts
  <2>3. Signalled(FORCE_RESYNC) # <<>> /\ Signalled(FORCE_RESYNC)[1] = FORCE_RESYNC
    BY <2>2, SignalledFacts
  <2>4. queue'[d] # <<>> /\ queue'[d][1] = FORCE_RESYNC
    BY <2>1, <2>3
  <2>5. SignalAhead(d)'
    BY <2>2, <2>4 DEF SignalAhead
  <2>6. QED
    BY <2>5
<1>8. QED
  BY <1>5, <1>6, <1>7

\* Publishing: readers are at least the members, and who loses access is told
\* by the event itself.
LEMMA StreamPublish ==
  ASSUME TypeOK, RegistriesAreExact, NEW d \in Connections, StreamInv(d), SignedOutInv(d),
         NEW e \in Events, Publish(e), UNCHANGED connVars,
         Members \subseteq e.readers,
         \/ user[d] \in Members => user[d] \in Members'
         \/ e.type \in Closing /\ e.target \in {NoUser, user[d]}
  PROVE  StreamInv(d)'
<1>1. CASE pc[d] \notin Subscribed
  BY <1>1, StaysIdle DEF connVars
<1>2. CASE pc[d] \in Subscribed
  <2>0. /\ UNCHANGED <<pc, kind, user, item, since, taken, sent>>
        /\ Topic(d) \in Topics
    BY TopicFacts DEF connVars, TypeOK
  <2>1. d \in streams[Topic(d)]
    BY <1>2, <2>0 DEF RegistriesAreExact
  <2>2. /\ Len(log) < MaxEvents /\ log' = Append(log, e)
        /\ queue'[d] = IF d \in Subscribers(e) THEN Put(queue[d], EventItem(Len(log) + 1))
                       ELSE queue[d]
    BY <2>0, <2>1 DEF Publish, Connections
  <2>3. /\ Len(log') = Len(log) + 1 /\ log'[Len(log) + 1] = e /\ Len(log) \in Nat
        /\ \A n \in 1..Len(log) :
             log'[n] = log[n] /\ (Wanted(n, d)' <=> Wanted(n, d)) /\ (Final(n, d)' <=> Final(n, d))
    BY <2>2, HistoryGrows, StreamFacts
  <2>4. /\ Received(d)' = Received(d)
        /\ Received(d) \subseteq 1..Len(log)
        /\ since[d] \in Nat /\ taken[d] \in Nat /\ item[d] \in Nat
        /\ since[d] <= taken[d] /\ taken[d] <= Len(log)
    <3>1. /\ since[d] <= taken[d] /\ taken[d] <= Len(log)
          /\ \A n \in Received(d) : n <= taken[d]
      BY <1>2 DEF StreamInv, PositionInv
    <3>2. /\ since[d] \in Nat /\ taken[d] \in Nat /\ item[d] \in Nat
          /\ Received(d) \subseteq 1..MaxEvents
      BY StreamFacts
    <3>3. Received(d) \subseteq 1..Len(log)
      BY <2>3, <3>1, <3>2, MaxEventsAssumption
    <3>4. Received(d)' = Received(d)
      BY <2>0 DEF Received
    <3>5. QED
      BY <3>1, <3>2, <3>3, <3>4
  <2>5. Gapless(d)'
    <3>1. Gapless(d)
      BY DEF StreamInv
    <3>2. \A n \in Received(d) : n > since[d] /\ Wanted(n, d)'
      BY <2>3, <2>4, <3>1 DEF Gapless
    <3>3. \A m \in Received(d) : \A n \in since[d] + 1..m : n \in 1..Len(log)
      BY <2>3, <2>4
    <3>4. \A m \in Received(d) : \A n \in since[d] + 1..m : Wanted(n, d)' => n \in Received(d)
      BY <2>3, <3>1, <3>3 DEF Gapless
    <3>5. \A n \in since[d] + 1..taken[d] : n \in 1..Len(log)
      BY <2>3, <2>4
    <3>6. pc[d] \in Serving =>
            \A n \in since[d] + 1..taken[d] : Wanted(n, d)' => n \in Received(d) \/ n = item[d]
      BY <2>3, <3>1, <3>5 DEF Gapless
    <3>7. \A i, j \in 1..Len(sent[d]) : i < j => sent[d][i] < sent[d][j]
      BY <3>1 DEF Gapless
    <3>8. QED
      BY <2>0, <2>4, <3>2, <3>4, <3>6, <3>7 DEF Gapless
  <2>6. pc'[d] \in Serving => SignalAhead(d)' \/ Backlogged(d)'
    <3> SUFFICES ASSUME pc[d] \in Serving
                 PROVE  SignalAhead(d)' \/ Backlogged(d)'
      BY <2>0
    <3>1. CASE Backlogged(d)
      BY <2>2, <3>1, BacklogGrows
    <3>2. CASE SignalAhead(d)
      <4>1. /\ queue[d] \in Seq(Items) /\ Len(queue[d]) <= QueueMax
            /\ queue[d] # <<>> /\ queue[d][1].kind = "close"
            /\ Len(log) + 1 \in 1..MaxEvents
        BY <2>2, <2>3, <3>2, MaxEventsAssumption DEF SignalAhead, TypeOK, BrokerTypeOK
      <4>2. queue'[d] # <<>> /\ (queue'[d][1] = queue[d][1] \/ queue'[d][1].kind = "close")
        BY <2>2, <4>1, PutFacts
      <4>3. QED
        BY <4>1, <4>2 DEF SignalAhead
    <3>3. QED
      BY <3>1, <3>2 DEF StreamInv
  <2>7. PositionInv(d)'
    <3>1. item[d] # 0 => item[d] \in 1..Len(log)
      BY <2>3, <2>4 DEF StreamInv, PositionInv
    <3>2. item[d] # 0 => Wanted(item[d], d)'
      <4>1. item[d] # 0 => Wanted(item[d], d)
        BY DEF StreamInv, PositionInv
      <4>2. item[d] # 0 => (Wanted(item[d], d)' <=> Wanted(item[d], d))
        BY <2>0, <2>3, <3>1 DEF Wanted, Addressed, Targeted, OwnChange
      <4>3. QED
        BY <4>1, <4>2
    <3>3. item'[d] # 0 => Wanted(item[d], d)'
      BY <2>0, <3>2
    <3>4. QED
      BY <1>2, <2>0, <2>3, <2>4, <3>3 DEF StreamInv, PositionInv
  <2>8. Readable(d)'
    BY <2>0, <2>3, <2>4 DEF StreamInv, Readable
  <2>9. RevocationInv(d)'
    <3> SUFFICES ASSUME pc[d] \in Serving, kind[d] = "workspace"
                 PROVE  RevocationInv(d)'
      BY <2>0 DEF RevocationInv
    <3>0. RevocationInv(d)
      BY DEF StreamInv
    <3>1. user[d] \notin Members => \E m \in since[d] + 1..Len(log) : Final(m, d)
      BY <3>0 DEF RevocationInv, HasAccess
    <3>2. \A m \in since[d] + 1..Len(log) : Final(m, d)' <=> Final(m, d)
      BY <2>3, <2>4
    <3>3. user[d] \notin Members' => \E m \in since[d] + 1..Len(log) + 1 : Final(m, d)'
      <4>1. CASE user[d] \notin Members
        <5>1. PICK m \in since[d] + 1..Len(log) : Final(m, d)'
          BY <3>1, <3>2, <4>1
        <5>2. m \in since[d] + 1..Len(log) + 1
          BY <2>3, <2>4
        <5>3. QED
          BY <5>1, <5>2
      <4>2. CASE e.type \in Closing /\ e.target \in {NoUser, user[d]}
        <5>1. PICK k \in Nat : k = Len(log) + 1
          BY <2>3
        <5>2. Final(k, d)'
          BY <2>0, <2>3, <4>2, <5>1 DEF Final, Targeted, Ends
        <5>3. k \in since[d] + 1..Len(log) + 1
          BY <2>3, <2>4, <5>1
        <5>4. QED
          BY <5>2, <5>3
      <4>3. QED
        BY <4>1, <4>2, <2>0
    <3>4. ASSUME NEW n \in since[d] + 1..Len(log) + 1, user[d] \notin log'[n].readers
          PROVE  \E m \in since[d] + 1..n : m < n /\ Final(m, d)'
      <4>1. CASE n = Len(log) + 1
        <5>1. user[d] \notin Members
          BY <2>3, <3>4, <4>1
        <5>2. PICK m \in since[d] + 1..Len(log) : Final(m, d)'
          BY <3>1, <3>2, <5>1
        <5>3. m \in since[d] + 1..n /\ m < n
          BY <2>3, <2>4, <4>1
        <5>4. QED
          BY <5>2, <5>3
      <4>2. CASE n # Len(log) + 1
        <5>1. n \in since[d] + 1..Len(log) /\ n \in 1..Len(log) /\ n \in Nat
          BY <2>3, <2>4, <4>2
        <5>2. user[d] \notin log[n].readers
          BY <2>3, <3>4, <5>1
        <5>3. PICK m \in since[d] + 1..n : m < n /\ Final(m, d)
          BY <3>0, <5>1, <5>2 DEF RevocationInv
        <5>4. m \in since[d] + 1..Len(log)
          BY <2>3, <2>4, <5>1
        <5>5. QED
          BY <3>2, <5>3, <5>4
      <4>3. QED
        BY <4>1, <4>2
    <3>5. \A m \in since[d] + 1..taken[d] : Final(m, d)' => item[d] = m
      <4>1. \A m \in since[d] + 1..taken[d] : m \in since[d] + 1..Len(log)
        BY <2>3, <2>4
      <4>2. QED
        BY <3>0, <3>2, <4>1 DEF RevocationInv
    <3>6. QED
      BY <2>0, <2>3, <3>3, <3>4, <3>5 DEF RevocationInv, HasAccess
  <2>10. QED
    BY <2>5, <2>6, <2>7, <2>8, <2>9 DEF StreamInv
<1>3. QED
  BY <1>1, <1>2

\* A logout replaces a backlog by the signal.
LEMMA StreamLogout ==
  ASSUME TypeOK, NEW d \in Connections, StreamInv(d), NEW u \in Users, Logout(u)
  PROVE  StreamInv(d)'
<1>1. /\ queue'[d] = IF d \in byUser[u] THEN Signalled(LOGGED_OUT) ELSE queue[d]
      /\ UNCHANGED <<log, pc, kind, user, item, since, taken, sent, exists, accepted>>
  BY DEF Logout, CloseUserConnections, Connections, accessVars
<1>2. /\ Signalled(LOGGED_OUT)[1] = LOGGED_OUT /\ Signalled(LOGGED_OUT) # <<>>
      /\ LOGGED_OUT.kind = "close"
  BY ItemFacts, SignalledFacts
<1>3. Members' = Members
  BY <1>1 DEF Members
<1>4. CASE d \notin byUser[u]
  BY <1>1, <1>3, <1>4, StreamFrame
<1>5. CASE d \in byUser[u]
  <2>1. Received(d)' = Received(d)
    BY <1>1 DEF Received
  <2>2. /\ \A n : Wanted(n, d)' <=> Wanted(n, d)
        /\ \A n : Final(n, d)' <=> Final(n, d)
    BY <1>1 DEF Wanted, Final, Addressed, Targeted, OwnChange, Ends
  <2>3. Gapless(d)' /\ PositionInv(d)' /\ Readable(d)'
    BY <1>1, <2>1, <2>2 DEF StreamInv, Gapless, PositionInv, Readable
  <2>4. SignalAhead(d)'
    BY <1>1, <1>2, <1>5 DEF SignalAhead
  <2>5. RevocationInv(d)'
    BY <1>1, <1>3, <2>2 DEF StreamInv, RevocationInv, HasAccess
  <2>6. QED
    BY <2>3, <2>4, <2>5 DEF StreamInv
<1>6. QED
  BY <1>4, <1>5

-----------------------------------------------------------------------------
(* The steps of a connection *)

\* A new stream starts at the end of the history, with access.
LEMMA StreamSubscribe ==
  ASSUME TypeOK, NEW c \in Connections, NEW k, NEW u, SubscribeAndCheck(c, k, u),
         sent'[c] = <<>>, item'[c] = 0, kind'[c] = k, user'[c] = u, UNCHANGED accessVars
  PROVE  StreamInv(c)'
<1>1. /\ pc'[c] = "accepting" /\ queue'[c] = <<>> /\ log' = log
      /\ since'[c] = Len(log) /\ taken'[c] = Len(log) /\ Len(log) \in Nat
      /\ Len(<<>>) = 0
      /\ k = "workspace" => u \in Members
  BY StreamFacts DEF TypeOK, BrokerTypeOK, ConnTypeOK, SubscribeAndCheck, Subscribe, HasAccess
<1>2. Received(c)' = {}
  BY <1>1 DEF Received
<1>3. Members' = Members
  BY DEF accessVars, Members
<1>4. Gapless(c)' /\ PositionInv(c)' /\ Readable(c)'
  BY <1>1, <1>2 DEF Gapless, PositionInv, Readable
<1>5. Backlogged(c)'
  BY <1>1 DEF Backlogged
<1>6. RevocationInv(c)'
  BY <1>1, <1>3 DEF RevocationInv, HasAccess
<1>7. QED
  BY <1>4, <1>5, <1>6 DEF StreamInv

\* The writer takes an event from the head of its backlog.
LEMMA StreamTakeEvent ==
  ASSUME TypeOK, NEW c \in Connections, StreamInv(c), TakeEvent(c)
  PROVE  StreamInv(c)'
<1> DEFINE q == queue[c]
<1>1. /\ pc[c] \in {"top", "waiting"} /\ pc[c] \in Serving /\ pc[c] \in Subscribed
      /\ q # <<>> /\ Head(q).kind = "event"
      /\ item[c] = 0
  BY PhaseFacts, StreamFacts DEF TakeEvent, HasItem
<1>2. /\ q \in Seq(Items) /\ Len(q) \in Nat \ {0}
      /\ Head(q) = q[1] /\ Len(Tail(q)) = Len(q) - 1
      /\ \A i \in 1..Len(Tail(q)) : Tail(q)[i] = q[i + 1]
  BY <1>1, ConnFacts, TailFacts, EmptySeq
<1>3. Backlogged(c)
  BY <1>1, <1>2 DEF StreamInv, SignalAhead
<1>4. PICK n \in Nat : n = q[1].seq /\ n \in taken[c] + 1..Len(log) /\ Addressed(log[n], c)
  <2>1. q[1].seq \in taken[c] + 1..Len(log) /\ Addressed(log[q[1].seq], c)
    BY <1>2, <1>3 DEF Backlogged
  <2>2. q[1].seq \in Nat
    BY <2>1, StreamFacts
  <2>3. QED
    BY <2>1, <2>2
<1>5. /\ taken'[c] = n /\ queue'[c] = Tail(q)
      /\ log' = log /\ sent' = sent /\ since' = since /\ kind' = kind /\ user' = user
      /\ exists' = exists /\ accepted' = accepted
      /\ \/ pc'[c] = "sending" /\ item'[c] = n /\ Targeted(log[n], c) /\ ~OwnChange(log[n], c)
         \/ pc'[c] = "closing" /\ item'[c] = 0
         \/ pc'[c] = "top" /\ item'[c] = 0 /\ ~Wanted(n, c) /\ ~Final(n, c)
  BY <1>1, <1>2, <1>4
  DEF TakeEvent, Get, Close, Wanted, Final, accessVars, TypeOK, ConnTypeOK, BrokerTypeOK
<1>6. /\ since[c] \in Nat /\ taken[c] \in Nat /\ Len(log) \in Nat
      /\ since[c] <= taken[c] /\ taken[c] <= Len(log)
      /\ Received(c) \subseteq Nat /\ \A m \in Received(c) : m <= taken[c]
  BY <1>1, StreamFacts DEF StreamInv, PositionInv
<1>7. \A m \in taken[c] + 1..n - 1 : ~Addressed(log[m], c)
  <2> SUFFICES ASSUME NEW m \in taken[c] + 1..n - 1, Addressed(log[m], c)
               PROVE  FALSE
    OBVIOUS
  <2>0. m \in taken[c] + 1..Len(log)
    BY <1>4, <1>6
  <2>1. PICK i \in 1..Len(q) : q[i].seq = m
    BY <1>3, <2>0 DEF Backlogged
  <2>2. i # 1 /\ 1 \in 1..Len(q)
    BY <1>2, <1>4, <1>6, <2>1
  <2>3. q[1].seq < q[i].seq
    BY <1>2, <1>3, <2>2 DEF Backlogged
  <2>4. QED
    BY <1>4, <1>6, <2>1, <2>3
<1>8. \A m \in since[c] + 1..n : Wanted(m, c) => m \in Received(c) \/ m = n
  <2> SUFFICES ASSUME NEW m \in since[c] + 1..n, Wanted(m, c), m # n
               PROVE  m \in Received(c)
    OBVIOUS
  <2>1. CASE m <= taken[c]
    <3>1. m \in since[c] + 1..taken[c] /\ m # 0
      BY <1>6, <2>1
    <3>2. QED
      BY <1>1, <3>1 DEF StreamInv, Gapless
  <2>2. CASE ~(m <= taken[c])
    BY <1>4, <1>6, <1>7, <2>2 DEF Wanted
  <2>3. QED
    BY <2>1, <2>2
<1>9. /\ Received(c)' = Received(c)
      /\ \A m : Wanted(m, c)' <=> Wanted(m, c)
      /\ \A m : Final(m, c)' <=> Final(m, c)
      /\ Members' = Members
  BY <1>5 DEF Received, Wanted, Final, Addressed, Targeted, OwnChange, Ends, Members
<1>10. Gapless(c)'
  <2>1. pc'[c] \in Serving =>
          \A m \in since[c] + 1..n : Wanted(m, c) => m \in Received(c) \/ m = item'[c]
    BY <1>5, <1>8, PhaseFacts
  <2>2. QED
    BY <1>5, <1>9, <2>1 DEF StreamInv, Gapless
<1>11. PositionInv(c)'
  <2>1. since[c] <= n /\ n <= Len(log) /\ n > since[c] /\ \A m \in Received(c) : m < n
    BY <1>4, <1>6
  <2>2. item'[c] # 0 => item'[c] = n /\ Wanted(n, c)
    BY <1>4, <1>5 DEF Wanted
  <2>3. item'[c] # 0 => Wanted(item[c], c)'
    <3>1. item'[c] # 0 => Wanted(item'[c], c)
      BY <2>2
    <3>2. QED
      BY <1>5, <3>1 DEF Wanted, Addressed, Targeted, OwnChange
  <2>4. QED
    BY <1>4, <1>5, <1>6, <1>9, <2>1, <2>2, <2>3 DEF PositionInv
<1>12. Readable(c)'
  BY <1>5, <1>9 DEF StreamInv, Readable
<1>13. Backlogged(c)'
  <2> DEFINE r == Tail(q)
  <2>1. Len(r) = Len(q) - 1 /\ \A i \in 1..Len(r) : r[i] = q[i + 1] /\ i + 1 \in 1..Len(q)
    BY <1>2
  <2> HIDE DEF r, q
  <2>2. \A i \in 1..Len(r) :
          r[i].kind = "event" /\ r[i].seq \in n + 1..Len(log) /\ Addressed(log[r[i].seq], c)
    <3> SUFFICES ASSUME NEW i \in 1..Len(r)
                 PROVE  r[i].kind = "event" /\ r[i].seq \in n + 1..Len(log)
                          /\ Addressed(log[r[i].seq], c)
      OBVIOUS
    <3>1. /\ r[i] = q[i + 1] /\ i + 1 \in 1..Len(q) /\ 1 \in 1..Len(q) /\ 1 < i + 1
      BY <1>2, <2>1
    <3>2. /\ q[i + 1].kind = "event" /\ Addressed(log[q[i + 1].seq], c)
          /\ q[i + 1].seq \in taken[c] + 1..Len(log)
          /\ q[1].seq < q[i + 1].seq
      BY <1>3, <3>1 DEF Backlogged, q
    <3>3. QED
      BY <1>4, <1>6, <3>1, <3>2
  <2>3. \A i, j \in 1..Len(r) : i < j => r[i].seq < r[j].seq
    <3> SUFFICES ASSUME NEW i \in 1..Len(r), NEW j \in 1..Len(r), i < j
                 PROVE  r[i].seq < r[j].seq
      OBVIOUS
    <3>1. i + 1 \in 1..Len(q) /\ j + 1 \in 1..Len(q) /\ i + 1 < j + 1
      BY <2>1
    <3>2. QED
      BY <1>3, <2>1, <3>1 DEF Backlogged, q
  <2>4. \A m \in n + 1..Len(log) :
          Addressed(log[m], c) => \E i \in 1..Len(r) : r[i].seq = m
    <3> SUFFICES ASSUME NEW m \in n + 1..Len(log), Addressed(log[m], c)
                 PROVE  \E i \in 1..Len(r) : r[i].seq = m
      OBVIOUS
    <3>1. m \in taken[c] + 1..Len(log)
      BY <1>4, <1>6
    <3>2. PICK i \in 1..Len(q) : q[i].seq = m
      BY <1>3, <3>1 DEF Backlogged, q
    <3>3. i # 1
      BY <1>4, <3>2 DEF q
    <3>4. i - 1 \in 1..Len(r) /\ r[i - 1] = q[i]
      BY <1>2, <2>1, <3>3
    <3>5. QED
      BY <3>2, <3>4
  <2>5. queue'[c] = r /\ taken'[c] = n /\ log' = log
    BY <1>5 DEF r, q
  <2>6. /\ \A i \in 1..Len(queue'[c]) :
             /\ queue'[c][i].kind = "event"
             /\ queue'[c][i].seq \in taken'[c] + 1..Len(log')
             /\ Addressed(log'[queue'[c][i].seq], c)
        /\ \A i, j \in 1..Len(queue'[c]) : i < j => queue'[c][i].seq < queue'[c][j].seq
        /\ \A m \in taken'[c] + 1..Len(log') :
             Addressed(log'[m], c) => \E i \in 1..Len(queue'[c]) : queue'[c][i].seq = m
    BY <2>2, <2>3, <2>4, <2>5
  <2>7. QED
    BY <1>5, <2>6 DEF Backlogged, Addressed
<1>14. RevocationInv(c)'
  <2> SUFFICES ASSUME pc'[c] \in Serving, kind[c] = "workspace"
               PROVE  RevocationInv(c)'
    BY <1>5 DEF RevocationInv
  <2>1. RevocationInv(c)
    BY DEF StreamInv
  <2>2. \A m \in since[c] + 1..n : Final(m, c) => item'[c] = m
    <3> SUFFICES ASSUME NEW m \in since[c] + 1..n, Final(m, c)
                 PROVE  item'[c] = m
      OBVIOUS
    <3>1. CASE m = n
      BY <1>5, <3>1, PhaseFacts
    <3>2. CASE m <= taken[c]
      <4>1. m \in since[c] + 1..taken[c] /\ m # 0
        BY <1>6, <3>2
      <4>2. item[c] = m
        BY <1>1, <2>1, <4>1 DEF RevocationInv
      <4>3. QED
        BY <1>1, <4>1, <4>2
    <3>3. CASE m \in taken[c] + 1..n - 1
      BY <1>7, <3>3 DEF Addressed
    <3>4. QED
      BY <1>4, <1>6, <3>1, <3>2, <3>3
  <2>3. QED
    BY <1>1, <1>5, <1>9, <2>1, <2>2 DEF RevocationInv, HasAccess
<1>15. QED
  BY <1>10, <1>11, <1>12, <1>13, <1>14 DEF StreamInv

\* The event on its way has arrived.
LEMMA StreamSent ==
  ASSUME TypeOK, NEW c \in Connections, StreamInv(c), Sent(c)
  PROVE  StreamInv(c)'
<1>1. /\ pc[c] = "sending" /\ pc[c] \in Serving /\ pc[c] \in Subscribed
      /\ item[c] # 0 /\ item[c] \in Nat
  BY PhaseFacts, StreamFacts DEF Sent
<1>2. PICK n \in Nat : n = item[c]
  BY <1>1
<1>3. /\ n # 0 /\ n = taken[c] /\ n > since[c] /\ Wanted(n, c)
      /\ \A m \in Received(c) : m < n
      /\ n <= Len(log)
  BY <1>1, <1>2 DEF StreamInv, PositionInv
<1>4. /\ since[c] \in Nat /\ Len(log) \in Nat /\ Received(c) \subseteq Nat
      /\ n \in since[c] + 1..Len(log)
  BY <1>3, StreamFacts
<1>5. /\ sent'[c] = Append(sent[c], n) /\ item'[c] = 0
      /\ \/ Ends(log[n], c) /\ pc'[c] = "closing"
         \/ ~Ends(log[n], c) /\ pc'[c] = "top"
      /\ log' = log /\ queue' = queue /\ since' = since /\ taken' = taken
      /\ kind' = kind /\ user' = user /\ exists' = exists /\ accepted' = accepted
  BY <1>2 DEF Sent, Close, brokerVars, accessVars, TypeOK, ConnTypeOK
<1>6. /\ sent[c] \in Seq(1..MaxEvents) /\ Len(sent[c]) \in Nat
      /\ \A i \in 1..Len(sent[c]) : sent[c][i] \in Received(c)
      /\ n \in 1..MaxEvents
  <2>1. item[c] \in 0..MaxEvents /\ sent[c] \in Seq(1..MaxEvents)
    BY ConnFacts
  <2>2. n \in 1..MaxEvents
    BY <1>2, <1>3, <2>1, MaxEventsAssumption
  <2>3. QED
    BY <2>1, <2>2, StreamFacts
<1>7. /\ Len(sent'[c]) = Len(sent[c]) + 1
      /\ \A i \in 1..Len(sent[c]) : sent'[c][i] = sent[c][i]
      /\ sent'[c][Len(sent[c]) + 1] = n
  BY <1>5, <1>6, AppendProperties
<1>8. Received(c)' = Received(c) \cup {n}
  <2>1. Received(c)' = {sent'[c][i] : i \in 1..Len(sent[c]) + 1}
    BY <1>7 DEF Received
  <2>2. 1..Len(sent[c]) + 1 = 1..Len(sent[c]) \cup {Len(sent[c]) + 1}
    BY <1>6
  <2>3. \A i \in 1..Len(sent[c]) + 1 : sent'[c][i] \in Received(c) \cup {n}
    BY <1>6, <1>7, <2>2
  <2>4. \A m \in Received(c) : \E i \in 1..Len(sent[c]) + 1 : sent'[c][i] = m
    BY <1>7, <2>2 DEF Received
  <2>5. \E i \in 1..Len(sent[c]) + 1 : sent'[c][i] = n
    BY <1>7, <2>2
  <2>6. QED
    BY <2>1, <2>3, <2>4, <2>5
<1>9. /\ \A m : Wanted(m, c)' <=> Wanted(m, c)
      /\ \A m : Final(m, c)' <=> Final(m, c)
      /\ \A e : Addressed(e, c)' <=> Addressed(e, c)
      /\ Members' = Members
  BY <1>5 DEF Wanted, Final, Addressed, Targeted, OwnChange, Ends, Members
<1>10. Gapless(c)'
  <2>0. Gapless(c)
    BY DEF StreamInv
  <2>1. \A i, j \in 1..Len(sent'[c]) : i < j => sent'[c][i] < sent'[c][j]
    <3> SUFFICES ASSUME NEW i \in 1..Len(sent'[c]), NEW j \in 1..Len(sent'[c]), i < j
                 PROVE  sent'[c][i] < sent'[c][j]
      OBVIOUS
    <3>1. i \in 1..Len(sent[c]) /\ sent'[c][i] = sent[c][i] /\ sent[c][i] \in Received(c)
      BY <1>6, <1>7
    <3>2. CASE j = Len(sent[c]) + 1
      BY <1>3, <1>7, <3>1, <3>2
    <3>3. CASE j \in 1..Len(sent[c])
      BY <1>7, <2>0, <3>1, <3>3 DEF Gapless
    <3>4. QED
      BY <1>6, <1>7, <3>2, <3>3
  <2>2. \A m \in Received(c) \cup {n} : m > since[c] /\ Wanted(m, c)
    BY <1>3, <2>0 DEF Gapless
  <2>3. \A m \in since[c] + 1..n : Wanted(m, c) => m \in Received(c) \cup {n}
    BY <1>1, <1>2, <1>3, <2>0 DEF Gapless
  <2>4. \A m \in Received(c) \cup {n} : \A k \in since[c] + 1..m :
          Wanted(k, c) => k \in Received(c) \cup {n}
    BY <2>0, <2>3 DEF Gapless
  <2>5. QED
    BY <1>3, <1>5, <1>8, <1>9, <2>1, <2>2, <2>3, <2>4 DEF Gapless
<1>11. PositionInv(c)'
  BY <1>1, <1>3, <1>4, <1>5, <1>8 DEF StreamInv, PositionInv
<1>12. kind[c] = "workspace" => user[c] \in log[n].readers
  <2> SUFFICES ASSUME kind[c] = "workspace", user[c] \notin log[n].readers
               PROVE  FALSE
    OBVIOUS
  <2>1. PICK m \in since[c] + 1..n : m < n /\ Final(m, c)
    BY <1>1, <1>4 DEF StreamInv, RevocationInv
  <2>2. m \in since[c] + 1..taken[c]
    BY <1>3, <2>1
  <2>3. item[c] = m
    BY <1>1, <2>1, <2>2 DEF StreamInv, RevocationInv
  <2>4. QED
    BY <1>2, <2>1, <2>3
<1>13. Readable(c)'
  BY <1>5, <1>8, <1>12 DEF StreamInv, Readable
<1>14. pc'[c] \in Serving => SignalAhead(c)' \/ Backlogged(c)'
  BY <1>1, <1>5, <1>9 DEF StreamInv, SignalAhead, Backlogged
<1>15. RevocationInv(c)'
  <2> SUFFICES ASSUME pc'[c] \in Serving, kind[c] = "workspace"
               PROVE  RevocationInv(c)'
    BY <1>5 DEF RevocationInv
  <2>1. ~Ends(log[n], c)
    BY <1>5, PhaseFacts
  <2>2. \A m \in since[c] + 1..taken[c] : ~Final(m, c)
    BY <1>1, <1>2, <2>1 DEF StreamInv, RevocationInv, Final
  <2>3. QED
    BY <1>1, <1>5, <1>9, <2>2 DEF StreamInv, RevocationInv, HasAccess
<1>16. QED
  BY <1>10, <1>11, <1>13, <1>14, <1>15 DEF StreamInv

\* Every step of a connection, for that connection.
LEMMA StreamStep ==
  ASSUME TypeOK, NEW c \in Connections, StreamInv(c), SignedOutInv(c),
         \/ \E k \in {"workspace", "user"}, u \in Users : Connect(c, k, u)
         \/ ExpireToken(c) \/ ClientGone(c) \/ Handler(c)
  PROVE  StreamInv(c)'
<1>0. /\ pc \in [Connections -> Phases] /\ item \in [Connections -> 0..MaxEvents]
      /\ queue \in [Connections -> Seq(Items)]
      /\ sent \in [Connections -> Seq(1..MaxEvents)]
      /\ kind \in [Connections -> {"workspace", "user"}] /\ user \in [Connections -> Users]
      /\ since \in [Connections -> 0..MaxEvents] /\ taken \in [Connections -> 0..MaxEvents]
  BY DEF TypeOK, BrokerTypeOK, ConnTypeOK
<1>1. item[c] # 0 <=> pc[c] = "sending"
  BY ConnFacts
<1>2. ASSUME Forget(c)
      PROVE  StreamInv(c)'
  <2>1. pc'[c] = "new" /\ item'[c] = 0 /\ sent'[c] = <<>>
    BY <1>0, <1>2 DEF Forget
  <2>2. QED
    BY <2>1, PhaseFacts, IdleStream
<1>3. ASSUME NEW k \in {"workspace", "user"}, NEW u \in Users, Connect(c, k, u)
      PROVE  StreamInv(c)'
  <2>1. /\ pc[c] = "new" /\ UNCHANGED <<item, sent, accessVars>>
        /\ kind'[c] = k /\ user'[c] = u
    BY <1>0, <1>3 DEF Connect
  <2>2. sent'[c] = <<>> /\ item'[c] = 0
    BY <1>1, <2>1 DEF SignedOutInv
  <2>3. CASE SubscribeAndCheck(c, k, u)
    BY <2>1, <2>2, <2>3, StreamSubscribe
  <2>4. CASE pc' = [pc EXCEPT ![c] = "authenticating"]
    <3>1. pc'[c] = "authenticating"
      BY <1>0, <2>4
    <3>2. QED
      BY <2>2, <3>1, PhaseFacts, IdleStream
  <2>5. QED
    BY <1>3, <2>3, <2>4 DEF Connect
<1>4. CASE Authenticated(c)
  <2>1. /\ SubscribeAndCheck(c, kind[c], user[c])
        /\ pc[c] = "authenticating" /\ UNCHANGED <<item, sent, kind, user, accessVars>>
    BY <1>4 DEF Authenticated
  <2>2. sent'[c] = <<>> /\ item'[c] = 0 /\ kind'[c] = kind[c] /\ user'[c] = user[c]
    BY <1>1, <2>1 DEF SignedOutInv
  <2>3. QED
    BY <2>1, <2>2, StreamSubscribe
<1>5. CASE Rejected(c) \/ Finish(c)
  BY <1>2, <1>5 DEF Rejected, Finish
<1>6. CASE TakeEvent(c)
  BY <1>6, StreamTakeEvent
<1>7. CASE Sent(c)
  BY <1>7, StreamSent
<1>8. CASE ExpireToken(c) \/ ClientGone(c) \/ Accept(c) \/ TopOfLoop(c) \/ Timeout(c)
             \/ TakeSignal(c)
  <2>1. /\ pc[c] \in Serving /\ pc[c] \in Subscribed
        /\ log' = log /\ sent' = sent /\ since' = since /\ taken' = taken
        /\ kind' = kind /\ user' = user /\ exists' = exists /\ accepted' = accepted
    BY <1>8, PhaseFacts
    DEF ExpireToken, ClientGone, Accept, TopOfLoop, Timeout, TakeSignal, HasItem, Get,
        brokerVars, accessVars
  <2>2. \/ pc'[c] \in Serving /\ queue' = queue /\ item' = item
        \/ pc'[c] = "closing" /\ item'[c] = 0
    <3>1. CASE ExpireToken(c) \/ ClientGone(c) \/ Accept(c)
      BY <1>0, <1>1, <3>1, PhaseFacts DEF ExpireToken, ClientGone, Accept, Close, brokerVars
    <3>2. CASE TopOfLoop(c) \/ Timeout(c)
      BY <1>0, <1>1, <3>2, PhaseFacts DEF TopOfLoop, Timeout, Close, brokerVars
    <3>3. CASE TakeSignal(c)
      BY <1>0, <1>1, <3>3, PhaseFacts DEF TakeSignal, HasItem, Close
    <3>4. QED
      BY <1>8, <3>1, <3>2, <3>3
  <2>3. CASE pc'[c] \in Serving /\ queue' = queue /\ item' = item
    <3>1. Members' = Members
      BY <2>1 DEF Members
    <3>2. QED
      BY <2>1, <2>3, <3>1, PhaseFacts, StreamFrame
  <2>4. CASE pc'[c] = "closing" /\ item'[c] = 0
    BY <2>1, <2>4, StreamEnds
  <2>5. QED
    BY <2>2, <2>3, <2>4
<1>9. QED
  BY <1>3, <1>4, <1>5, <1>6, <1>7, <1>8 DEF Handler

\* A step of one connection, for the others: the history is forgotten only
\* when nobody else listens.
LEMMA StreamOther ==
  ASSUME TypeOK, RegistriesAreExact, NEW c \in Connections,
         NEW d \in Connections, d # c, StreamInv(d), SignedOutInv(d),
         \/ \E k \in {"workspace", "user"}, u \in Users : Connect(c, k, u)
         \/ ExpireToken(c) \/ ClientGone(c) \/ Handler(c)
  PROVE  StreamInv(d)'
<1>0. /\ pc \in [Connections -> Phases] /\ item \in [Connections -> 0..MaxEvents]
      /\ queue \in [Connections -> Seq(Items)]
      /\ sent \in [Connections -> Seq(1..MaxEvents)]
      /\ kind \in [Connections -> {"workspace", "user"}] /\ user \in [Connections -> Users]
      /\ since \in [Connections -> 0..MaxEvents] /\ taken \in [Connections -> 0..MaxEvents]
      /\ Topic(d) \in Topics
  BY TopicFacts DEF TypeOK, BrokerTypeOK, ConnTypeOK
<1>1. since'[d] = since[d] /\ taken'[d] = taken[d] /\ kind'[d] = kind[d] /\ user'[d] = user[d]
  <2>1. CASE \E k \in {"workspace", "user"}, u \in Users : Connect(c, k, u)
    BY <1>0, <2>1 DEF Connect, SubscribeAndCheck
  <2>2. CASE Authenticated(c)
    BY <1>0, <2>2 DEF Authenticated, SubscribeAndCheck
  <2>3. CASE Rejected(c) \/ Finish(c)
    BY <1>0, <2>3 DEF Rejected, Finish, Forget
  <2>4. CASE TakeEvent(c)
    BY <1>0, <2>4 DEF TakeEvent
  <2>5. CASE ExpireToken(c) \/ ClientGone(c) \/ Accept(c) \/ TopOfLoop(c) \/ Timeout(c)
               \/ TakeSignal(c) \/ Sent(c)
    BY <2>5 DEF ExpireToken, ClientGone, Accept, TopOfLoop, Timeout, TakeSignal, Sent
  <2>6. QED
    BY <2>1, <2>2, <2>3, <2>4, <2>5 DEF Handler
<1>2. UNCHANGED <<exists, accepted>>
  BY DEF Connect, ExpireToken, ClientGone, Handler, Authenticated, Rejected, Accept, TopOfLoop,
         Timeout, TakeSignal, TakeEvent, Sent, Finish, accessVars
<1>3. Members' = Members
  BY <1>2 DEF Members
<1>4. CASE ~Finish(c)
  BY <1>1, <1>3, <1>4, OthersUnchanged, StreamFrame
<1>5. CASE Finish(c)
  <2>1. pc'[d] = pc[d] /\ queue'[d] = queue[d] /\ item'[d] = item[d] /\ sent'[d] = sent[d]
    BY <1>0, <1>5 DEF Finish, Forget, Unsubscribe
  <2>2. CASE pc[d] \notin Subscribed
    BY <2>1, <2>2, StaysIdle
  <2>3. CASE pc[d] \in Subscribed
    <3>1. d \in streams[Topic(d)]
      BY <1>0, <2>3 DEF RegistriesAreExact
    <3>2. log' = log
      BY <1>0, <1>5, <3>1 DEF Finish, Unsubscribe
    <3>3. QED
      BY <1>1, <1>3, <2>1, <3>2, StreamFrame
  <2>4. QED
    BY <2>2, <2>3
<1>6. QED
  BY <1>4, <1>5

\* Every step that changes access publishes what it did, to those who read
\* before or after it.
LEMMA StreamAccess ==
  ASSUME TypeOK, RegistriesAreExact, NEW d \in Connections, StreamInv(d), SignedOutInv(d),
         NEW client \in Connections \cup {NoClient},
         \/ ChangeWorkspace(client) \/ FinishDelete(client) \/ BeginDelete
         \/ \E u \in Users \ {Owner} :
              AddCollaborator(u, client) \/ RedeemShare(u, client)
                \/ RevokeCollaborator(u, client)
  PROVE  StreamInv(d)'
<1>1. Members \in SUBSET Users /\ members \in SUBSET Users /\ user[d] \in Users
  BY TopicFacts, StreamFacts DEF TypeOK, AccessTypeOK
<1>2. /\ {"file.saved", "workspace.updated", "workspace.deleted", "collaborator.added",
          "collaborator.revoked"} \subseteq EventTypes
      /\ {"workspace.deleted", "collaborator.revoked"} \subseteq Closing
  BY DEF EventTypes, Closing
<1>3. CASE UNCHANGED <<brokerVars, connVars, exists, accepted>>
  <2>1. Members' = Members
    BY <1>3 DEF Members
  <2>2. QED
    BY <1>3, <2>1, StreamFrame DEF brokerVars, connVars
<1>4. CASE ChangeWorkspace(client)
  <2>1. PICK type \in {"file.saved", "workspace.updated"} :
          Publish(Event(type, client, NoUser,
                        IF type = "file.saved" THEN {} ELSE Members, Members))
    BY <1>4 DEF ChangeWorkspace
  <2>2. UNCHANGED connVars /\ Members' = Members
    BY <1>4 DEF ChangeWorkspace, accessVars, Members
  <2> DEFINE e == Event(type, client, NoUser, IF type = "file.saved" THEN {} ELSE Members, Members)
  <2>3. e \in Events /\ e.readers = Members
    BY <1>1, <1>2, EventTyped DEF Event
  <2> HIDE DEF e
  <2>4. QED
    BY <2>1, <2>2, <2>3, StreamPublish DEF e
<1>5. CASE FinishDelete(client)
  <2>1. UNCHANGED connVars
    BY <1>5 DEF FinishDelete
  <2>2. CASE Publish(Event("workspace.deleted", client, NoUser, members, Members))
    <3> DEFINE e == Event("workspace.deleted", client, NoUser, members, Members)
    <3>1. e \in Events /\ e.readers = Members /\ e.type \in Closing /\ e.target = NoUser
      BY <1>1, <1>2, EventTyped DEF Event
    <3> HIDE DEF e
    <3>2. QED
      BY <2>1, <2>2, <3>1, StreamPublish DEF e
  <2>3. QED
    BY <1>3, <1>5, <2>1, <2>2 DEF FinishDelete
<1>6. CASE BeginDelete
  BY <1>3, <1>6 DEF BeginDelete
<1>7. ASSUME NEW u \in Users \ {Owner}, AddCollaborator(u, client) \/ RedeemShare(u, client)
      PROVE  StreamInv(d)'
  <2> DEFINE e == Event("collaborator.added", client, u, {u}, Members \cup {u})
  <2>1. e \in Events /\ Members \subseteq e.readers
    BY <1>1, <1>2, EventTyped DEF Event
  <2>2. Publish(e) /\ UNCHANGED connVars /\ Members \subseteq Members'
    BY <1>7 DEF AddCollaborator, RedeemShare, Join, Members
  <2> HIDE DEF e
  <2>3. QED
    BY <2>1, <2>2, StreamPublish
<1>8. ASSUME NEW u \in Users \ {Owner}, RevokeCollaborator(u, client)
      PROVE  StreamInv(d)'
  <2> DEFINE e == Event("collaborator.revoked", client, u, {u}, Members)
  <2>1. e \in Events /\ e.readers = Members /\ e.type \in Closing /\ e.target = u
    BY <1>1, <1>2, EventTyped DEF Event
  <2>2. Publish(e) /\ UNCHANGED connVars /\ Members \subseteq Members' \cup {u}
    BY <1>8 DEF RevokeCollaborator, Members
  <2> HIDE DEF e
  <2>3. \/ user[d] \in Members => user[d] \in Members'
        \/ e.type \in Closing /\ e.target \in {NoUser, user[d]}
    BY <2>1, <2>2
  <2>4. QED
    BY <2>1, <2>2, <2>3, StreamPublish
<1>9. QED
  BY <1>4, <1>5, <1>6, <1>7, <1>8

-----------------------------------------------------------------------------
(* The inductive invariant *)

\* The parts of the invariant, connection by connection.
LEMMA StreamParts ==
  IInv <=> BaseInv /\ \A c \in Connections : StreamInv(c)
BY DEF IInv, GaplessDelivery, NoSilentLoss, NothingAfterRevocation, StreamInv, Readable

LEMMA StreamInit == Init => IInv
<1> SUFFICES ASSUME Init PROVE IInv
  OBVIOUS
<1>1. BaseInv
  BY InitInv
<1>2. ASSUME NEW c \in Connections
      PROVE  StreamInv(c)
  <2>1. pc[c] = "new" /\ sent[c] = <<>> /\ item[c] = 0 /\ Len(<<>>) = 0
    BY <1>2 DEF Init
  <2>2. pc[c] \notin Subscribed /\ pc[c] \notin Serving
    BY <2>1, PhaseFacts
  <2>3. Len(sent[c]) = 0 /\ Received(c) = {}
    BY <2>1 DEF Received
  <2>4. QED
    BY <2>1, <2>2, <2>3 DEF StreamInv, Gapless, PositionInv, Readable, RevocationInv
<1>3. QED
  BY <1>1, <1>2, StreamParts

LEMMA StreamNext ==
  ASSUME IInv, [Next]_vars
  PROVE  IInv'
<1>0. BaseInv /\ TypeOK /\ RegistriesAreExact
  BY DEF IInv, BaseInv
<1>1. BaseInv'
  BY <1>0, StepInv
<1>2. ASSUME NEW d \in Connections
      PROVE  StreamInv(d)'
  <2>0. StreamInv(d) /\ SignedOutInv(d)
    BY <1>0, StreamParts DEF BaseInv
  <2>1. CASE UNCHANGED vars
    <3>1. Members' = Members
      BY <2>1 DEF vars, accessVars, Members
    <3>2. QED
      BY <2>0, <2>1, <3>1, StreamFrame DEF vars, brokerVars, connVars
  <2>2. ASSUME NEW client \in Connections \cup {NoClient},
               \/ ChangeWorkspace(client) \/ FinishDelete(client) \/ BeginDelete
               \/ \E u \in Users \ {Owner} :
                    AddCollaborator(u, client) \/ RedeemShare(u, client)
                      \/ RevokeCollaborator(u, client)
        PROVE  StreamInv(d)'
    BY <1>0, <2>0, <2>2, StreamAccess
  <2>3. ASSUME NEW u \in Users, Logout(u)
        PROVE  StreamInv(d)'
    BY <1>0, <2>0, <2>3, StreamLogout
  <2>4. ASSUME NEW c \in Connections,
               \/ \E k \in {"workspace", "user"}, u \in Users : Connect(c, k, u)
               \/ ExpireToken(c) \/ ClientGone(c) \/ Handler(c)
        PROVE  StreamInv(d)'
    BY <1>0, <2>0, <2>4, StreamStep, StreamOther
  <2>5. QED
    BY <1>0, <2>1, <2>2, <2>3, <2>4, NextSteps
<1>3. (\A c \in Connections : StreamInv(c))'
  BY <1>2
<1>4. QED
  BY <1>1, <1>3, StreamParts, PTL

-----------------------------------------------------------------------------
(* Theorems *)

\* The inductive invariant of the gateway holds for any users, connections,
\* queue size and number of events.
THEOREM Invariance == Spec => []IInv
<1>1. Init => IInv
  BY StreamInit
<1>2. IInv /\ [Next]_vars => IInv'
  BY StreamNext
<1>3. QED
  BY <1>1, <1>2, PTL DEF Spec

\* collab.py:159-185: a client receives, in order and without a gap, what was
\* published for it.
THEOREM Gaplessness == Spec => []GaplessDelivery
<1>1. IInv => GaplessDelivery
  BY DEF IInv
<1>2. QED
  BY <1>1, Invariance, PTL

\* events_service.py:32-33: a queue that lost an event starts with the signal
\* that closes its socket.
THEOREM LossIsSignalled == Spec => []NoSilentLoss
<1>1. IInv => NoSilentLoss
  BY DEF IInv
<1>2. QED
  BY <1>1, Invariance, PTL

\* collab.py:26-28: the stream of a workspace carries nothing from a time
\* when its viewer had no access.
THEOREM RevocationSilences == Spec => []NothingAfterRevocation
<1>1. IInv => NothingAfterRevocation
  BY DEF IInv
<1>2. QED
  BY <1>1, Invariance, PTL
=============================================================================
