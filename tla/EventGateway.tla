---------------------------- MODULE EventGateway ----------------------------
(***************************************************************************)
(* The realtime gateway (app/api/collab.py) on top of the EventBroker,     *)
(* with the two things that end a viewer's right to the stream: the loss   *)
(* of access to the workspace (share_service.py, workspace_service.py)     *)
(* and the end of the login session (api/auth.py).                         *)
(*                                                                         *)
(* A connection is one run of _serve: handshake, accept, then a writer and *)
(* a reader task until one of them ends.  A connection subscribes one      *)
(* queue, so the queue is named after it; it is opened by one browser tab, *)
(* whose client id it is, too.  When a connection has ended, its name is   *)
(* free for the next one.                                                  *)
(***************************************************************************)
EXTENDS EventBroker, FiniteSets

CONSTANTS
  Owner,        \* the owner of the workspace
  Workspace,    \* the workspace the connections are about
  NoUser,       \* "no target": not a user
  NoClient      \* a request without a client id: not a connection

ASSUME OwnerAssumption == Owner \in Users
ASSUME WorkspaceAssumption == Workspace \in Workspaces
ASSUME NoUserAssumption == NoUser \notin Users

Connections == Queues

VARIABLES
  exists,       \* the workspace's row is in the database
  accepted,     \* the users with an accepted WorkspaceCollaborator row
  deleting,     \* a delete_workspace transaction awaits its rmtree
  members,      \* the `members` that transaction computed before it
  pc,           \* pc[c]: where _serve of connection c stands, see Phases
  kind,         \* kind[c]: "workspace" or "user" stream
  user,         \* user[c]: who authenticated
  loggedOutAt,  \* loggedOutAt[c]: LoggedIn while users.session_version is the one
                \* in the JWT of c; else, as a history, the length of the log
                \* when the logout raised it
  expired,      \* expired[c]: the JWT's exp has passed
  item,         \* item[c]: the queue item the writer is sending
  closeCode,    \* closeCode[c]: the code the socket was closed with, 0 if none
  since,        \* history: seq when c subscribed
  taken,        \* history: seq of the last event the writer took
  sent          \* history: the seqs of the events c's client received

accessVars == <<exists, accepted, deleting, members>>
connVars == <<pc, kind, user, loggedOutAt, expired, item, closeCode, since, taken, sent>>
vars == <<brokerVars, accessVars, connVars>>

(***************************************************************************)
(* new             no connection                                           *)
(* authenticating  get_current_user awaits the renewal of a provider token *)
(* accepting       subscribed, access checked, awaits websocket.accept()   *)
(* top             writer at the head of its loop                          *)
(* waiting         writer awaits queue.get() with a timeout                *)
(* sending         writer awaits websocket.send_text()                     *)
(* closing         _serve unwinds; its finally has not run                 *)
(***************************************************************************)
Phases == {"new", "authenticating", "accepting", "top", "waiting", "sending", "closing"}
Serving == {"accepting", "top", "waiting", "sending"}
Subscribed == Serving \cup {"closing"}

Closing == {"collaborator.revoked", "workspace.deleted"}
EventTypes == Closing \cup {"collaborator.added", "workspace.updated", "file.saved"}

\* No code yet; the client went away or sent data; signed out; no access;
\* resynchronise.
CloseCodes == {0, 1000, 1008, 4001, 4003, 4009}

\* readers is history: who had access just before the event was published, or
\* just after.
Events ==
  [type: EventTypes, workspace: {Workspace}, client: Connections \cup {NoClient}, target: Users \cup {NoUser},
   users: SUBSET Users, readers: SUBSET Users]

LoggedIn == MaxEvents + 1

BrokerTypeOK ==
  /\ streams \in [Topics -> SUBSET Connections]
  /\ byUser \in [Users -> SUBSET Connections]
  /\ queue \in [Connections -> Seq(Items)]
  /\ \A c \in Connections : Len(queue[c]) <= QueueMax
  /\ log \in Seq(Events) /\ Len(log) <= MaxEvents

AccessTypeOK ==
  /\ exists \in BOOLEAN /\ accepted \subseteq Users \ {Owner}
  /\ deleting \in BOOLEAN /\ members \subseteq Users

ConnTypeOK ==
  /\ pc \in [Connections -> Phases]
  /\ kind \in [Connections -> {"workspace", "user"}]
  /\ user \in [Connections -> Users]
  /\ loggedOutAt \in [Connections -> 0..LoggedIn]
  /\ expired \in [Connections -> BOOLEAN]
  /\ item \in [Connections -> 0..MaxEvents]
  /\ closeCode \in [Connections -> CloseCodes]
  /\ since \in [Connections -> 0..MaxEvents] /\ taken \in [Connections -> 0..MaxEvents]
  /\ sent \in [Connections -> Seq(1..MaxEvents)]
  /\ \A c \in Connections : item[c] # 0 <=> pc[c] = "sending"

TypeOK == BrokerTypeOK /\ AccessTypeOK /\ ConnTypeOK

Init ==
  /\ BrokerInit
  /\ exists = TRUE /\ accepted \in SUBSET (Users \ {Owner})
  /\ deleting = FALSE /\ members = {}
  /\ pc = [c \in Connections |-> "new"]
  /\ kind = [c \in Connections |-> "user"]
  /\ user = [c \in Connections |-> Owner]
  /\ loggedOutAt = [c \in Connections |-> LoggedIn]
  /\ expired = [c \in Connections |-> FALSE]
  /\ item = [c \in Connections |-> 0]
  /\ closeCode = [c \in Connections |-> 0]
  /\ since = [c \in Connections |-> 0] /\ taken = [c \in Connections |-> 0]
  /\ sent = [c \in Connections |-> <<>>]

-----------------------------------------------------------------------------
(* Access and sessions *)

\* workspace_members and resolve_role: the owner and the accepted collaborators.
Members == IF exists THEN {Owner} \cup accepted ELSE {}
HasAccess(u) == u \in Members

Topic(c) == IF kind[c] = "workspace" THEN <<"workspace", Workspace>> ELSE <<"user", user[c]>>

\* An event caused by a request: the client id names a tab, and with it the
\* acting user.
Event(type, client, target, users, readers) ==
  [type |-> type, workspace |-> Workspace, client |-> client, target |-> target,
   users |-> users, readers |-> readers]

\* The client ids a request of u may come with: an open tab's, or that of a
\* tab (or script) without a stream.
ClientsOf(u) == {c \in Connections : pc[c] \in Serving /\ user[c] = u} \cup {NoClient}

\* A change of the workspace, committed and published in one step: file
\* events go to the workspace's sockets, list changes to the members' own
\* streams, too.
ChangeWorkspace(client) ==
  /\ exists
  /\ \E type \in {"file.saved", "workspace.updated"} :
       Publish(Event(type, client, NoUser,
                     IF type = "file.saved" THEN {} ELSE Members, Members))
  /\ UNCHANGED <<accessVars, connVars>>

\* The commit of a row that gives the user u access, and its event.
Join(u, client) ==
  /\ exists /\ u \notin Members
  /\ accepted' = accepted \cup {u}
  /\ Publish(Event("collaborator.added", client, u, {u}, Members \cup {u}))
  /\ UNCHANGED <<exists, deleting, members, connVars>>

\* add_collaborators from one of the owner's tabs, for a user with an account.
\* There is one access mode, so inviting a collaborator again and
\* update_collaborator change nothing and publish nothing.
AddCollaborator(u, client) ==
  client \in ClientsOf(Owner) /\ Join(u, client)

\* redeem_share from one of the user's tabs, with a link that is live: the
\* owner can have created one at any time.
RedeemShare(u, client) ==
  client \in ClientsOf(u) /\ Join(u, client)

RevokeCollaborator(u, client) ==
  /\ exists /\ u \in accepted
  /\ accepted' = accepted \ {u}
  /\ Publish(Event("collaborator.revoked", client, u, {u}, Members))
  /\ UNCHANGED <<exists, deleting, members, connVars>>

\* delete_workspace: the members are computed before the removal of the tree
\* is awaited.
BeginDelete ==
  /\ exists /\ ~deleting
  /\ deleting' = TRUE
  /\ members' = Members
  /\ UNCHANGED <<brokerVars, exists, accepted, connVars>>

\* The tree is gone: delete the row with the collaborators that were loaded
\* before, then publish to them.  A collaborator added meanwhile still refers
\* to the row, and the database refuses the delete; the removal of the tree
\* may fail, too (500, nothing published).
FinishDelete(client) ==
  /\ deleting
  /\ deleting' = FALSE
  /\ members' = {}
  /\ \/ /\ accepted \subseteq members
        /\ exists' = FALSE
        /\ accepted' = {}
        /\ Publish(Event("workspace.deleted", client, NoUser, members, Members))
     \/ UNCHANGED <<brokerVars, exists, accepted>>
  /\ UNCHANGED connVars

\* Logout: end_session commits the next session version, then the user's
\* sockets are told to close, with no await in between.
Logout(u) ==
  /\ loggedOutAt' = [c \in Connections |->
       IF pc[c] # "new" /\ user[c] = u /\ loggedOutAt[c] = LoggedIn THEN Len(log)
       ELSE loggedOutAt[c]]
  /\ CloseUserConnections(u)
  /\ UNCHANGED <<accessVars, pc, kind, user, expired, item, closeCode, since, taken, sent>>

ExpireToken(c) ==
  /\ pc[c] \in Serving
  /\ ~expired[c]
  /\ expired' = [expired EXCEPT ![c] = TRUE]
  /\ UNCHANGED <<brokerVars, accessVars, pc, kind, user, loggedOutAt, item, closeCode, since, taken, sent>>

-----------------------------------------------------------------------------
(* The handshake.  A refused connection is closed with 4001 or 4003 and    *)
(* leaves nothing behind: that is no step.                                 *)

\* Subscribe, then check access, with no await in between.
SubscribeAndCheck(c, k, u) ==
  /\ k = "workspace" => HasAccess(u)
  /\ Subscribe(c, IF k = "workspace" THEN <<"workspace", Workspace>> ELSE <<"user", u>>, u)
  /\ pc' = [pc EXCEPT ![c] = "accepting"]
  /\ since' = [since EXCEPT ![c] = Len(log)]
  /\ taken' = [taken EXCEPT ![c] = Len(log)]

\* A JWT of the user's current session version is presented; then the
\* provider token is fresh, or its renewal is awaited.
Connect(c, k, u) ==
  /\ pc[c] = "new"
  /\ kind' = [kind EXCEPT ![c] = k]
  /\ user' = [user EXCEPT ![c] = u]
  /\ \/ SubscribeAndCheck(c, k, u)
     \/ /\ pc' = [pc EXCEPT ![c] = "authenticating"]
        /\ UNCHANGED <<brokerVars, since, taken>>
  /\ UNCHANGED <<accessVars, loggedOutAt, expired, item, closeCode, sent>>

\* Mutant: the session is not looked at again after the renewal.
UncheckedAuthenticated(c) ==
  /\ pc[c] = "authenticating"
  /\ SubscribeAndCheck(c, kind[c], user[c])
  /\ UNCHANGED <<accessVars, kind, user, loggedOutAt, expired, item, closeCode, sent>>

\* The renewal is back, and the session did not end while it was awaited.
Authenticated(c) ==
  /\ pc[c] = "authenticating"
  /\ loggedOutAt[c] = LoggedIn
  /\ SubscribeAndCheck(c, kind[c], user[c])
  /\ UNCHANGED <<accessVars, kind, user, loggedOutAt, expired, item, closeCode, sent>>

\* The connection is over: back to what it was in Init.
Forget(c) ==
  /\ pc' = [pc EXCEPT ![c] = "new"]
  /\ kind' = [kind EXCEPT ![c] = "user"]
  /\ user' = [user EXCEPT ![c] = Owner]
  /\ loggedOutAt' = [loggedOutAt EXCEPT ![c] = LoggedIn]
  /\ expired' = [expired EXCEPT ![c] = FALSE]
  /\ item' = [item EXCEPT ![c] = 0]
  /\ closeCode' = [closeCode EXCEPT ![c] = 0]
  /\ since' = [since EXCEPT ![c] = 0] /\ taken' = [taken EXCEPT ![c] = 0]
  /\ sent' = [sent EXCEPT ![c] = <<>>]

\* The renewal failed, the session ended meanwhile, or there is no access.
Rejected(c) ==
  /\ pc[c] = "authenticating"
  /\ Forget(c)
  /\ UNCHANGED <<brokerVars, accessVars>>

Accept(c) ==
  /\ pc[c] = "accepting"
  /\ pc' = [pc EXCEPT ![c] = "top"]
  /\ UNCHANGED <<brokerVars, accessVars, kind, user, loggedOutAt, expired, item, closeCode, since, taken, sent>>

-----------------------------------------------------------------------------
(* The writer *)

Targeted(e, c) == e.target \in {NoUser, user[c]}
\* The client id, here one per connection; collab.py lets a tab's streams share one.
OwnChange(e, c) == e.client = c

\* Mutant: no event ends the connection.
NeverEnds(e, c) == FALSE

Ends(e, c) == kind[c] = "workspace" /\ e.type \in Closing

\* Leave the loop, with the code the client sees.
Close(c, code) ==
  /\ pc' = [pc EXCEPT ![c] = "closing"]
  /\ closeCode' = [closeCode EXCEPT ![c] = code]

\* Mutant: the token's expiry is not looked at.
UntimedTopOfLoop(c) ==
  /\ pc[c] = "top" /\ queue[c] = <<>>
  /\ pc' = [pc EXCEPT ![c] = "waiting"]
  /\ UNCHANGED <<brokerVars, accessVars, kind, user, loggedOutAt, expired, item, closeCode, since, taken, sent>>

\* The head of the loop: the token has expired, or get() has to wait.
TopOfLoop(c) ==
  /\ pc[c] = "top"
  /\ IF expired[c] THEN Close(c, 4001)
     ELSE queue[c] = <<>> /\ pc' = [pc EXCEPT ![c] = "waiting"] /\ UNCHANGED closeCode
  /\ UNCHANGED <<brokerVars, accessVars, kind, user, loggedOutAt, expired, item, since, taken, sent>>

\* Mutant: the cancelled get() loses the item that was put at the same moment.
LosingTimeout(c) ==
  /\ pc[c] = "waiting"
  /\ pc' = [pc EXCEPT ![c] = "top"]
  /\ queue' = [queue EXCEPT ![c] = IF @ = <<>> THEN @ ELSE Tail(@)]
  /\ UNCHANGED <<streams, byUser, log, accessVars, kind, user, loggedOutAt, expired, item, closeCode, since, taken, sent>>

\* The wait times out, for a ping or because the token expires.  An item put
\* at the same moment stays in the queue. The send of the ping carries no event and
\* is part of the step.
Timeout(c) ==
  /\ pc[c] = "waiting"
  /\ pc' = [pc EXCEPT ![c] = "top"]
  /\ UNCHANGED <<brokerVars, accessVars, kind, user, loggedOutAt, expired, item, closeCode, since, taken, sent>>

\* queue.get() has an item: it was waited for, or it was there already.
HasItem(c) ==
  /\ pc[c] = "waiting" \/ (pc[c] = "top" /\ ~expired[c])
  /\ queue[c] # <<>>

TakeSignal(c) ==
  /\ HasItem(c)
  /\ Head(queue[c]).kind = "close"
  /\ Get(c)
  /\ Close(c, Head(queue[c]).code)
  /\ UNCHANGED <<accessVars, kind, user, loggedOutAt, expired, item, since, taken, sent>>

\* An event: skipped if it is for somebody else, kept from the tab that
\* caused it, sent otherwise.
TakeEvent(c) ==
  /\ HasItem(c)
  /\ Head(queue[c]).kind = "event"
  /\ Get(c)
  /\ LET n == Head(queue[c]).seq
         e == log[n]
     IN /\ taken' = [taken EXCEPT ![c] = n]
        /\ \/ /\ Targeted(e, c) /\ ~OwnChange(e, c)
              /\ pc' = [pc EXCEPT ![c] = "sending"]
              /\ item' = [item EXCEPT ![c] = n]
              /\ UNCHANGED closeCode
           \/ /\ Targeted(e, c) /\ OwnChange(e, c) /\ Ends(e, c)
              /\ Close(c, 4003)
              /\ UNCHANGED item
           \/ /\ ~Targeted(e, c) \/ (OwnChange(e, c) /\ ~Ends(e, c))
              /\ pc' = [pc EXCEPT ![c] = "top"]
              /\ UNCHANGED <<item, closeCode>>
  /\ UNCHANGED <<accessVars, kind, user, loggedOutAt, expired, since, sent>>

\* send_text is done; a closing event ends the connection.
Sent(c) ==
  /\ pc[c] = "sending"
  /\ sent' = [sent EXCEPT ![c] = Append(@, item[c])]
  /\ item' = [item EXCEPT ![c] = 0]
  /\ IF Ends(log[item[c]], c) THEN Close(c, 4003)
     ELSE pc' = [pc EXCEPT ![c] = "top"] /\ UNCHANGED closeCode
  /\ UNCHANGED <<brokerVars, accessVars, kind, user, loggedOutAt, expired, since, taken>>

-----------------------------------------------------------------------------
(* The reader, and the end of _serve *)

\* The client goes away, during accept, at any await of the writer or while
\* the close frame is on its way; or it sends data and is closed for it.
ClientGone(c) ==
  /\ pc[c] \in Serving
  /\ \E code \in {1000, 1008} :
       /\ code = 1008 => pc[c] # "accepting"
       /\ Close(c, code)
  /\ item' = [item EXCEPT ![c] = 0]
  /\ UNCHANGED <<brokerVars, accessVars, kind, user, loggedOutAt, expired, since, taken, sent>>

\* The finally of _serve.
Finish(c) ==
  /\ pc[c] = "closing"
  /\ Unsubscribe(c, Topic(c), user[c])
  /\ Forget(c)
  /\ UNCHANGED accessVars

Handler(c) ==
  \/ Authenticated(c) \/ Rejected(c) \/ Accept(c)
  \/ TopOfLoop(c) \/ Timeout(c) \/ TakeSignal(c) \/ TakeEvent(c) \/ Sent(c)
  \/ Finish(c)

Next ==
  \/ \E client \in ClientsOf(Owner) :
       \/ ChangeWorkspace(client)
       \/ FinishDelete(client)
       \/ \E u \in Users \ {Owner} : RevokeCollaborator(u, client)
  \/ \E client \in Connections \cup {NoClient}, u \in Users \ {Owner} :
       AddCollaborator(u, client) \/ RedeemShare(u, client)
  \/ BeginDelete
  \/ \E u \in Users : Logout(u)
  \/ \E c \in Connections :
       \/ \E k \in {"workspace", "user"}, u \in Users : Connect(c, k, u)
       \/ ExpireToken(c)
       \/ ClientGone(c)
       \/ Handler(c)

\* The event loop runs the handler of a connection whenever it can run: the
\* waits are bounded by the heartbeat, a send to a dead client by the
\* server's keepalive, which ends the connection.
Fairness == \A c \in Connections : WF_vars(Handler(c))

Spec == Init /\ [][Next]_vars
FairSpec == Spec /\ Fairness

-----------------------------------------------------------------------------
(* Properties *)

Addressed(e, c) == kind[c] = "workspace" \/ user[c] \in e.users

\* c's client has to hear of event number n.
Wanted(n, c) == Addressed(log[n], c) /\ Targeted(log[n], c) /\ ~OwnChange(log[n], c)

Received(c) == {sent[c][i] : i \in 1..Len(sent[c])}

Gapless(c) ==
  /\ \A i, j \in 1..Len(sent[c]) : i < j => sent[c][i] < sent[c][j]
  /\ \A n \in Received(c) : n > since[c] /\ Wanted(n, c)
  /\ \A m \in Received(c) : \A n \in since[c] + 1..m : Wanted(n, c) => n \in Received(c)
  /\ pc[c] \in Serving =>
       \A n \in since[c] + 1..taken[c] : Wanted(n, c) => n \in Received(c) \/ n = item[c]

\* collab.py:159-185: what the client has received is, in order, what was
\* published for it since it subscribed: nothing is skipped, repeated or
\* swapped, and an open connection lacks nothing its writer has passed except
\* the message on its way.
GaplessDelivery == \A c \in Connections : Gapless(c)

SignalAhead(c) == queue[c] # <<>> /\ queue[c][1].kind = "close"

Backlogged(c) ==
  /\ \A i \in 1..Len(queue[c]) :
       /\ queue[c][i].kind = "event"
       /\ queue[c][i].seq \in taken[c] + 1..Len(log)
       /\ Addressed(log[queue[c][i].seq], c)
  /\ \A i, j \in 1..Len(queue[c]) : i < j => queue[c][i].seq < queue[c][j].seq
  /\ \A n \in taken[c] + 1..Len(log) :
       Addressed(log[n], c) => \E i \in 1..Len(queue[c]) : queue[c][i].seq = n

\* events_service.py:32-33 "closing beats dropping events silently": the
\* queue of a connection starts with the signal that closes the socket, or it
\* is, in order, exactly what was published for the connection and not taken.
NoSilentLoss ==
  \A c \in Connections : pc[c] \in Serving => SignalAhead(c) \/ Backlogged(c)

\* collab.py:26-28: the stream of a workspace carries nothing that was
\* published when its viewer had no access (any more), even if the viewer is
\* let in again or connected while the revocation was on its way.
NothingAfterRevocation ==
  \A c \in Connections : kind[c] = "workspace" =>
    \A n \in Received(c) : user[c] \in log[n].readers

\* events_service.py:34 and auth_service.py:94-99: a socket, of either kind,
\* carries nothing that was published after the logout of the session it was
\* opened with, however the logout falls into its handshake.
NothingAfterLogout ==
  \A c \in Connections : \A i \in 1..Len(sent[c]) : sent[c][i] <= loggedOutAt[c]

\* collab.py:131-145, 201: a queue is registered exactly while its handler
\* will still unsubscribe it, in the registries of its own topic and user and
\* in no other: none leaks and no running handler is unreachable for events
\* and for a logout.
RegistriesAreExact ==
  /\ \A t \in Topics :
       streams[t] = {c \in Connections : pc[c] \in Subscribed /\ Topic(c) = t}
  /\ \A u \in Users :
       byUser[u] = {c \in Connections : pc[c] \in Subscribed /\ user[c] = u}

\* Why NothingAfterLogout holds.  The queue of a session that has ended
\* starts with a signal, which no later event removes, and what was sent
\* before is older than the logout.
SignedOutInv(c) ==
  /\ pc[c] = "new" => loggedOutAt[c] = LoggedIn
  /\ pc[c] \in {"new", "authenticating"} => sent[c] = <<>>
  /\ pc[c] \in Serving => \A i \in 1..Len(queue[c]) : queue[c][i].seq <= Len(log)
  /\ pc[c] \in Subscribed =>
       item[c] <= Len(log) /\ \A i \in 1..Len(sent[c]) : sent[c][i] <= Len(log)
  /\ pc[c] \in Serving /\ loggedOutAt[c] # LoggedIn =>
       queue[c] # <<>> /\ queue[c][1].kind = "close"
  /\ item[c] <= loggedOutAt[c]
  /\ \A i \in 1..Len(sent[c]) : sent[c][i] <= loggedOutAt[c]

\* The first part of the inductive invariant: types, registries, sessions.
BaseInv ==
  /\ TypeOK
  /\ RegistriesAreExact
  /\ \A c \in Connections : SignedOutInv(c)

\* Where an open connection stands in the history of events.
PositionInv(c) ==
  /\ pc[c] \in Subscribed =>
       /\ since[c] <= taken[c] /\ taken[c] <= Len(log)
       /\ \A n \in Received(c) : n <= taken[c]
  /\ item[c] # 0 =>
       /\ item[c] = taken[c] /\ item[c] > since[c] /\ Wanted(item[c], c)
       /\ \A n \in Received(c) : n < item[c]

\* An event that ends c's stream.
Final(n, c) == Targeted(log[n], c) /\ Ends(log[n], c)

\* Why NothingAfterRevocation holds: whatever was published while the viewer
\* had no access, and the loss of access itself, comes after an event that
\* ends the stream, and the writer goes no further than that event.
RevocationInv(c) ==
  pc[c] \in Serving /\ kind[c] = "workspace" =>
    /\ ~HasAccess(user[c]) => \E m \in since[c] + 1..Len(log) : Final(m, c)
    /\ \A n \in since[c] + 1..Len(log) :
         user[c] \notin log[n].readers => \E m \in since[c] + 1..n : m < n /\ Final(m, c)
    /\ \A m \in since[c] + 1..taken[c] : Final(m, c) => item[c] = m

\* The inductive invariant of the proofs.
IInv ==
  /\ BaseInv
  /\ GaplessDelivery
  /\ NoSilentLoss
  /\ NothingAfterRevocation
  /\ \A c \in Connections : PositionInv(c) /\ RevocationInv(c)

\* collab.py:26-28, collab.py:162-165 and events_service.py:34: a socket
\* whose viewer has lost access, whose token has expired or whose session has
\* ended is closed, also one that nobody writes to.
Unentitled(c) ==
  \/ kind[c] = "workspace" /\ ~HasAccess(user[c])
  \/ expired[c]
  \/ loggedOutAt[c] # LoggedIn

UnentitledIsClosed ==
  \A c \in Connections : pc[c] \in Serving /\ Unentitled(c) ~> pc[c] = "new"
=============================================================================
