------------------------------ MODULE Session ------------------------------
(***************************************************************************)
(* The session of one user: the provider tokens stored in the users row,   *)
(* the JWTs that carry its session version, and the tokens as the identity *)
(* provider knows them (app/services/auth_service.py,                      *)
(* app/services/token_refresh_service.py, app/utils/                       *)
(* handle_oauth_callback.py, scripts/revoke_idle_tokens.py).               *)
(*                                                                         *)
(* Requests of several browsers run concurrently in the server.  Each has  *)
(* a User object of its own, loaded before the calls to the provider are   *)
(* awaited; a commit writes the columns that were changed in the object.   *)
(* The idle cleanup runs in another process, where refresh_locks of the    *)
(* server does not reach.                                                  *)
(*                                                                         *)
(* Tokens are numbered in the order in which the provider issues them.  A  *)
(* number stands for an access token, with its expiry, and for the refresh *)
(* token that was issued with it.                                          *)
(***************************************************************************)
EXTENDS Naturals, FiniteSets

CONSTANTS
  Providers,  \* of "github": a refresh token works once; "google": it works on
  Requests,   \* the requests the server works on at a time
  Nobody,     \* the refresh lock is free; not a request
  MaxTokens,  \* bound of the model: tokens the provider issues
  MaxLogouts  \* bound of the model: times the user logs out

ASSUME ProviderAssumption == Providers \subseteq {"github", "google"}
ASSUME NobodyAssumption == Nobody \notin Requests /\ "idle" \notin Requests
ASSUME BoundsAssumption == MaxTokens \in Nat /\ MaxLogouts \in Nat

VARIABLES
  idp,        \* users.identity_provider: with whom the user signs in
  row,        \* the token columns of the users row, see Rows
  jwts,       \* the session versions of the JWTs that have not expired
  inactive,   \* last_seen_at is before the cutoff of the idle cleanup
  alive,      \* provider: the refresh tokens that work
  stale,      \* the access tokens that are expired, or are about to be
  issued,     \* how many tokens the provider has issued
  locked,     \* who is inside refresh_locks(user.id) of the server
  pc,         \* pc[a]: where a request or the cleanup stands, see Phases
  seen,       \* seen[a]: the row as the User object of a has it
  sv,         \* sv[r]: session version of the JWT that request r came with
  renewal,    \* renewal[r]: the token in the provider's answer to r
  signedIn,   \* history: a login since the last logout or cleanup
  exchanged,  \* history: refresh tokens GitHub answered with a new pair
  lost        \* history: refresh tokens GitHub spent on an answer that got lost

vars == <<idp, row, jwts, inactive, alive, stale, issued, locked, pc, seen, sv,
          renewal, signedIn, exchanged, lost>>

Actors == Requests \cup {"idle"}
Tokens == 1..MaxTokens

\* access, refresh: the token in that column, 0 for NULL.  token_expiry is
\* written with access_token always, so it stands for it.
Rows == [access: 0..MaxTokens, refresh: 0..MaxTokens, version: 0..MaxLogouts]

NoTokens == [access |-> 0, refresh |-> 0, version |-> 0]

(***************************************************************************)
(* waiting    waits for the lock to renew the token                        *)
(* renewing   awaits the provider, inside the lock                         *)
(* renewed    the new token is on its way, inside the lock                 *)
(* serving    authenticated, the endpoint runs                             *)
(* ending     a logout that has loaded its user                            *)
(* queued     a logout that waits for the lock                             *)
(* rotating   GitHub: renews an expired token to revoke it                 *)
(* revoking   awaits the revocation                                        *)
(* clearing   the provider's answer to either is on its way                *)
(***************************************************************************)
Phases == {"done", "waiting", "renewing", "renewed", "serving",
           "ending", "queued", "rotating", "revoking", "clearing"}

InLock == {"renewing", "renewed", "rotating", "clearing"}

TypeOK ==
  /\ idp \in Providers
  /\ row \in Rows
  /\ jwts \subseteq 0..MaxLogouts /\ inactive \in BOOLEAN
  /\ alive \subseteq 1..issued /\ stale \subseteq 1..issued
  /\ issued \in 0..MaxTokens
  /\ locked \in {r \in Requests : pc[r] \in InLock} \cup {Nobody}
  /\ pc \in [Actors -> Phases]
  /\ seen \in [Actors -> Rows]
  /\ sv \in [Requests -> 0..MaxLogouts]
  /\ renewal \in [Requests -> 0..issued]
  /\ signedIn \in BOOLEAN
  /\ exchanged \subseteq 1..issued /\ lost \subseteq 1..issued

\* A user without a session.
Init ==
  /\ idp \in Providers
  /\ row = NoTokens
  /\ jwts = {} /\ inactive = FALSE
  /\ alive = {} /\ stale = {} /\ issued = 0
  /\ locked = Nobody
  /\ pc = [a \in Actors |-> "done"]
  /\ seen = [a \in Actors |-> NoTokens]
  /\ sv = [r \in Requests |-> 0]
  /\ renewal = [r \in Requests |-> 0]
  /\ signedIn = FALSE
  /\ exchanged = {} /\ lost = {}

history == <<exchanged, lost>>
provider == <<alive, stale, issued>>

-----------------------------------------------------------------------------
(* Helpers *)

\* is_token_expired: a missing token counts as an expired one.
Expired(w) == w.access = 0 \/ w.access \in stale

Goto(a, phase) == pc' = [pc EXCEPT ![a] = phase]

Release(r) == locked' = IF locked = r THEN Nobody ELSE locked

\* The request is answered, or the cleanup is through with the user.
Return(a) ==
  /\ Goto(a, "done")
  /\ seen' = [seen EXCEPT ![a] = NoTokens]
  /\ sv' = IF a \in Requests THEN [sv EXCEPT ![a] = 0] ELSE sv
  /\ renewal' = IF a \in Requests THEN [renewal EXCEPT ![a] = 0] ELSE renewal

\* Mutant: the version is not compared again.
UncheckedAuthenticate(r, version, user) ==
  /\ Goto(r, "serving")
  /\ inactive' = FALSE
  /\ seen' = [seen EXCEPT ![r] = user]
  /\ UNCHANGED renewal

\* The end of get_current_user: the version of the JWT is compared once more
\* with the User object, then the activity is recorded.
Authenticate(r, version, user) ==
  IF user.version = version
  THEN /\ Goto(r, "serving")
       /\ inactive' = FALSE
       /\ seen' = [seen EXCEPT ![r] = user]
       /\ UNCHANGED renewal
  ELSE /\ Goto(r, "done")
       /\ seen' = [seen EXCEPT ![r] = NoTokens]
       /\ renewal' = [renewal EXCEPT ![r] = 0]
       /\ UNCHANGED inactive

NewToken == issued + 1

-----------------------------------------------------------------------------
(* Login *)

\* create_or_update_user, and the JWT of the callback.
Login ==
  /\ issued < MaxTokens
  /\ issued' = NewToken
  /\ alive' = alive \cup {NewToken}
  /\ row' = [row EXCEPT !.access = NewToken, !.refresh = NewToken]
  /\ jwts' = jwts \cup {row.version}
  /\ inactive' = FALSE
  /\ signedIn' = TRUE
  /\ UNCHANGED <<idp, stale, locked, pc, seen, sv, renewal, history>>

-----------------------------------------------------------------------------
(* get_current_user *)

\* _load_jwt_user refuses every JWT but those of the row's session version;
\* a fresh provider token needs no renewal and nothing is awaited.
LoadUser(r) ==
  /\ pc[r] = "done"
  /\ row.version \in jwts
  /\ sv' = [sv EXCEPT ![r] = row.version]
  /\ IF Expired(row)
     THEN /\ Goto(r, "waiting")
          /\ seen' = [seen EXCEPT ![r] = row]
          /\ UNCHANGED <<inactive, renewal>>
     ELSE Authenticate(r, row.version, row)
  /\ UNCHANGED <<idp, row, jwts, locked, provider, signedIn, history>>

\* Mutant: without the lock.
RushingStartRenewal(r) ==
  /\ pc[r] = "waiting"
  /\ Expired(row) /\ row.refresh # 0
  /\ locked' = r
  /\ seen' = [seen EXCEPT ![r] = row]
  /\ Goto(r, "renewing")
  /\ UNCHANGED <<idp, row, jwts, inactive, provider, sv, renewal, signedIn, history>>

\* Inside the lock the user is read again: another request may have renewed
\* the token.
StartRenewal(r) ==
  /\ pc[r] = "waiting" /\ locked = Nobody
  /\ Expired(row) /\ row.refresh # 0
  /\ locked' = r
  /\ seen' = [seen EXCEPT ![r] = row]
  /\ Goto(r, "renewing")
  /\ UNCHANGED <<idp, row, jwts, inactive, provider, sv, renewal, signedIn, history>>

RenewalNotNeeded(r) ==
  /\ pc[r] = "waiting" /\ locked = Nobody
  /\ ~Expired(row)
  /\ Authenticate(r, sv[r], row)
  /\ UNCHANGED <<idp, row, jwts, sv, locked, provider, signedIn, history>>

\* Without a refresh token the request is refused.
RenewalImpossible(r) ==
  /\ pc[r] = "waiting" /\ locked = Nobody
  /\ Expired(row) /\ row.refresh = 0
  /\ Return(r)
  /\ UNCHANGED <<idp, row, jwts, inactive, locked, provider, signedIn, history>>

\* The provider issues a token for the refresh token t; GitHub spends t.
Exchange(t) ==
  /\ t \in alive /\ issued < MaxTokens
  /\ issued' = NewToken
  /\ alive' = IF idp = "github" THEN (alive \ {t}) \cup {NewToken} ELSE alive
  /\ exchanged' = IF idp = "github" THEN exchanged \cup {t} ELSE exchanged
  /\ UNCHANGED <<stale, lost>>

\* The call fails: the provider was not reached, refused t, or spent it and
\* its answer got lost.
ExchangeFails(t) ==
  /\ \/ UNCHANGED <<alive, lost>>
     \/ /\ idp = "github" /\ t \in alive
        /\ alive' = alive \ {t}
        /\ lost' = lost \cup {t}
  /\ UNCHANGED <<stale, issued, exchanged>>

ProviderRenews(r) ==
  /\ pc[r] = "renewing"
  /\ Exchange(seen[r].refresh)
  /\ renewal' = [renewal EXCEPT ![r] = NewToken]
  /\ Goto(r, "renewed")
  /\ UNCHANGED <<idp, row, jwts, inactive, locked, seen, sv, signedIn>>

\* Mutant: a failed renewal is logged and the request goes on.
IgnoredRenewalFails(r) ==
  /\ pc[r] = "renewing"
  /\ ExchangeFails(seen[r].refresh)
  /\ Release(r)
  /\ Authenticate(r, sv[r], seen[r])
  /\ UNCHANGED <<idp, row, jwts, sv, signedIn>>

\* Whatever the reason is, the request is refused.
RenewalFails(r) ==
  /\ pc[r] = "renewing"
  /\ ExchangeFails(seen[r].refresh)
  /\ Release(r)
  /\ Return(r)
  /\ UNCHANGED <<idp, row, jwts, inactive, signedIn>>

\* Mutant: the rotated refresh token is not stored.
HalfStoreGitHubPair(r) ==
  /\ row' = [row EXCEPT !.access = renewal[r]]
  /\ Authenticate(r, sv[r], row')

\* refresh_github_token: the user is read again after the answer.
StoreGitHubPair(r) ==
  /\ row' = [row EXCEPT !.access = renewal[r], !.refresh = renewal[r]]
  /\ Authenticate(r, sv[r], row')

\* Mutant: the refresh token of the object is written back.
OverwritingStoreGoogleToken(r) ==
  /\ row' = [row EXCEPT !.access = renewal[r], !.refresh = seen[r].refresh]
  /\ Authenticate(r, sv[r], [seen[r] EXCEPT !.access = renewal[r]])

\* refresh_google_token: the object that was loaded before the answer gets the
\* access token; its refresh token is the one it had, which is not written.
StoreGoogleToken(r) ==
  /\ row' = [row EXCEPT !.access = renewal[r]]
  /\ Authenticate(r, sv[r], [seen[r] EXCEPT !.access = renewal[r]])

Store(r) ==
  /\ pc[r] = "renewed"
  /\ IF idp = "google" THEN StoreGoogleToken(r) /\ UNCHANGED sv
     ELSE IF row.access = 0
          THEN \* logged out while GitHub was answering
               Return(r) /\ UNCHANGED <<row, inactive>>
          ELSE StoreGitHubPair(r) /\ UNCHANGED sv
  /\ Release(r)
  /\ UNCHANGED <<idp, jwts, provider, signedIn, history>>

Served(r) ==
  /\ pc[r] = "serving"
  /\ Return(r)
  /\ UNCHANGED <<idp, row, jwts, inactive, provider, locked, signedIn, history>>

-----------------------------------------------------------------------------
(* end_session, for a logout and for the idle cleanup *)

\* get_logout_user; the next dependency is resolved before the endpoint runs.
LoadLogout(r) ==
  /\ pc[r] = "done"
  /\ row.version \in jwts /\ row.version < MaxLogouts
  /\ sv' = [sv EXCEPT ![r] = row.version]
  /\ seen' = [seen EXCEPT ![r] = row]
  /\ Goto(r, "ending")
  /\ UNCHANGED <<idp, row, jwts, inactive, provider, locked, renewal, signedIn, history>>

\* Which call to the provider comes next, for the user w; without any token
\* there is none.
Revocation(w) ==
  CASE w.access = 0 /\ w.refresh = 0 -> "clearing"
    [] idp = "github" /\ w.refresh # 0 /\ Expired(w) -> "rotating"
    [] OTHER -> "revoking"

\* The tokens the User object w has are cleared, whatever the row has by now;
\* the version is increased in SQL.
Clear(r, w) ==
  /\ row.version < MaxLogouts
  /\ row' = [access |-> IF w.access = 0 THEN row.access ELSE 0,
             refresh |-> IF w.refresh = 0 THEN row.refresh ELSE 0,
             version |-> row.version + 1]
  /\ signedIn' = FALSE
  /\ Release(r)
  /\ Return(r)

\* An expired GitHub token is renewed first, inside the lock; without a token
\* nothing is awaited.
StartLogout(r) ==
  /\ pc[r] = "ending"
  /\ CASE Revocation(seen[r]) = "clearing" -> Clear(r, seen[r])
       [] Revocation(seen[r]) = "rotating" ->
            Goto(r, "queued") /\ UNCHANGED <<row, seen, sv, renewal, signedIn, locked>>
       [] Revocation(seen[r]) = "revoking" ->
            Goto(r, "revoking") /\ UNCHANGED <<row, seen, sv, renewal, signedIn, locked>>
  /\ UNCHANGED <<idp, jwts, inactive, provider, history>>

\* Inside the lock the user is read again.
LogoutInLock(r) ==
  /\ pc[r] = "queued" /\ locked = Nobody
  /\ IF Revocation(row) = "clearing" THEN Clear(r, row)
     ELSE /\ seen' = [seen EXCEPT ![r] = row]
          /\ Goto(r, Revocation(row))
          /\ locked' = IF Revocation(row) = "rotating" THEN r ELSE Nobody
          /\ UNCHANGED <<row, sv, renewal, signedIn>>
  /\ UNCHANGED <<idp, jwts, inactive, provider, history>>

\* The cleanup of another process: the user is read, found to be idle, and
\* read once more before an expired GitHub token is renewed.
StartIdle ==
  /\ pc["idle"] = "done"
  /\ inactive /\ (row.access # 0 \/ row.refresh # 0)
  /\ seen' = [seen EXCEPT !["idle"] = row]
  /\ Goto("idle", Revocation(row))
  /\ UNCHANGED <<idp, row, jwts, inactive, provider, locked, sv, renewal, signedIn, history>>

\* The new pair is revoked too and held by nobody, so it is left out here.
Rotate(a) ==
  /\ pc[a] = "rotating"
  /\ seen[a].refresh \in alive
  /\ alive' = alive \ {seen[a].refresh}
  /\ exchanged' = exchanged \cup {seen[a].refresh}
  /\ Goto(a, "clearing")
  /\ UNCHANGED <<idp, row, jwts, inactive, stale, issued, locked, seen, sv, renewal, signedIn, lost>>

\* bad_refresh_token is as good as a revocation, for the cleanup too.
RotationRefused(a) ==
  /\ pc[a] = "rotating"
  /\ seen[a].refresh \notin alive
  /\ Goto(a, "clearing")
  /\ UNCHANGED <<idp, row, jwts, inactive, provider, locked, seen, sv, renewal, signedIn, history>>

\* GitHub revokes the pair of an access token that has not expired, Google
\* what belongs to the refresh token.
Revoke(a) ==
  /\ pc[a] = "revoking"
  /\ alive' = CASE idp = "google" -> alive \ {seen[a].refresh}
                [] idp = "github" /\ seen[a].access \in stale -> alive
                [] OTHER -> alive \ {seen[a].access}
  /\ Goto(a, "clearing")
  /\ UNCHANGED <<idp, row, jwts, inactive, stale, issued, locked, seen, sv, renewal, signedIn, history>>

\* Any other failure: a logout goes on, the cleanup leaves the tokens for its
\* next run.
RevocationFails(a) ==
  /\ pc[a] \in {"rotating", "revoking"}
  /\ IF pc[a] = "rotating" THEN ExchangeFails(seen[a].refresh) ELSE UNCHANGED <<provider, history>>
  /\ IF a = "idle" THEN Return(a)
     ELSE Goto(a, "clearing") /\ UNCHANGED <<seen, sv, renewal>>
  /\ UNCHANGED <<idp, row, jwts, inactive, locked, signedIn>>

\* Before anything else is awaited, so still inside the lock after a rotation.
ClearAtLogout(r) ==
  /\ pc[r] = "clearing"
  /\ Clear(r, seen[r])
  /\ UNCHANGED <<idp, jwts, inactive, provider, history>>

\* Mutant: whatever the row has by now is cleared.
BlindClearIfIdle ==
  /\ pc["idle"] = "clearing"
  /\ row' = [row EXCEPT !.access = 0, !.refresh = 0]
  /\ Return("idle")
  /\ UNCHANGED <<idp, jwts, inactive, provider, locked, signedIn, history>>

\* One conditional statement: a session of another token_expiry is left.
ClearIfIdle ==
  /\ pc["idle"] = "clearing"
  /\ row' = IF row.access = seen["idle"].access
            THEN [row EXCEPT !.access = 0, !.refresh = 0]
            ELSE row
  /\ Return("idle")
  /\ UNCHANGED <<idp, jwts, inactive, provider, locked, signedIn, history>>

-----------------------------------------------------------------------------
(* Time *)

\* The access token in the row nears its expiry.
Expire ==
  /\ ~Expired(row)
  /\ stale' = stale \cup {row.access}
  /\ UNCHANGED <<idp, row, jwts, inactive, alive, issued, locked, pc, seen, sv, renewal,
                 signedIn, history>>

\* A week without a request: the JWTs, which last for hours, have expired.
Week ==
  /\ \A a \in Actors : pc[a] = "done"
  /\ jwts # {}
  /\ jwts' = {}
  /\ inactive' = TRUE
  /\ stale' = 1..issued
  /\ signedIn' = FALSE
  /\ UNCHANGED <<idp, row, alive, issued, locked, pc, seen, sv, renewal, history>>

Authentication(r) ==
  \/ LoadUser(r)
  \/ StartRenewal(r) \/ RenewalNotNeeded(r) \/ RenewalImpossible(r)
  \/ ProviderRenews(r) \/ RenewalFails(r) \/ Store(r) \/ Served(r)

Logout(r) == LoadLogout(r) \/ StartLogout(r) \/ LogoutInLock(r) \/ ClearAtLogout(r)

Next ==
  \/ Login
  \/ \E r \in Requests : Authentication(r) \/ Logout(r)
  \/ \E a \in Actors : Rotate(a) \/ RotationRefused(a) \/ Revoke(a) \/ RevocationFails(a)
  \/ StartIdle \/ ClearIfIdle
  \/ Expire \/ Week

Spec == Init /\ [][Next]_vars

-----------------------------------------------------------------------------
(* The invariant *)

\* token_refresh_service.py:155 "clear them, which is what ends the session":
\* after the logout of a GitHub user no answer that was on its way puts a
\* provider token back.
NoTokensAfterLogout ==
  idp = "github" /\ ~signedIn /\ ~inactive => row.access = 0 /\ row.refresh = 0

\* A login stays until the next logout or a week without a request: neither a
\* renewal nor the cleanup, each with a user it read before the login, takes
\* its tokens away.
LoginKeepsTokens ==
  signedIn => row.access # 0 /\ row.refresh # 0

\* refresh_locks: GitHub's refresh tokens work once, so none that GitHub has
\* answered with a new pair is sent again, by a request, a logout or the
\* cleanup.
NeverSpentTwice ==
  \A a \in Actors :
    pc[a] \in {"renewing", "rotating"} => seen[a].refresh \notin exchanged

\* Tokens are issued before they are stored or read, and each of GitHub's pairs is
\* one number.
TokensAreIssued ==
  /\ {row.access, row.refresh} \subseteq 0..issued
  /\ \A a \in Actors :
       /\ {seen[a].access, seen[a].refresh} \subseteq 0..issued
       /\ pc[a] = "done" => seen[a] = NoTokens
  /\ idp = "github" =>
       row.access = row.refresh /\ \A a \in Actors : seen[a].access = seen[a].refresh
  /\ idp = "google" => exchanged = {} /\ lost = {}

\* A JWT of the row's session version was issued by the login of this session.
VersionsFit ==
  /\ jwts \subseteq 0..row.version
  /\ row.version \in jwts => signedIn

\* The cleanup sees a user who has no JWT and makes no request.
InactiveIsIdle ==
  inactive => ~signedIn /\ jwts = {} /\ \A r \in Requests : pc[r] = "done"

PhaseFits ==
  /\ pc["idle"] \in {"done", "rotating", "revoking", "clearing"}
  /\ \A a \in Actors : pc[a] \in {"queued", "rotating"} => idp = "github"
  /\ \A r \in Requests :
       /\ pc[r] \in {"renewing", "renewed", "rotating"} => locked = r
       /\ pc[r] \in {"ending", "queued", "rotating", "revoking", "clearing"} =>
            seen[r].access # 0 /\ seen[r].refresh # 0

\* The users v and w have no token in common; w does not have the token t.
Apart(v, w) == {v.access, v.refresh} \intersect {w.access, w.refresh} \subseteq {0}
Lacks(w, t) == t \notin {w.access, w.refresh}

\* Once the user is back, the cleanup has no token that the row or a request has.
CleanupIsApart ==
  pc["idle"] # "done" =>
    IF inactive THEN row = seen["idle"]
    ELSE Apart(row, seen["idle"]) /\ \A r \in Requests : Apart(seen[r], seen["idle"])

\* The token of an answer that is on its way is nobody's yet.
AnswerIsFresh ==
  \A r \in Requests :
    pc[r] = "renewed" =>
      /\ renewal[r] # 0
      /\ idp = "github" => renewal[r] \in alive \ exchanged
      /\ Lacks(row, renewal[r]) /\ \A a \in Actors : Lacks(seen[a], renewal[r])

\* A refresh token that is spent stays in the row only until whoever spent it
\* writes the row: under the lock, or in the cleanup.
SpentIsReplaced ==
  row.refresh \in exchanged =>
    \/ \E r \in Requests :
         locked = r /\ pc[r] \in {"renewed", "clearing"} /\ seen[r].refresh = row.refresh
    \/ pc["idle"] = "clearing" /\ inactive

\* As StoredTokenWorks, but Google's refresh tokens are not spent.
StoredIsAlive ==
  row.refresh # 0 =>
    \/ row.refresh \in alive \cup lost
    \/ \E a \in Actors :
         /\ pc[a] = "clearing" \/ (pc[a] = "renewed" /\ idp = "github")
         /\ seen[a].refresh = row.refresh

IInv ==
  /\ TypeOK /\ TokensAreIssued /\ VersionsFit /\ InactiveIsIdle /\ PhaseFits
  /\ CleanupIsApart /\ AnswerIsFresh /\ SpentIsReplaced /\ StoredIsAlive
  /\ NoTokensAfterLogout /\ LoginKeepsTokens /\ NeverSpentTwice

\* GitHub spends a pair only once its access token has expired, so whoever looks
\* at the expiry does not take a spent pair for one that works.
SpentIsExpired ==
  /\ exchanged \cup lost \subseteq stale
  /\ alive \intersect (exchanged \cup lost) = {}
  /\ \A a \in Actors : pc[a] \in {"renewing", "rotating"} => Expired(seen[a])

-----------------------------------------------------------------------------
(* Properties *)

\* auth_service.py:94 "Logged out (and maybe in again) while the provider
\* token was renewed: this JWT's session is over": no request is
\* authenticated with a JWT of a session that has ended before that moment,
\* wherever it was awaiting something when the logout was committed.
NoUseAfterLogout ==
  [][\A r \in Requests :
       pc[r] # "serving" /\ pc'[r] = "serving" => sv'[r] = row'.version]_vars

\* The same of GitHub's users, whose row is read again after each renewal.
GitHubLogoutIsFinal ==
  [][idp = "github" =>
       \A r \in Requests :
         pc[r] # "serving" /\ pc'[r] = "serving" => sv'[r] = row'.version]_vars

\* What every state satisfies: NoTokensAfterLogout and NeverSpentTwice, and why.
Consistent == IInv /\ SpentIsExpired

\* token_refresh_service.py:119-129. After GitHub spent the pair in the row on an
\* answer that was lost, on a renewal, a logout's or the cleanup's, no request is
\* served any more until there is another pair: each is refused, so that the user
\* logs in again, and none runs with a token that was exchanged meanwhile either.
SpentIsRefused ==
  [][\A r \in Requests :
       pc[r] # "serving" /\ pc'[r] = "serving" =>
         seen'[r].refresh \notin exchanged \cup lost]_vars

\* The stored refresh token works, unless GitHub spent it on a call whose
\* answer got lost, or whoever spent or revoked it is about to write the row.
StoredTokenWorks ==
  row.refresh # 0 =>
    \/ row.refresh \in alive \cup lost
    \/ \E a \in Actors :
         pc[a] \in {"renewed", "clearing"} /\ seen[a].refresh = row.refresh
=============================================================================
