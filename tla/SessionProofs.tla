---------------------------- MODULE SessionProofs ----------------------------
(***************************************************************************)
(* Proofs about Session, for any number of requests, tokens and logouts,   *)
(* with either identity provider.                                          *)
(***************************************************************************)
EXTENDS Session, TLAPS

USE ProviderAssumption, NobodyAssumption, BoundsAssumption
    DEF Actors, Phases, InLock, Tokens, Rows, Goto, history, provider

-----------------------------------------------------------------------------

\* The types of tokens and of users with a new token.
LEMMA TokenFacts ==
  ASSUME IInv
  PROVE  /\ issued \in 0..MaxTokens /\ row \in Rows
         /\ row.access \in 0..issued /\ row.refresh \in 0..issued
         /\ \A a \in Actors : seen[a].access \in 0..issued /\ seen[a].refresh \in 0..issued
         /\ \A r \in Requests : renewal[r] \in 0..issued
BY DEF IInv, TypeOK, TokensAreIssued

LEMMA RowFacts ==
  ASSUME NEW w \in Rows, NEW t \in 0..MaxTokens
  PROVE  /\ [w EXCEPT !.access = t] \in Rows
         /\ [w EXCEPT !.access = t, !.refresh = t] \in Rows
OBVIOUS

\* Whoever finds the lock free, and no cleanup at its end, finds a refresh token that
\* works.
LEMMA UnspentRow ==
  ASSUME IInv, locked = Nobody, ~(pc["idle"] = "clearing" /\ inactive)
  PROVE  row.refresh \notin exchanged
BY DEF IInv, SpentIsReplaced

\* While a request is under way the user is not idle.
LEMMA ActiveUser ==
  ASSUME IInv, NEW r \in Requests, pc[r] # "done"
  PROVE  ~inactive /\ (pc["idle"] # "done" =>
           Apart(row, seen["idle"]) /\ \A q \in Requests : Apart(seen[q], seen["idle"]))
BY DEF IInv, InactiveIsIdle, CleanupIsApart

\* Users that are apart do not share a refresh token.
LEMMA ApartRefresh ==
  ASSUME NEW v, NEW w, Apart(v, w) \/ Apart(w, v), v.refresh # 0
  PROVE  v.refresh # w.refresh
BY DEF Apart

-----------------------------------------------------------------------------
(* Each action keeps every part of the invariant *)

LEMMA LoginKeeps == ASSUME IInv, Login PROVE IInv'
<1>1. TypeOK'
  <2>1. idp' \in Providers /\ jwts' \subseteq 0..MaxLogouts /\ inactive' \in BOOLEAN /\ signedIn' \in BOOLEAN
    BY DEF Login, NewToken, IInv, TypeOK
  <2>2. issued' \in 0..MaxTokens /\ row' \in Rows
    <3>1. issued + 1 \in 0..MaxTokens /\ row \in Rows
      BY DEF Login, IInv, TypeOK
    <3>2. QED
      BY <3>1, RowFacts DEF Login, NewToken
  <2>3. alive' \subseteq 1..issued' /\ stale' \subseteq 1..issued' /\ exchanged' \subseteq 1..issued' /\ lost' \subseteq 1..issued'
    BY DEF Login, NewToken, IInv, TypeOK, TokensAreIssued
  <2>4. pc' \in [Actors -> Phases] /\ seen' \in [Actors -> Rows]
    BY DEF Login, NewToken, IInv, TypeOK, NoTokens
  <2>5. sv' \in [Requests -> 0..MaxLogouts] /\ renewal' \in [Requests -> 0..issued']
    BY DEF Login, NewToken, IInv, TypeOK
  <2>6. locked' \in {q \in Requests : pc'[q] \in InLock} \cup {Nobody}
    BY DEF Login, NewToken, IInv, TypeOK, PhaseFits
  <2>7. QED
    BY <2>1, <2>2, <2>3, <2>4, <2>5, <2>6 DEF TypeOK
<1>2. TokensAreIssued'
  BY DEF Login, NewToken, IInv, TypeOK, TokensAreIssued, NoTokens, PhaseFits
<1>3. VersionsFit' /\ InactiveIsIdle'
  BY DEF Login, NewToken, IInv, TypeOK, VersionsFit, InactiveIsIdle
<1>4. PhaseFits'
  BY DEF Login, NewToken, IInv, TypeOK, PhaseFits, InactiveIsIdle, VersionsFit, TokensAreIssued, LoginKeepsTokens
<1>5. CleanupIsApart'
  BY DEF Login, NewToken, IInv, TypeOK, CleanupIsApart, InactiveIsIdle, TokensAreIssued, Apart, NoTokens
<1>6. AnswerIsFresh'
  BY DEF Login, NewToken, IInv, TypeOK, AnswerIsFresh, TokensAreIssued, PhaseFits, Lacks, NoTokens
<1>7. SpentIsReplaced'
  BY DEF Login, NewToken, IInv, TypeOK, SpentIsReplaced, TokensAreIssued, PhaseFits, InactiveIsIdle
<1>8. StoredIsAlive'
  BY DEF Login, NewToken, IInv, TypeOK, StoredIsAlive, TokensAreIssued
<1>9. NoTokensAfterLogout' /\ LoginKeepsTokens'
  BY DEF Login, NewToken, IInv, TypeOK, NoTokensAfterLogout, LoginKeepsTokens, InactiveIsIdle, VersionsFit
<1>10. NeverSpentTwice'
  BY DEF Login, NewToken, IInv, TypeOK, NeverSpentTwice, TokensAreIssued, PhaseFits, SpentIsReplaced
<1>11. QED
  BY <1>1, <1>2, <1>3, <1>4, <1>5, <1>6, <1>7, <1>8, <1>9, <1>10 DEF IInv

LEMMA LoadUserKeeps == ASSUME IInv, NEW r \in Requests, LoadUser(r) PROVE IInv'
<1>1. TypeOK'
  <2>1. idp' \in Providers /\ jwts' \subseteq 0..MaxLogouts /\ inactive' \in BOOLEAN /\ signedIn' \in BOOLEAN
    BY DEF LoadUser, Authenticate, Expired, IInv, TypeOK
  <2>2. issued' \in 0..MaxTokens /\ row' \in Rows
    BY DEF LoadUser, Authenticate, Expired, IInv, TypeOK, TokensAreIssued, AnswerIsFresh
  <2>3. alive' \subseteq 1..issued' /\ stale' \subseteq 1..issued' /\ exchanged' \subseteq 1..issued' /\ lost' \subseteq 1..issued'
    BY DEF LoadUser, Authenticate, Expired, IInv, TypeOK, TokensAreIssued
  <2>4. pc' \in [Actors -> Phases] /\ seen' \in [Actors -> Rows]
    BY DEF LoadUser, Authenticate, Expired, IInv, TypeOK, NoTokens
  <2>5. sv' \in [Requests -> 0..MaxLogouts] /\ renewal' \in [Requests -> 0..issued']
    BY DEF LoadUser, Authenticate, Expired, IInv, TypeOK
  <2>6. locked' \in {q \in Requests : pc'[q] \in InLock} \cup {Nobody}
    BY DEF LoadUser, Authenticate, Expired, IInv, TypeOK, PhaseFits
  <2>7. QED
    BY <2>1, <2>2, <2>3, <2>4, <2>5, <2>6 DEF TypeOK
<1>0. /\ pc[r] = "done" /\ r \in Actors
      /\ seen' = [seen EXCEPT ![r] = row]
      /\ \E p \in {"waiting", "serving"} : pc' = [pc EXCEPT ![r] = p]
      /\ UNCHANGED <<idp, row, alive, issued, exchanged, lost>>
  BY DEF LoadUser, Authenticate, Goto, provider, history, Actors
<1>2. TokensAreIssued'
  BY <1>0 DEF IInv, TypeOK, TokensAreIssued
<1>3. VersionsFit' /\ InactiveIsIdle'
  BY DEF LoadUser, Authenticate, Expired, IInv, TypeOK, VersionsFit, InactiveIsIdle
<1>4. PhaseFits'
  BY DEF LoadUser, Authenticate, Expired, IInv, TypeOK, PhaseFits, InactiveIsIdle, VersionsFit, TokensAreIssued, LoginKeepsTokens
<1>5. CleanupIsApart'
  BY DEF LoadUser, Authenticate, Expired, IInv, TypeOK, CleanupIsApart, InactiveIsIdle, TokensAreIssued, Apart, NoTokens
<1>6. AnswerIsFresh'
  BY DEF LoadUser, Authenticate, Expired, IInv, TypeOK, AnswerIsFresh, TokensAreIssued, PhaseFits, Lacks, NoTokens
<1>7. SpentIsReplaced'
  BY DEF LoadUser, Authenticate, Expired, IInv, TypeOK, SpentIsReplaced, TokensAreIssued, PhaseFits, InactiveIsIdle
<1>8. StoredIsAlive'
  BY <1>0 DEF IInv, TypeOK, StoredIsAlive
<1>9. NoTokensAfterLogout' /\ LoginKeepsTokens'
  BY DEF LoadUser, Authenticate, Expired, IInv, TypeOK, NoTokensAfterLogout, LoginKeepsTokens, InactiveIsIdle, VersionsFit
<1>10. NeverSpentTwice'
  BY DEF LoadUser, Authenticate, Expired, IInv, TypeOK, NeverSpentTwice, TokensAreIssued, PhaseFits, SpentIsReplaced
<1>11. QED
  BY <1>1, <1>2, <1>3, <1>4, <1>5, <1>6, <1>7, <1>8, <1>9, <1>10 DEF IInv

LEMMA StartRenewalKeeps == ASSUME IInv, NEW r \in Requests, StartRenewal(r) PROVE IInv'
<1>1. TypeOK'
  BY DEF StartRenewal, Expired, IInv, TypeOK
<1>2. TokensAreIssued'
  BY DEF StartRenewal, Expired, IInv, TypeOK, TokensAreIssued, NoTokens, PhaseFits
<1>3. VersionsFit' /\ InactiveIsIdle'
  BY DEF StartRenewal, Expired, IInv, TypeOK, VersionsFit, InactiveIsIdle
<1>4. PhaseFits'
  BY DEF StartRenewal, Expired, IInv, TypeOK, PhaseFits, InactiveIsIdle, VersionsFit, TokensAreIssued, LoginKeepsTokens
<1>5. CleanupIsApart'
  BY DEF StartRenewal, Expired, IInv, TypeOK, CleanupIsApart, InactiveIsIdle, TokensAreIssued, Apart, NoTokens
<1>6. AnswerIsFresh'
  BY DEF StartRenewal, Expired, IInv, TypeOK, AnswerIsFresh, TokensAreIssued, PhaseFits, Lacks, NoTokens
<1>7. SpentIsReplaced'
  BY DEF StartRenewal, Expired, IInv, TypeOK, SpentIsReplaced, TokensAreIssued, PhaseFits, InactiveIsIdle
<1>8. StoredIsAlive'
  BY DEF StartRenewal, Expired, IInv, TypeOK, StoredIsAlive, TokensAreIssued
<1>9. NoTokensAfterLogout' /\ LoginKeepsTokens'
  BY DEF StartRenewal, Expired, IInv, TypeOK, NoTokensAfterLogout, LoginKeepsTokens, InactiveIsIdle, VersionsFit
<1>10. NeverSpentTwice'
  <2>1. row.refresh \notin exchanged
    BY UnspentRow, ActiveUser DEF StartRenewal
  <2>2. QED
    BY <2>1 DEF StartRenewal, IInv, TypeOK, NeverSpentTwice
<1>11. QED
  BY <1>1, <1>2, <1>3, <1>4, <1>5, <1>6, <1>7, <1>8, <1>9, <1>10 DEF IInv

LEMMA RenewalNotNeededKeeps == ASSUME IInv, NEW r \in Requests, RenewalNotNeeded(r) PROVE IInv'
<1>1. TypeOK'
  <2>1. idp' \in Providers /\ jwts' \subseteq 0..MaxLogouts /\ inactive' \in BOOLEAN /\ signedIn' \in BOOLEAN
    BY DEF RenewalNotNeeded, Authenticate, IInv, TypeOK
  <2>2. issued' \in 0..MaxTokens /\ row' \in Rows
    BY DEF RenewalNotNeeded, Authenticate, IInv, TypeOK, TokensAreIssued, AnswerIsFresh
  <2>3. alive' \subseteq 1..issued' /\ stale' \subseteq 1..issued' /\ exchanged' \subseteq 1..issued' /\ lost' \subseteq 1..issued'
    BY DEF RenewalNotNeeded, Authenticate, IInv, TypeOK, TokensAreIssued
  <2>4. pc' \in [Actors -> Phases] /\ seen' \in [Actors -> Rows]
    BY DEF RenewalNotNeeded, Authenticate, IInv, TypeOK, NoTokens
  <2>5. sv' \in [Requests -> 0..MaxLogouts] /\ renewal' \in [Requests -> 0..issued']
    BY DEF RenewalNotNeeded, Authenticate, IInv, TypeOK
  <2>6. locked' \in {q \in Requests : pc'[q] \in InLock} \cup {Nobody}
    BY DEF RenewalNotNeeded, Authenticate, IInv, TypeOK, PhaseFits
  <2>7. QED
    BY <2>1, <2>2, <2>3, <2>4, <2>5, <2>6 DEF TypeOK
<1>2. TokensAreIssued'
  BY DEF RenewalNotNeeded, Authenticate, IInv, TypeOK, TokensAreIssued, NoTokens, PhaseFits
<1>3. VersionsFit' /\ InactiveIsIdle'
  BY DEF RenewalNotNeeded, Authenticate, IInv, TypeOK, VersionsFit, InactiveIsIdle
<1>4. PhaseFits'
  BY DEF RenewalNotNeeded, Authenticate, IInv, TypeOK, PhaseFits, InactiveIsIdle, VersionsFit, TokensAreIssued, LoginKeepsTokens
<1>5. CleanupIsApart'
  BY DEF RenewalNotNeeded, Authenticate, IInv, TypeOK, CleanupIsApart, InactiveIsIdle, TokensAreIssued, Apart, NoTokens
<1>6. AnswerIsFresh'
  BY DEF RenewalNotNeeded, Authenticate, IInv, TypeOK, AnswerIsFresh, TokensAreIssued, PhaseFits, Lacks, NoTokens
<1>7. SpentIsReplaced'
  BY DEF RenewalNotNeeded, Authenticate, IInv, TypeOK, SpentIsReplaced, TokensAreIssued, PhaseFits, InactiveIsIdle
<1>8. StoredIsAlive'
  BY DEF RenewalNotNeeded, Authenticate, IInv, TypeOK, StoredIsAlive, TokensAreIssued
<1>9. NoTokensAfterLogout' /\ LoginKeepsTokens'
  BY DEF RenewalNotNeeded, Authenticate, IInv, TypeOK, NoTokensAfterLogout, LoginKeepsTokens, InactiveIsIdle, VersionsFit
<1>10. NeverSpentTwice'
  BY DEF RenewalNotNeeded, Authenticate, IInv, TypeOK, NeverSpentTwice, TokensAreIssued, PhaseFits, SpentIsReplaced
<1>11. QED
  BY <1>1, <1>2, <1>3, <1>4, <1>5, <1>6, <1>7, <1>8, <1>9, <1>10 DEF IInv

LEMMA RenewalImpossibleKeeps ==
  ASSUME IInv, NEW r \in Requests, RenewalImpossible(r)
  PROVE  IInv'
<1>1. TypeOK'
  <2>1. idp' \in Providers /\ jwts' \subseteq 0..MaxLogouts /\ inactive' \in BOOLEAN /\ signedIn' \in BOOLEAN
    BY DEF RenewalImpossible, Return, IInv, TypeOK
  <2>2. issued' \in 0..MaxTokens /\ row' \in Rows
    BY DEF RenewalImpossible, Return, IInv, TypeOK, TokensAreIssued, AnswerIsFresh
  <2>3. alive' \subseteq 1..issued' /\ stale' \subseteq 1..issued' /\ exchanged' \subseteq 1..issued' /\ lost' \subseteq 1..issued'
    BY DEF RenewalImpossible, Return, IInv, TypeOK, TokensAreIssued
  <2>4. pc' \in [Actors -> Phases] /\ seen' \in [Actors -> Rows]
    BY DEF RenewalImpossible, Return, IInv, TypeOK, NoTokens
  <2>5. sv' \in [Requests -> 0..MaxLogouts] /\ renewal' \in [Requests -> 0..issued']
    BY DEF RenewalImpossible, Return, IInv, TypeOK
  <2>6. locked' \in {q \in Requests : pc'[q] \in InLock} \cup {Nobody}
    BY DEF RenewalImpossible, Return, IInv, TypeOK, PhaseFits
  <2>7. QED
    BY <2>1, <2>2, <2>3, <2>4, <2>5, <2>6 DEF TypeOK
<1>2. TokensAreIssued'
  BY DEF RenewalImpossible, Return, IInv, TypeOK, TokensAreIssued, NoTokens, PhaseFits
<1>3. VersionsFit' /\ InactiveIsIdle'
  BY DEF RenewalImpossible, Return, IInv, TypeOK, VersionsFit, InactiveIsIdle
<1>4. PhaseFits'
  BY DEF RenewalImpossible, Return, IInv, TypeOK, PhaseFits, InactiveIsIdle, VersionsFit, TokensAreIssued, LoginKeepsTokens
<1>5. CleanupIsApart'
  BY DEF RenewalImpossible, Return, IInv, TypeOK, CleanupIsApart, InactiveIsIdle, TokensAreIssued, Apart, NoTokens
<1>6. AnswerIsFresh'
  BY DEF RenewalImpossible, Return, IInv, TypeOK, AnswerIsFresh, TokensAreIssued, PhaseFits, Lacks, NoTokens
<1>7. SpentIsReplaced'
  BY DEF RenewalImpossible, Return, IInv, TypeOK, SpentIsReplaced, TokensAreIssued, PhaseFits, InactiveIsIdle
<1>8. StoredIsAlive'
  BY DEF RenewalImpossible, Return, IInv, TypeOK, StoredIsAlive, TokensAreIssued
<1>9. NoTokensAfterLogout' /\ LoginKeepsTokens'
  BY DEF RenewalImpossible, Return, IInv, TypeOK, NoTokensAfterLogout, LoginKeepsTokens, InactiveIsIdle, VersionsFit
<1>10. NeverSpentTwice'
  BY DEF RenewalImpossible, Return, IInv, TypeOK, NeverSpentTwice, TokensAreIssued, PhaseFits, SpentIsReplaced
<1>11. QED
  BY <1>1, <1>2, <1>3, <1>4, <1>5, <1>6, <1>7, <1>8, <1>9, <1>10 DEF IInv

LEMMA ProviderRenewsKeeps == ASSUME IInv, NEW r \in Requests, ProviderRenews(r) PROVE IInv'
<1>1. TypeOK'
  <2>1. idp' \in Providers /\ jwts' \subseteq 0..MaxLogouts /\ inactive' \in BOOLEAN /\ signedIn' \in BOOLEAN
    BY DEF ProviderRenews, Exchange, NewToken, IInv, TypeOK
  <2>2. issued' \in 0..MaxTokens /\ row' \in Rows
    BY DEF ProviderRenews, Exchange, NewToken, IInv, TypeOK, TokensAreIssued, AnswerIsFresh
  <2>3. alive' \subseteq 1..issued' /\ stale' \subseteq 1..issued' /\ exchanged' \subseteq 1..issued' /\ lost' \subseteq 1..issued'
    <3>1. issued \in Nat /\ issued + 1 \in Nat /\ issued + 1 \in 1..issued + 1
      BY TokenFacts
    <3>2. 1..issued \subseteq 1..issued + 1
      BY <3>1
    <3>3. seen[r].refresh \in 1..issued
      BY DEF ProviderRenews, Exchange, IInv, TypeOK
    <3>4. QED
      BY <3>1, <3>2, <3>3 DEF ProviderRenews, Exchange, NewToken, IInv, TypeOK
  <2>4. pc' \in [Actors -> Phases] /\ seen' \in [Actors -> Rows]
    BY DEF ProviderRenews, Exchange, NewToken, IInv, TypeOK, NoTokens
  <2>5. sv' \in [Requests -> 0..MaxLogouts] /\ renewal' \in [Requests -> 0..issued']
    BY DEF ProviderRenews, Exchange, NewToken, IInv, TypeOK
  <2>6. locked' \in {q \in Requests : pc'[q] \in InLock} \cup {Nobody}
    BY DEF ProviderRenews, Exchange, NewToken, IInv, TypeOK, PhaseFits
  <2>7. QED
    BY <2>1, <2>2, <2>3, <2>4, <2>5, <2>6 DEF TypeOK
<1>2. TokensAreIssued'
  <2>1. issued \in Nat /\ issued' = issued + 1 /\ UNCHANGED <<row, seen, idp, lost>>
    BY TokenFacts DEF ProviderRenews, Exchange, NewToken
  <2>2. 0..issued \subseteq 0..issued'
    BY <2>1
  <2>3. idp = "google" => exchanged' = {}
    BY DEF ProviderRenews, Exchange, IInv, TokensAreIssued
  <2>4. \A a \in Actors : pc'[a] = "done" => pc[a] = "done"
    BY DEF ProviderRenews, IInv, TypeOK
  <2>5. QED
    BY <2>1, <2>2, <2>3, <2>4 DEF IInv, TokensAreIssued
<1>3. VersionsFit' /\ InactiveIsIdle'
  BY DEF ProviderRenews, Exchange, NewToken, IInv, TypeOK, VersionsFit, InactiveIsIdle
<1>4. PhaseFits'
  BY DEF ProviderRenews, Exchange, NewToken, IInv, TypeOK, PhaseFits, InactiveIsIdle, VersionsFit, TokensAreIssued, LoginKeepsTokens
<1>5. CleanupIsApart'
  BY DEF ProviderRenews, Exchange, NewToken, IInv, TypeOK, CleanupIsApart, InactiveIsIdle, TokensAreIssued, Apart, NoTokens
<1>6. AnswerIsFresh'
  BY DEF ProviderRenews, Exchange, NewToken, IInv, TypeOK, AnswerIsFresh, TokensAreIssued, PhaseFits, Lacks, NoTokens
<1>7. SpentIsReplaced'
  BY DEF ProviderRenews, Exchange, NewToken, IInv, TypeOK, SpentIsReplaced, TokensAreIssued, PhaseFits, InactiveIsIdle
<1>8. StoredIsAlive'
  BY DEF ProviderRenews, Exchange, NewToken, IInv, TypeOK, StoredIsAlive, TokensAreIssued
<1>9. NoTokensAfterLogout' /\ LoginKeepsTokens'
  BY DEF ProviderRenews, Exchange, NewToken, IInv, TypeOK, NoTokensAfterLogout, LoginKeepsTokens, InactiveIsIdle, VersionsFit
<1>10. NeverSpentTwice'
  <2> SUFFICES ASSUME NEW a \in Actors, pc'[a] \in {"renewing", "rotating"}
               PROVE  seen[a].refresh \notin exchanged'
    BY DEF ProviderRenews, NeverSpentTwice
  <2>1. pc[r] = "renewing" /\ locked = r /\ seen[r].refresh \in 1..issued
    BY DEF ProviderRenews, Exchange, IInv, TypeOK, PhaseFits
  <2>2. a # r /\ pc[a] \in {"renewing", "rotating"}
    BY DEF ProviderRenews, IInv, TypeOK
  <2>3. a = "idle"
    BY <2>1, <2>2 DEF IInv, PhaseFits
  <2>4. Apart(seen[r], seen[a]) /\ seen[r].refresh # 0
    BY <2>1, <2>2, <2>3, ActiveUser, TokenFacts
  <2>5. seen[a].refresh \notin exchanged
    BY <2>2 DEF IInv, NeverSpentTwice
  <2>6. seen[a].refresh # seen[r].refresh
    BY <2>4, ApartRefresh
  <2>7. QED
    BY <2>5, <2>6 DEF ProviderRenews, Exchange
<1>11. QED
  BY <1>1, <1>2, <1>3, <1>4, <1>5, <1>6, <1>7, <1>8, <1>9, <1>10 DEF IInv

LEMMA RenewalFailsKeeps == ASSUME IInv, NEW r \in Requests, RenewalFails(r) PROVE IInv'
<1>1. TypeOK'
  <2>1. idp' \in Providers /\ jwts' \subseteq 0..MaxLogouts /\ inactive' \in BOOLEAN /\ signedIn' \in BOOLEAN
    BY DEF RenewalFails, ExchangeFails, Release, Return, IInv, TypeOK
  <2>2. issued' \in 0..MaxTokens /\ row' \in Rows
    BY DEF RenewalFails, ExchangeFails, Release, Return, IInv, TypeOK, TokensAreIssued, AnswerIsFresh
  <2>3. alive' \subseteq 1..issued' /\ stale' \subseteq 1..issued' /\ exchanged' \subseteq 1..issued' /\ lost' \subseteq 1..issued'
    BY DEF RenewalFails, ExchangeFails, Release, Return, IInv, TypeOK, TokensAreIssued
  <2>4. pc' \in [Actors -> Phases] /\ seen' \in [Actors -> Rows]
    BY DEF RenewalFails, ExchangeFails, Release, Return, IInv, TypeOK, NoTokens
  <2>5. sv' \in [Requests -> 0..MaxLogouts] /\ renewal' \in [Requests -> 0..issued']
    BY DEF RenewalFails, ExchangeFails, Release, Return, IInv, TypeOK
  <2>6. locked' \in {q \in Requests : pc'[q] \in InLock} \cup {Nobody}
    BY DEF RenewalFails, ExchangeFails, Release, Return, IInv, TypeOK, PhaseFits
  <2>7. QED
    BY <2>1, <2>2, <2>3, <2>4, <2>5, <2>6 DEF TypeOK
<1>2. TokensAreIssued'
  <2>1. idp = "google" => lost' = lost /\ exchanged' = exchanged
    BY DEF RenewalFails, ExchangeFails
  <2>2. issued' = issued /\ row' = row /\ idp' = idp
    BY DEF RenewalFails, ExchangeFails
  <2>3. exchanged' = exchanged
    BY DEF RenewalFails, ExchangeFails
  <2>4. \A b \in Actors : \/ seen'[b] = seen[b] /\ (pc'[b] = "done" => pc[b] = "done")
                          \/ seen'[b] = NoTokens
    BY DEF RenewalFails, Return, IInv, TypeOK
  <2>5. QED
    BY <2>1, <2>2, <2>3, <2>4, TokenFacts DEF IInv, TokensAreIssued, NoTokens
<1>3. VersionsFit' /\ InactiveIsIdle'
  BY DEF RenewalFails, ExchangeFails, Release, Return, IInv, TypeOK, VersionsFit, InactiveIsIdle
<1>4. PhaseFits'
  BY DEF RenewalFails, ExchangeFails, Release, Return, IInv, TypeOK, PhaseFits, InactiveIsIdle, VersionsFit, TokensAreIssued, LoginKeepsTokens
<1>5. CleanupIsApart'
  BY DEF RenewalFails, ExchangeFails, Release, Return, IInv, TypeOK, CleanupIsApart, InactiveIsIdle, TokensAreIssued, Apart, NoTokens
<1>6. AnswerIsFresh'
  BY DEF RenewalFails, ExchangeFails, Release, Return, IInv, TypeOK, AnswerIsFresh, TokensAreIssued, PhaseFits, Lacks, NoTokens
<1>7. SpentIsReplaced'
  BY DEF RenewalFails, ExchangeFails, Release, Return, IInv, TypeOK, SpentIsReplaced, TokensAreIssued, PhaseFits, InactiveIsIdle
<1>8. StoredIsAlive'
  BY DEF RenewalFails, ExchangeFails, Release, Return, IInv, TypeOK, StoredIsAlive, TokensAreIssued
<1>9. NoTokensAfterLogout' /\ LoginKeepsTokens'
  BY DEF RenewalFails, ExchangeFails, Release, Return, IInv, TypeOK, NoTokensAfterLogout, LoginKeepsTokens, InactiveIsIdle, VersionsFit
<1>10. NeverSpentTwice'
  BY DEF RenewalFails, ExchangeFails, Release, Return, IInv, TypeOK, NeverSpentTwice, TokensAreIssued, PhaseFits, SpentIsReplaced
<1>11. QED
  BY <1>1, <1>2, <1>3, <1>4, <1>5, <1>6, <1>7, <1>8, <1>9, <1>10 DEF IInv

LEMMA StoreGoogleKeeps ==
  ASSUME IInv, NEW r \in Requests, pc[r] = "renewed", idp = "google", StoreGoogleToken(r),
         Release(r), UNCHANGED sv, UNCHANGED <<idp, jwts, alive, stale, issued, signedIn, exchanged, lost>>
  PROVE  IInv'
<1>1. TypeOK'
  <2>1. idp' \in Providers /\ jwts' \subseteq 0..MaxLogouts /\ inactive' \in BOOLEAN /\ signedIn' \in BOOLEAN
    BY DEF StoreGoogleToken, Authenticate, Release, IInv, TypeOK
  <2>2. issued' \in 0..MaxTokens /\ row' \in Rows
    BY DEF StoreGoogleToken, Authenticate, Release, IInv, TypeOK, TokensAreIssued, AnswerIsFresh
  <2>3. alive' \subseteq 1..issued' /\ stale' \subseteq 1..issued' /\ exchanged' \subseteq 1..issued' /\ lost' \subseteq 1..issued'
    BY DEF StoreGoogleToken, Authenticate, Release, IInv, TypeOK, TokensAreIssued
  <2>4. pc' \in [Actors -> Phases] /\ seen' \in [Actors -> Rows]
    BY DEF StoreGoogleToken, Authenticate, Release, IInv, TypeOK, NoTokens
  <2>5. sv' \in [Requests -> 0..MaxLogouts] /\ renewal' \in [Requests -> 0..issued']
    BY DEF StoreGoogleToken, Authenticate, Release, IInv, TypeOK
  <2>6. locked' \in {q \in Requests : pc'[q] \in InLock} \cup {Nobody}
    BY DEF StoreGoogleToken, Authenticate, Release, IInv, TypeOK, PhaseFits
  <2>7. QED
    BY <2>1, <2>2, <2>3, <2>4, <2>5, <2>6 DEF TypeOK
<1>2. TokensAreIssued'
  BY DEF StoreGoogleToken, Authenticate, Release, IInv, TypeOK, TokensAreIssued, NoTokens, PhaseFits
<1>3. VersionsFit' /\ InactiveIsIdle'
  BY DEF StoreGoogleToken, Authenticate, Release, IInv, TypeOK, VersionsFit, InactiveIsIdle
<1>4. PhaseFits'
  BY DEF StoreGoogleToken, Authenticate, Release, IInv, TypeOK, PhaseFits, InactiveIsIdle, VersionsFit, TokensAreIssued, LoginKeepsTokens
<1>5. CleanupIsApart'
  BY DEF StoreGoogleToken, Authenticate, Release, IInv, TypeOK, CleanupIsApart, InactiveIsIdle, TokensAreIssued, Apart, NoTokens
<1>6. AnswerIsFresh'
  BY DEF StoreGoogleToken, Authenticate, Release, IInv, TypeOK, AnswerIsFresh, TokensAreIssued, PhaseFits, Lacks, NoTokens
<1>7. SpentIsReplaced'
  BY DEF StoreGoogleToken, Authenticate, Release, IInv, TypeOK, SpentIsReplaced, TokensAreIssued, PhaseFits, InactiveIsIdle
<1>8. StoredIsAlive'
  BY DEF StoreGoogleToken, Authenticate, Release, IInv, TypeOK, StoredIsAlive, TokensAreIssued
<1>9. NoTokensAfterLogout' /\ LoginKeepsTokens'
  <2>1. row'.access = renewal[r] /\ row'.refresh = row.refresh
    BY TokenFacts DEF StoreGoogleToken
  <2>2. QED
    BY <2>1 DEF IInv, NoTokensAfterLogout, LoginKeepsTokens, AnswerIsFresh
<1>10. NeverSpentTwice'
  BY DEF StoreGoogleToken, Authenticate, Release, IInv, TypeOK, NeverSpentTwice, TokensAreIssued, PhaseFits, SpentIsReplaced
<1>11. QED
  BY <1>1, <1>2, <1>3, <1>4, <1>5, <1>6, <1>7, <1>8, <1>9, <1>10 DEF IInv

LEMMA StoreGitHubKeeps ==
  ASSUME IInv, NEW r \in Requests, pc[r] = "renewed", idp = "github", row.access # 0, StoreGitHubPair(r),
         Release(r), UNCHANGED sv, UNCHANGED <<idp, jwts, alive, stale, issued, signedIn, exchanged, lost>>
  PROVE  IInv'
<1>0. /\ row'.access = renewal[r] /\ row'.refresh = renewal[r] /\ row' \in Rows
      /\ renewal[r] \in alive \ exchanged /\ renewal[r] \in 1..issued
      /\ issued' \in 0..MaxTokens /\ ~inactive /\ signedIn
  <2>1. /\ renewal[r] \in alive \ exchanged /\ renewal[r] \in 1..issued
        /\ renewal[r] \in 0..MaxTokens /\ issued' \in 0..MaxTokens
    BY DEF IInv, TypeOK, AnswerIsFresh
  <2>2. ~inactive /\ signedIn
    BY DEF IInv, InactiveIsIdle, NoTokensAfterLogout
  <2>3. row' = [row EXCEPT !.access = renewal[r], !.refresh = renewal[r]] /\ row \in Rows
    BY DEF StoreGitHubPair, IInv, TypeOK
  <2>4. QED
    BY <2>1, <2>2, <2>3, RowFacts
<1>1. TypeOK'
  <2>1. idp' \in Providers /\ jwts' \subseteq 0..MaxLogouts /\ inactive' \in BOOLEAN /\ signedIn' \in BOOLEAN
    BY DEF StoreGitHubPair, Authenticate, Release, IInv, TypeOK
  <2>2. issued' \in 0..MaxTokens /\ row' \in Rows
    BY <1>0
  <2>3. alive' \subseteq 1..issued' /\ stale' \subseteq 1..issued' /\ exchanged' \subseteq 1..issued' /\ lost' \subseteq 1..issued'
    BY DEF StoreGitHubPair, Authenticate, Release, IInv, TypeOK, TokensAreIssued
  <2>4. pc' \in [Actors -> Phases] /\ seen' \in [Actors -> Rows]
    <3>1. seen' \in {[seen EXCEPT ![r] = row'], [seen EXCEPT ![r] = NoTokens]}
      BY DEF StoreGitHubPair, Authenticate
    <3>2. NoTokens \in Rows
      BY DEF NoTokens
    <3>3. pc' \in [Actors -> Phases]
      BY DEF StoreGitHubPair, Authenticate, IInv, TypeOK
    <3>4. QED
      BY <1>0, <3>1, <3>2, <3>3 DEF IInv, TypeOK
  <2>5. sv' \in [Requests -> 0..MaxLogouts] /\ renewal' \in [Requests -> 0..issued']
    BY DEF StoreGitHubPair, Authenticate, Release, IInv, TypeOK
  <2>6. locked' \in {q \in Requests : pc'[q] \in InLock} \cup {Nobody}
    BY DEF StoreGitHubPair, Authenticate, Release, IInv, TypeOK, PhaseFits
  <2>7. QED
    BY <2>1, <2>2, <2>3, <2>4, <2>5, <2>6 DEF TypeOK
<1>2. TokensAreIssued'
  <2>1. /\ seen' \in {[seen EXCEPT ![r] = row'], [seen EXCEPT ![r] = NoTokens]}
        /\ pc'[r] = "done" => seen' = [seen EXCEPT ![r] = NoTokens]
    BY DEF StoreGitHubPair, Authenticate, IInv, TypeOK
  <2>2. \A a \in Actors \ {r} : pc'[a] = pc[a]
    BY DEF StoreGitHubPair, Authenticate, IInv, TypeOK
  <2>3. NoTokens.access = 0 /\ NoTokens.refresh = 0
    BY DEF NoTokens
  <2>4. {row'.access, row'.refresh} \subseteq 0..issued /\ row'.access = row'.refresh /\ 0 \in 0..issued
    BY <1>0, TokenFacts
  <2>5. QED
    BY <2>1, <2>2, <2>3, <2>4 DEF IInv, TypeOK, TokensAreIssued
<1>3. VersionsFit' /\ InactiveIsIdle'
  BY DEF StoreGitHubPair, Authenticate, Release, IInv, TypeOK, VersionsFit, InactiveIsIdle
<1>4. PhaseFits'
  BY DEF StoreGitHubPair, Authenticate, Release, IInv, TypeOK, PhaseFits, InactiveIsIdle, VersionsFit, TokensAreIssued, LoginKeepsTokens
<1>5. CleanupIsApart'
  BY DEF StoreGitHubPair, Authenticate, Release, IInv, TypeOK, CleanupIsApart, InactiveIsIdle, TokensAreIssued, Apart, NoTokens
<1>6. AnswerIsFresh'
  BY DEF StoreGitHubPair, Authenticate, Release, IInv, TypeOK, AnswerIsFresh, TokensAreIssued, PhaseFits, Lacks, NoTokens
<1>7. SpentIsReplaced'
  BY <1>0 DEF SpentIsReplaced
<1>8. StoredIsAlive'
  BY <1>0 DEF StoredIsAlive
<1>9. NoTokensAfterLogout' /\ LoginKeepsTokens'
  BY <1>0 DEF NoTokensAfterLogout, LoginKeepsTokens
<1>10. NeverSpentTwice'
  BY DEF StoreGitHubPair, Authenticate, Release, IInv, TypeOK, NeverSpentTwice, TokensAreIssued, PhaseFits, SpentIsReplaced
<1>11. QED
  BY <1>1, <1>2, <1>3, <1>4, <1>5, <1>6, <1>7, <1>8, <1>9, <1>10 DEF IInv

LEMMA StoreLoggedOutKeeps ==
  ASSUME IInv, NEW r \in Requests, pc[r] = "renewed", idp = "github", row.access = 0, Return(r),
         Release(r), UNCHANGED <<row, inactive>>, UNCHANGED <<idp, jwts, alive, stale, issued, signedIn, exchanged, lost>>
  PROVE  IInv'
<1>1. TypeOK'
  <2>1. idp' \in Providers /\ jwts' \subseteq 0..MaxLogouts /\ inactive' \in BOOLEAN /\ signedIn' \in BOOLEAN
    BY DEF Return, Release, IInv, TypeOK
  <2>2. issued' \in 0..MaxTokens /\ row' \in Rows
    BY DEF Return, Release, IInv, TypeOK, TokensAreIssued, AnswerIsFresh
  <2>3. alive' \subseteq 1..issued' /\ stale' \subseteq 1..issued' /\ exchanged' \subseteq 1..issued' /\ lost' \subseteq 1..issued'
    BY DEF Return, Release, IInv, TypeOK, TokensAreIssued
  <2>4. pc' \in [Actors -> Phases] /\ seen' \in [Actors -> Rows]
    BY DEF Return, Release, IInv, TypeOK, NoTokens
  <2>5. sv' \in [Requests -> 0..MaxLogouts] /\ renewal' \in [Requests -> 0..issued']
    BY DEF Return, Release, IInv, TypeOK
  <2>6. locked' \in {q \in Requests : pc'[q] \in InLock} \cup {Nobody}
    BY DEF Return, Release, IInv, TypeOK, PhaseFits
  <2>7. QED
    BY <2>1, <2>2, <2>3, <2>4, <2>5, <2>6 DEF TypeOK
<1>2. TokensAreIssued'
  BY DEF Return, Release, IInv, TypeOK, TokensAreIssued, NoTokens, PhaseFits
<1>3. VersionsFit' /\ InactiveIsIdle'
  BY DEF Return, Release, IInv, TypeOK, VersionsFit, InactiveIsIdle
<1>4. PhaseFits'
  BY DEF Return, Release, IInv, TypeOK, PhaseFits, InactiveIsIdle, VersionsFit, TokensAreIssued, LoginKeepsTokens
<1>5. CleanupIsApart'
  BY DEF Return, Release, IInv, TypeOK, CleanupIsApart, InactiveIsIdle, TokensAreIssued, Apart, NoTokens
<1>6. AnswerIsFresh'
  BY DEF Return, Release, IInv, TypeOK, AnswerIsFresh, TokensAreIssued, PhaseFits, Lacks, NoTokens
<1>7. SpentIsReplaced'
  BY DEF Return, Release, IInv, TypeOK, SpentIsReplaced, TokensAreIssued, PhaseFits, InactiveIsIdle
<1>8. StoredIsAlive'
  BY DEF Return, Release, IInv, TypeOK, StoredIsAlive, TokensAreIssued
<1>9. NoTokensAfterLogout' /\ LoginKeepsTokens'
  BY DEF Return, Release, IInv, TypeOK, NoTokensAfterLogout, LoginKeepsTokens, InactiveIsIdle, VersionsFit
<1>10. NeverSpentTwice'
  BY DEF Return, Release, IInv, TypeOK, NeverSpentTwice, TokensAreIssued, PhaseFits, SpentIsReplaced
<1>11. QED
  BY <1>1, <1>2, <1>3, <1>4, <1>5, <1>6, <1>7, <1>8, <1>9, <1>10 DEF IInv

LEMMA StoreKeeps == ASSUME IInv, NEW r \in Requests, Store(r) PROVE IInv'
<1>1. idp \in {"github", "google"}
  BY DEF IInv, TypeOK
<1>2. QED
  BY <1>1, StoreGoogleKeeps, StoreGitHubKeeps, StoreLoggedOutKeeps DEF Store

LEMMA ServedKeeps == ASSUME IInv, NEW r \in Requests, Served(r) PROVE IInv'
<1>1. TypeOK'
  <2>1. idp' \in Providers /\ jwts' \subseteq 0..MaxLogouts /\ inactive' \in BOOLEAN /\ signedIn' \in BOOLEAN
    BY DEF Served, Return, IInv, TypeOK
  <2>2. issued' \in 0..MaxTokens /\ row' \in Rows
    BY DEF Served, Return, IInv, TypeOK, TokensAreIssued, AnswerIsFresh
  <2>3. alive' \subseteq 1..issued' /\ stale' \subseteq 1..issued' /\ exchanged' \subseteq 1..issued' /\ lost' \subseteq 1..issued'
    BY DEF Served, Return, IInv, TypeOK, TokensAreIssued
  <2>4. pc' \in [Actors -> Phases] /\ seen' \in [Actors -> Rows]
    BY DEF Served, Return, IInv, TypeOK, NoTokens
  <2>5. sv' \in [Requests -> 0..MaxLogouts] /\ renewal' \in [Requests -> 0..issued']
    BY DEF Served, Return, IInv, TypeOK
  <2>6. locked' \in {q \in Requests : pc'[q] \in InLock} \cup {Nobody}
    BY DEF Served, Return, IInv, TypeOK, PhaseFits
  <2>7. QED
    BY <2>1, <2>2, <2>3, <2>4, <2>5, <2>6 DEF TypeOK
<1>2. TokensAreIssued'
  BY DEF Served, Return, IInv, TypeOK, TokensAreIssued, NoTokens, PhaseFits
<1>3. VersionsFit' /\ InactiveIsIdle'
  BY DEF Served, Return, IInv, TypeOK, VersionsFit, InactiveIsIdle
<1>4. PhaseFits'
  BY DEF Served, Return, IInv, TypeOK, PhaseFits, InactiveIsIdle, VersionsFit, TokensAreIssued, LoginKeepsTokens
<1>5. CleanupIsApart'
  BY DEF Served, Return, IInv, TypeOK, CleanupIsApart, InactiveIsIdle, TokensAreIssued, Apart, NoTokens
<1>6. AnswerIsFresh'
  BY DEF Served, Return, IInv, TypeOK, AnswerIsFresh, TokensAreIssued, PhaseFits, Lacks, NoTokens
<1>7. SpentIsReplaced'
  BY DEF Served, Return, IInv, TypeOK, SpentIsReplaced, TokensAreIssued, PhaseFits, InactiveIsIdle
<1>8. StoredIsAlive'
  BY DEF Served, Return, IInv, TypeOK, StoredIsAlive, TokensAreIssued
<1>9. NoTokensAfterLogout' /\ LoginKeepsTokens'
  BY DEF Served, Return, IInv, TypeOK, NoTokensAfterLogout, LoginKeepsTokens, InactiveIsIdle, VersionsFit
<1>10. NeverSpentTwice'
  BY DEF Served, Return, IInv, TypeOK, NeverSpentTwice, TokensAreIssued, PhaseFits, SpentIsReplaced
<1>11. QED
  BY <1>1, <1>2, <1>3, <1>4, <1>5, <1>6, <1>7, <1>8, <1>9, <1>10 DEF IInv

LEMMA LoadLogoutKeeps == ASSUME IInv, NEW r \in Requests, LoadLogout(r) PROVE IInv'
<1>1. TypeOK'
  BY DEF LoadLogout, IInv, TypeOK
<1>2. TokensAreIssued'
  BY DEF LoadLogout, IInv, TypeOK, TokensAreIssued, NoTokens, PhaseFits
<1>3. VersionsFit' /\ InactiveIsIdle'
  BY DEF LoadLogout, IInv, TypeOK, VersionsFit, InactiveIsIdle
<1>4. PhaseFits'
  BY DEF LoadLogout, IInv, TypeOK, PhaseFits, InactiveIsIdle, VersionsFit, TokensAreIssued, LoginKeepsTokens
<1>5. CleanupIsApart'
  BY DEF LoadLogout, IInv, TypeOK, CleanupIsApart, InactiveIsIdle, TokensAreIssued, Apart, NoTokens
<1>6. AnswerIsFresh'
  BY DEF LoadLogout, IInv, TypeOK, AnswerIsFresh, TokensAreIssued, PhaseFits, Lacks, NoTokens
<1>7. SpentIsReplaced'
  BY DEF LoadLogout, IInv, TypeOK, SpentIsReplaced, TokensAreIssued, PhaseFits, InactiveIsIdle
<1>8. StoredIsAlive'
  BY DEF LoadLogout, IInv, TypeOK, StoredIsAlive, TokensAreIssued
<1>9. NoTokensAfterLogout' /\ LoginKeepsTokens'
  BY DEF LoadLogout, IInv, TypeOK, NoTokensAfterLogout, LoginKeepsTokens, InactiveIsIdle, VersionsFit
<1>10. NeverSpentTwice'
  BY DEF LoadLogout, IInv, TypeOK, NeverSpentTwice, TokensAreIssued, PhaseFits, SpentIsReplaced
<1>11. QED
  BY <1>1, <1>2, <1>3, <1>4, <1>5, <1>6, <1>7, <1>8, <1>9, <1>10 DEF IInv

\* After a logout the row has no tokens, as the object has those of the row or the row
\* has none.
LEMMA ClearKeeps ==
  ASSUME IInv, NEW r \in Requests, NEW w, pc[r] # "done", Clear(r, w),
         w.access = 0 => row.access = 0, w.refresh = 0 => row.refresh = 0,
         UNCHANGED <<idp, jwts, inactive, alive, stale, issued, exchanged, lost>>
  PROVE  IInv'
<1>0. row' = [access |-> 0, refresh |-> 0, version |-> row.version + 1]
  BY DEF Clear
<1>1. TypeOK'
  <2>1. idp' \in Providers /\ jwts' \subseteq 0..MaxLogouts /\ inactive' \in BOOLEAN /\ signedIn' \in BOOLEAN
    BY <1>0 DEF Clear, Release, Return, IInv, TypeOK
  <2>2. issued' \in 0..MaxTokens /\ row' \in Rows
    BY <1>0 DEF Clear, Release, Return, IInv, TypeOK, TokensAreIssued, AnswerIsFresh
  <2>3. alive' \subseteq 1..issued' /\ stale' \subseteq 1..issued' /\ exchanged' \subseteq 1..issued' /\ lost' \subseteq 1..issued'
    BY <1>0 DEF Clear, Release, Return, IInv, TypeOK, TokensAreIssued
  <2>4. pc' \in [Actors -> Phases] /\ seen' \in [Actors -> Rows]
    BY <1>0 DEF Clear, Release, Return, IInv, TypeOK, NoTokens
  <2>5. sv' \in [Requests -> 0..MaxLogouts] /\ renewal' \in [Requests -> 0..issued']
    BY <1>0 DEF Clear, Release, Return, IInv, TypeOK
  <2>6. locked' \in {q \in Requests : pc'[q] \in InLock} \cup {Nobody}
    BY <1>0 DEF Clear, Release, Return, IInv, TypeOK, PhaseFits
  <2>7. QED
    BY <2>1, <2>2, <2>3, <2>4, <2>5, <2>6 DEF TypeOK
<1>2. TokensAreIssued'
  BY <1>0 DEF Clear, Release, Return, IInv, TypeOK, TokensAreIssued, NoTokens, PhaseFits
<1>3. VersionsFit' /\ InactiveIsIdle'
  BY <1>0 DEF Clear, Release, Return, IInv, TypeOK, VersionsFit, InactiveIsIdle
<1>4. PhaseFits'
  BY <1>0 DEF Clear, Release, Return, IInv, TypeOK, PhaseFits, InactiveIsIdle, VersionsFit, TokensAreIssued, LoginKeepsTokens
<1>5. CleanupIsApart'
  BY <1>0 DEF Clear, Release, Return, IInv, TypeOK, CleanupIsApart, InactiveIsIdle, TokensAreIssued, Apart, NoTokens
<1>6. AnswerIsFresh'
  BY <1>0 DEF Clear, Release, Return, IInv, TypeOK, AnswerIsFresh, TokensAreIssued, PhaseFits, Lacks, NoTokens
<1>7. SpentIsReplaced'
  BY <1>0 DEF Clear, Release, Return, IInv, TypeOK, SpentIsReplaced, TokensAreIssued, PhaseFits, InactiveIsIdle
<1>8. StoredIsAlive'
  BY <1>0 DEF Clear, Release, Return, IInv, TypeOK, StoredIsAlive, TokensAreIssued
<1>9. NoTokensAfterLogout' /\ LoginKeepsTokens'
  BY <1>0 DEF Clear, Release, Return, IInv, TypeOK, NoTokensAfterLogout, LoginKeepsTokens, InactiveIsIdle, VersionsFit
<1>10. NeverSpentTwice'
  BY <1>0 DEF Clear, Release, Return, IInv, TypeOK, NeverSpentTwice, TokensAreIssued, PhaseFits, SpentIsReplaced
<1>11. QED
  BY <1>1, <1>2, <1>3, <1>4, <1>5, <1>6, <1>7, <1>8, <1>9, <1>10 DEF IInv

LEMMA LogoutLinesUpKeeps ==
  ASSUME IInv, NEW r \in Requests, pc[r] = "ending", NEW phase \in {"queued", "revoking"}, Goto(r, phase),
         phase = "queued" => idp = "github", UNCHANGED <<seen, locked>>,
         UNCHANGED <<idp, row, jwts, inactive, alive, stale, issued, sv, renewal, signedIn, exchanged, lost>>
  PROVE  IInv'
<1>1. TypeOK'
  BY DEF IInv, TypeOK
<1>2. TokensAreIssued'
  BY DEF IInv, TypeOK, TokensAreIssued, NoTokens, PhaseFits
<1>3. VersionsFit' /\ InactiveIsIdle'
  BY DEF IInv, TypeOK, VersionsFit, InactiveIsIdle
<1>4. PhaseFits'
  BY DEF IInv, TypeOK, PhaseFits, InactiveIsIdle, VersionsFit, TokensAreIssued, LoginKeepsTokens
<1>5. CleanupIsApart'
  BY DEF IInv, TypeOK, CleanupIsApart, InactiveIsIdle, TokensAreIssued, Apart, NoTokens
<1>6. AnswerIsFresh'
  BY DEF IInv, TypeOK, AnswerIsFresh, TokensAreIssued, PhaseFits, Lacks, NoTokens
<1>7. SpentIsReplaced'
  BY DEF IInv, TypeOK, SpentIsReplaced, TokensAreIssued, PhaseFits, InactiveIsIdle
<1>8. StoredIsAlive'
  BY DEF IInv, TypeOK, StoredIsAlive, TokensAreIssued
<1>9. NoTokensAfterLogout' /\ LoginKeepsTokens'
  BY DEF IInv, TypeOK, NoTokensAfterLogout, LoginKeepsTokens, InactiveIsIdle, VersionsFit
<1>10. NeverSpentTwice'
  BY DEF IInv, TypeOK, NeverSpentTwice, TokensAreIssued, PhaseFits, SpentIsReplaced
<1>11. QED
  BY <1>1, <1>2, <1>3, <1>4, <1>5, <1>6, <1>7, <1>8, <1>9, <1>10 DEF IInv

\* A logout is of a user who has tokens when it is loaded.
LEMMA StartLogoutKeeps == ASSUME IInv, NEW r \in Requests, StartLogout(r) PROVE IInv'
<1>1. pc[r] = "ending" /\ seen[r].access # 0 /\ seen[r].refresh # 0
  BY DEF StartLogout, IInv, PhaseFits
<1>2. CASE Revocation(seen[r]) = "rotating"
  <2>1. idp = "github"
    BY <1>2 DEF Revocation
  <2>2. QED
    BY <1>1, <1>2, <2>1, LogoutLinesUpKeeps DEF StartLogout
<1>3. CASE Revocation(seen[r]) = "revoking"
  BY <1>1, <1>3, LogoutLinesUpKeeps DEF StartLogout
<1>4. QED
  BY <1>1, <1>2, <1>3 DEF Revocation

LEMMA LogoutGoesOnKeeps ==
  ASSUME IInv, NEW r \in Requests, pc[r] = "queued", locked = Nobody, NEW phase \in {"rotating", "revoking"},
         row.access # 0, row.refresh # 0, seen' = [seen EXCEPT ![r] = row], Goto(r, phase),
         locked' = IF phase = "rotating" THEN r ELSE Nobody,
         UNCHANGED <<idp, row, jwts, inactive, alive, stale, issued, sv, renewal, signedIn, exchanged, lost>>
  PROVE  IInv'
<1>1. TypeOK'
  BY DEF IInv, TypeOK
<1>2. TokensAreIssued'
  BY DEF IInv, TypeOK, TokensAreIssued, NoTokens, PhaseFits
<1>3. VersionsFit' /\ InactiveIsIdle'
  BY DEF IInv, TypeOK, VersionsFit, InactiveIsIdle
<1>4. PhaseFits'
  BY DEF IInv, TypeOK, PhaseFits, InactiveIsIdle, VersionsFit, TokensAreIssued, LoginKeepsTokens
<1>5. CleanupIsApart'
  BY DEF IInv, TypeOK, CleanupIsApart, InactiveIsIdle, TokensAreIssued, Apart, NoTokens
<1>6. AnswerIsFresh'
  BY DEF IInv, TypeOK, AnswerIsFresh, TokensAreIssued, PhaseFits, Lacks, NoTokens
<1>7. SpentIsReplaced'
  BY DEF IInv, TypeOK, SpentIsReplaced, TokensAreIssued, PhaseFits, InactiveIsIdle
<1>8. StoredIsAlive'
  BY DEF IInv, TypeOK, StoredIsAlive, TokensAreIssued
<1>9. NoTokensAfterLogout' /\ LoginKeepsTokens'
  BY DEF IInv, TypeOK, NoTokensAfterLogout, LoginKeepsTokens, InactiveIsIdle, VersionsFit
<1>10. NeverSpentTwice'
  <2>1. row.refresh \notin exchanged
    BY UnspentRow, ActiveUser
  <2>2. QED
    BY <2>1 DEF IInv, TypeOK, NeverSpentTwice
<1>11. QED
  BY <1>1, <1>2, <1>3, <1>4, <1>5, <1>6, <1>7, <1>8, <1>9, <1>10 DEF IInv

LEMMA LogoutInLockKeeps == ASSUME IInv, NEW r \in Requests, LogoutInLock(r) PROVE IInv'
<1>1. pc[r] = "queued" /\ locked = Nobody /\ idp = "github" /\ row.access = row.refresh
  BY DEF LogoutInLock, IInv, PhaseFits, TokensAreIssued
<1>2. CASE Revocation(row) = "clearing"
  BY <1>1, <1>2, ClearKeeps DEF LogoutInLock
<1>3. CASE Revocation(row) # "clearing"
  <2>1. row.access # 0 /\ row.refresh # 0 /\ Revocation(row) \in {"rotating", "revoking"}
    BY <1>1, <1>3 DEF Revocation
  <2>2. /\ seen' = [seen EXCEPT ![r] = row] /\ Goto(r, Revocation(row))
        /\ locked' = IF Revocation(row) = "rotating" THEN r ELSE Nobody
        /\ UNCHANGED <<idp, row, jwts, inactive, alive, stale, issued, sv, renewal, signedIn,
                       exchanged, lost>>
    BY <1>3 DEF LogoutInLock
  <2>3. QED
    BY <1>1, <2>1, <2>2, LogoutGoesOnKeeps
<1>4. QED
  BY <1>2, <1>3

LEMMA ClearAtLogoutKeeps == ASSUME IInv, NEW r \in Requests, ClearAtLogout(r) PROVE IInv'
BY ClearKeeps DEF ClearAtLogout, IInv, PhaseFits

LEMMA RotateKeeps == ASSUME IInv, NEW a \in Actors, Rotate(a) PROVE IInv'
<1>1. TypeOK'
  BY DEF Rotate, IInv, TypeOK
<1>2. TokensAreIssued'
  BY DEF Rotate, IInv, TypeOK, TokensAreIssued, NoTokens, PhaseFits
<1>3. VersionsFit' /\ InactiveIsIdle'
  BY DEF Rotate, IInv, TypeOK, VersionsFit, InactiveIsIdle
<1>4. PhaseFits'
  BY DEF Rotate, IInv, TypeOK, PhaseFits, InactiveIsIdle, VersionsFit, TokensAreIssued, LoginKeepsTokens
<1>5. CleanupIsApart'
  BY DEF Rotate, IInv, TypeOK, CleanupIsApart, InactiveIsIdle, TokensAreIssued, Apart, NoTokens
<1>6. AnswerIsFresh'
  BY DEF Rotate, IInv, TypeOK, AnswerIsFresh, TokensAreIssued, PhaseFits, Lacks, NoTokens
<1>7. SpentIsReplaced'
  <2> SUFFICES ASSUME row.refresh \in exchanged'
               PROVE  SpentIsReplaced'
    BY DEF Rotate, SpentIsReplaced
  <2>1. CASE a = "idle"
    <3>1. CASE inactive
      BY <2>1, <3>1 DEF Rotate, IInv, TypeOK, SpentIsReplaced
    <3>2. CASE ~inactive
      <4>1. Apart(row, seen["idle"]) /\ seen["idle"].refresh # 0
        BY <2>1, <3>2 DEF Rotate, IInv, TypeOK, CleanupIsApart
      <4>2. row.refresh \in exchanged
        BY <2>1, <4>1, ApartRefresh DEF Rotate
      <4>3. QED
        BY <2>1, <3>2, <4>2 DEF Rotate, IInv, TypeOK, SpentIsReplaced
    <3>3. QED
      BY <3>1, <3>2
  <2>2. CASE a \in Requests
    <3>1. locked = a /\ ~inactive
      BY <2>2, ActiveUser DEF Rotate, IInv, PhaseFits
    <3>2. row.refresh \notin exchanged
      BY <2>2, <3>1 DEF Rotate, IInv, SpentIsReplaced
    <3>3. row.refresh = seen[a].refresh
      BY <3>2 DEF Rotate
    <3>4. QED
      BY <2>2, <3>1, <3>3 DEF Rotate, IInv, TypeOK, SpentIsReplaced
  <2>3. QED
    BY <2>1, <2>2
<1>8. StoredIsAlive'
  BY DEF Rotate, IInv, TypeOK, StoredIsAlive, TokensAreIssued
<1>9. NoTokensAfterLogout' /\ LoginKeepsTokens'
  BY DEF Rotate, IInv, TypeOK, NoTokensAfterLogout, LoginKeepsTokens, InactiveIsIdle, VersionsFit
<1>10. NeverSpentTwice'
  <2> SUFFICES ASSUME NEW b \in Actors, pc'[b] \in {"renewing", "rotating"}
               PROVE  seen[b].refresh \notin exchanged'
    BY DEF Rotate, NeverSpentTwice
  <2>1. b # a /\ pc[b] \in {"renewing", "rotating"} /\ seen[a].refresh \in 1..issued
    BY DEF Rotate, IInv, TypeOK
  <2>2. CASE a \in Requests /\ b \in Requests
    BY <2>1, <2>2 DEF Rotate, IInv, PhaseFits
  <2>3. CASE a = "idle" \/ b = "idle"
    <3>1. PICK r \in Requests : r \in {a, b}
      BY <2>1, <2>3
    <3>2. Apart(seen[r], seen["idle"])
      BY <2>1, <2>3, <3>1, ActiveUser DEF Rotate
    <3>3. seen[a].refresh # seen[b].refresh
      BY <2>1, <2>3, <3>1, <3>2, TokenFacts, ApartRefresh
    <3>4. seen[b].refresh \notin exchanged
      BY <2>1 DEF IInv, NeverSpentTwice
    <3>5. QED
      BY <3>3, <3>4 DEF Rotate
  <2>4. QED
    BY <2>2, <2>3
<1>11. QED
  BY <1>1, <1>2, <1>3, <1>4, <1>5, <1>6, <1>7, <1>8, <1>9, <1>10 DEF IInv

LEMMA RotationRefusedKeeps == ASSUME IInv, NEW a \in Actors, RotationRefused(a) PROVE IInv'
<1>1. TypeOK'
  BY DEF RotationRefused, IInv, TypeOK
<1>2. TokensAreIssued'
  BY DEF RotationRefused, IInv, TypeOK, TokensAreIssued, NoTokens, PhaseFits
<1>3. VersionsFit' /\ InactiveIsIdle'
  BY DEF RotationRefused, IInv, TypeOK, VersionsFit, InactiveIsIdle
<1>4. PhaseFits'
  BY DEF RotationRefused, IInv, TypeOK, PhaseFits, InactiveIsIdle, VersionsFit, TokensAreIssued, LoginKeepsTokens
<1>5. CleanupIsApart'
  BY DEF RotationRefused, IInv, TypeOK, CleanupIsApart, InactiveIsIdle, TokensAreIssued, Apart, NoTokens
<1>6. AnswerIsFresh'
  BY DEF RotationRefused, IInv, TypeOK, AnswerIsFresh, TokensAreIssued, PhaseFits, Lacks, NoTokens
<1>7. SpentIsReplaced'
  BY DEF RotationRefused, IInv, TypeOK, SpentIsReplaced, TokensAreIssued, PhaseFits, InactiveIsIdle
<1>8. StoredIsAlive'
  BY DEF RotationRefused, IInv, TypeOK, StoredIsAlive, TokensAreIssued
<1>9. NoTokensAfterLogout' /\ LoginKeepsTokens'
  BY DEF RotationRefused, IInv, TypeOK, NoTokensAfterLogout, LoginKeepsTokens, InactiveIsIdle, VersionsFit
<1>10. NeverSpentTwice'
  BY DEF RotationRefused, IInv, TypeOK, NeverSpentTwice, TokensAreIssued, PhaseFits, SpentIsReplaced
<1>11. QED
  BY <1>1, <1>2, <1>3, <1>4, <1>5, <1>6, <1>7, <1>8, <1>9, <1>10 DEF IInv

LEMMA RevokeKeeps == ASSUME IInv, NEW a \in Actors, Revoke(a) PROVE IInv'
<1>1. TypeOK'
  BY DEF Revoke, IInv, TypeOK
<1>2. TokensAreIssued'
  BY DEF Revoke, IInv, TypeOK, TokensAreIssued, NoTokens, PhaseFits
<1>3. VersionsFit' /\ InactiveIsIdle'
  BY DEF Revoke, IInv, TypeOK, VersionsFit, InactiveIsIdle
<1>4. PhaseFits'
  BY DEF Revoke, IInv, TypeOK, PhaseFits, InactiveIsIdle, VersionsFit, TokensAreIssued, LoginKeepsTokens
<1>5. CleanupIsApart'
  BY DEF Revoke, IInv, TypeOK, CleanupIsApart, InactiveIsIdle, TokensAreIssued, Apart, NoTokens
<1>6. AnswerIsFresh'
  BY DEF Revoke, IInv, TypeOK, AnswerIsFresh, TokensAreIssued, PhaseFits, Lacks, NoTokens
<1>7. SpentIsReplaced'
  BY DEF Revoke, IInv, TypeOK, SpentIsReplaced, TokensAreIssued, PhaseFits, InactiveIsIdle
<1>8. StoredIsAlive'
  BY DEF Revoke, IInv, TypeOK, StoredIsAlive, TokensAreIssued
<1>9. NoTokensAfterLogout' /\ LoginKeepsTokens'
  BY DEF Revoke, IInv, TypeOK, NoTokensAfterLogout, LoginKeepsTokens, InactiveIsIdle, VersionsFit
<1>10. NeverSpentTwice'
  BY DEF Revoke, IInv, TypeOK, NeverSpentTwice, TokensAreIssued, PhaseFits, SpentIsReplaced
<1>11. QED
  BY <1>1, <1>2, <1>3, <1>4, <1>5, <1>6, <1>7, <1>8, <1>9, <1>10 DEF IInv

LEMMA RevocationFailsKeeps == ASSUME IInv, NEW a \in Actors, RevocationFails(a) PROVE IInv'
<1>1. TypeOK'
  <2>1. idp' \in Providers /\ jwts' \subseteq 0..MaxLogouts /\ inactive' \in BOOLEAN /\ signedIn' \in BOOLEAN
    BY DEF RevocationFails, ExchangeFails, Return, IInv, TypeOK
  <2>2. issued' \in 0..MaxTokens /\ row' \in Rows
    BY DEF RevocationFails, ExchangeFails, Return, IInv, TypeOK, TokensAreIssued, AnswerIsFresh
  <2>3. alive' \subseteq 1..issued' /\ stale' \subseteq 1..issued' /\ exchanged' \subseteq 1..issued' /\ lost' \subseteq 1..issued'
    <3>1. /\ alive' \subseteq alive /\ stale' = stale /\ issued' = issued /\ exchanged' = exchanged
          /\ lost' = lost \/ (seen[a].refresh \in alive /\ lost' = lost \cup {seen[a].refresh})
      BY DEF RevocationFails, ExchangeFails
    <3>2. QED
      BY <3>1 DEF IInv, TypeOK
  <2>4. pc' \in [Actors -> Phases] /\ seen' \in [Actors -> Rows]
    BY DEF RevocationFails, ExchangeFails, Return, IInv, TypeOK, NoTokens
  <2>5. sv' \in [Requests -> 0..MaxLogouts] /\ renewal' \in [Requests -> 0..issued']
    BY DEF RevocationFails, ExchangeFails, Return, IInv, TypeOK
  <2>6. locked' \in {q \in Requests : pc'[q] \in InLock} \cup {Nobody}
    BY DEF RevocationFails, ExchangeFails, Return, IInv, TypeOK, PhaseFits
  <2>7. QED
    BY <2>1, <2>2, <2>3, <2>4, <2>5, <2>6 DEF TypeOK
<1>2. TokensAreIssued'
  <2>1. idp = "google" => lost' = lost /\ exchanged' = exchanged
    BY DEF RevocationFails, ExchangeFails
  <2>2. issued' = issued /\ row' = row /\ idp' = idp
    BY DEF RevocationFails, ExchangeFails
  <2>3. \A b \in Actors : \/ seen'[b] = seen[b] /\ (pc'[b] = "done" => pc[b] = "done")
                          \/ seen'[b] = NoTokens
    BY DEF RevocationFails, Return, IInv, TypeOK
  <2>4. QED
    BY <2>1, <2>2, <2>3, TokenFacts DEF IInv, TokensAreIssued, NoTokens
<1>3. VersionsFit' /\ InactiveIsIdle'
  BY DEF RevocationFails, ExchangeFails, Return, IInv, TypeOK, VersionsFit, InactiveIsIdle
<1>4. PhaseFits'
  BY DEF RevocationFails, ExchangeFails, Return, IInv, TypeOK, PhaseFits, InactiveIsIdle, VersionsFit, TokensAreIssued, LoginKeepsTokens
<1>5. CleanupIsApart'
  BY DEF RevocationFails, ExchangeFails, Return, IInv, TypeOK, CleanupIsApart, InactiveIsIdle, TokensAreIssued, Apart, NoTokens
<1>6. AnswerIsFresh'
  BY DEF RevocationFails, ExchangeFails, Return, IInv, TypeOK, AnswerIsFresh, TokensAreIssued, PhaseFits, Lacks, NoTokens
<1>7. SpentIsReplaced'
  BY DEF RevocationFails, ExchangeFails, Return, IInv, TypeOK, SpentIsReplaced, TokensAreIssued, PhaseFits, InactiveIsIdle
<1>8. StoredIsAlive'
  BY DEF RevocationFails, ExchangeFails, Return, IInv, TypeOK, StoredIsAlive, TokensAreIssued
<1>9. NoTokensAfterLogout' /\ LoginKeepsTokens'
  BY DEF RevocationFails, ExchangeFails, Return, IInv, TypeOK, NoTokensAfterLogout, LoginKeepsTokens, InactiveIsIdle, VersionsFit
<1>10. NeverSpentTwice'
  BY DEF RevocationFails, ExchangeFails, Return, IInv, TypeOK, NeverSpentTwice, TokensAreIssued, PhaseFits, SpentIsReplaced
<1>11. QED
  BY <1>1, <1>2, <1>3, <1>4, <1>5, <1>6, <1>7, <1>8, <1>9, <1>10 DEF IInv

LEMMA StartIdleKeeps == ASSUME IInv, StartIdle PROVE IInv'
<1>1. TypeOK'
  BY DEF StartIdle, Revocation, Expired, IInv, TypeOK
<1>2. TokensAreIssued'
  BY DEF StartIdle, Revocation, Expired, IInv, TypeOK, TokensAreIssued, NoTokens, PhaseFits
<1>3. VersionsFit' /\ InactiveIsIdle'
  BY DEF StartIdle, Revocation, Expired, IInv, TypeOK, VersionsFit, InactiveIsIdle
<1>4. PhaseFits'
  BY DEF StartIdle, Revocation, Expired, IInv, TypeOK, PhaseFits, InactiveIsIdle, VersionsFit, TokensAreIssued, LoginKeepsTokens
<1>5. CleanupIsApart'
  BY DEF StartIdle, Revocation, Expired, IInv, TypeOK, CleanupIsApart, InactiveIsIdle, TokensAreIssued, Apart, NoTokens
<1>6. AnswerIsFresh'
  BY DEF StartIdle, Revocation, Expired, IInv, TypeOK, AnswerIsFresh, TokensAreIssued, PhaseFits, Lacks, NoTokens
<1>7. SpentIsReplaced'
  BY DEF StartIdle, Revocation, Expired, IInv, TypeOK, SpentIsReplaced, TokensAreIssued, PhaseFits, InactiveIsIdle
<1>8. StoredIsAlive'
  BY DEF StartIdle, Revocation, Expired, IInv, TypeOK, StoredIsAlive, TokensAreIssued
<1>9. NoTokensAfterLogout' /\ LoginKeepsTokens'
  BY DEF StartIdle, Revocation, Expired, IInv, TypeOK, NoTokensAfterLogout, LoginKeepsTokens, InactiveIsIdle, VersionsFit
<1>10. NeverSpentTwice'
  <2>1. locked = Nobody
    BY DEF StartIdle, IInv, TypeOK, InactiveIsIdle
  <2>2. row.refresh \notin exchanged
    BY <2>1, UnspentRow DEF StartIdle
  <2>3. QED
    BY <2>2 DEF StartIdle, IInv, TypeOK, NeverSpentTwice
<1>11. QED
  BY <1>1, <1>2, <1>3, <1>4, <1>5, <1>6, <1>7, <1>8, <1>9, <1>10 DEF IInv

LEMMA ClearIfIdleKeeps == ASSUME IInv, ClearIfIdle PROVE IInv'
<1>0. row.access = seen["idle"].access => row'.access = 0 /\ row'.refresh = 0
  BY TokenFacts DEF ClearIfIdle
<1>1. TypeOK'
  <2>1. idp' \in Providers /\ jwts' \subseteq 0..MaxLogouts /\ inactive' \in BOOLEAN /\ signedIn' \in BOOLEAN
    BY DEF ClearIfIdle, Return, IInv, TypeOK
  <2>2. issued' \in 0..MaxTokens /\ row' \in Rows
    <3>1. 0 \in 0..MaxTokens /\ row \in Rows /\ issued \in 0..MaxTokens
      BY TokenFacts
    <3>2. QED
      BY <3>1, RowFacts DEF ClearIfIdle
  <2>3. alive' \subseteq 1..issued' /\ stale' \subseteq 1..issued' /\ exchanged' \subseteq 1..issued' /\ lost' \subseteq 1..issued'
    BY DEF ClearIfIdle, Return, IInv, TypeOK, TokensAreIssued
  <2>4. pc' \in [Actors -> Phases] /\ seen' \in [Actors -> Rows]
    BY DEF ClearIfIdle, Return, IInv, TypeOK, NoTokens
  <2>5. sv' \in [Requests -> 0..MaxLogouts] /\ renewal' \in [Requests -> 0..issued']
    BY DEF ClearIfIdle, Return, IInv, TypeOK
  <2>6. locked' \in {q \in Requests : pc'[q] \in InLock} \cup {Nobody}
    BY DEF ClearIfIdle, Return, IInv, TypeOK, PhaseFits
  <2>7. QED
    BY <2>1, <2>2, <2>3, <2>4, <2>5, <2>6 DEF TypeOK
<1>2. TokensAreIssued'
  BY DEF ClearIfIdle, Return, IInv, TypeOK, TokensAreIssued, NoTokens, PhaseFits
<1>3. VersionsFit' /\ InactiveIsIdle'
  BY DEF ClearIfIdle, Return, IInv, TypeOK, VersionsFit, InactiveIsIdle
<1>4. PhaseFits'
  BY DEF ClearIfIdle, Return, IInv, TypeOK, PhaseFits, InactiveIsIdle, VersionsFit, TokensAreIssued, LoginKeepsTokens
<1>5. CleanupIsApart'
  BY DEF ClearIfIdle, Return, IInv, TypeOK, CleanupIsApart, InactiveIsIdle, TokensAreIssued, Apart, NoTokens
<1>6. AnswerIsFresh'
  BY DEF ClearIfIdle, Return, IInv, TypeOK, AnswerIsFresh, TokensAreIssued, PhaseFits, Lacks, NoTokens
<1>7. SpentIsReplaced'
  <2>1. CASE row.access = seen["idle"].access
    <3>1. row'.refresh = 0
      BY <1>0, <2>1
    <3>2. QED
      BY <3>1 DEF ClearIfIdle, IInv, TypeOK, SpentIsReplaced
  <2>2. CASE row.access # seen["idle"].access
    <3>1. row' = row /\ ~inactive
      BY <2>2 DEF ClearIfIdle, IInv, CleanupIsApart
    <3>2. QED
      BY <3>1 DEF ClearIfIdle, Return, IInv, TypeOK, SpentIsReplaced
  <2>3. QED
    BY <2>1, <2>2
<1>8. StoredIsAlive'
  <2>1. CASE row.access = seen["idle"].access
    BY <1>0, <2>1 DEF StoredIsAlive
  <2>2. CASE row.access # seen["idle"].access
    <3>1. row' = row /\ ~inactive /\ Apart(row, seen["idle"])
      BY <2>2 DEF ClearIfIdle, IInv, CleanupIsApart
    <3>2. row.refresh # 0 => seen["idle"].refresh # row.refresh
      BY <3>1 DEF Apart
    <3>3. QED
      BY <3>1, <3>2 DEF ClearIfIdle, Return, IInv, TypeOK, StoredIsAlive
  <2>3. QED
    BY <2>1, <2>2
<1>9. NoTokensAfterLogout' /\ LoginKeepsTokens'
  <2>1. CASE row.access = seen["idle"].access
    <3>1. row'.access = 0 /\ row'.refresh = 0
      BY <1>0, <2>1
    <3>2. ~signedIn
      BY <2>1 DEF ClearIfIdle, IInv, InactiveIsIdle, LoginKeepsTokens, CleanupIsApart, Apart
    <3>3. QED
      BY <3>1, <3>2 DEF ClearIfIdle, NoTokensAfterLogout, LoginKeepsTokens
  <2>2. CASE row.access # seen["idle"].access
    BY <2>2 DEF ClearIfIdle, IInv, NoTokensAfterLogout, LoginKeepsTokens
  <2>3. QED
    BY <2>1, <2>2
<1>10. NeverSpentTwice'
  BY DEF ClearIfIdle, Return, IInv, TypeOK, NeverSpentTwice, TokensAreIssued, PhaseFits, SpentIsReplaced
<1>11. QED
  BY <1>1, <1>2, <1>3, <1>4, <1>5, <1>6, <1>7, <1>8, <1>9, <1>10 DEF IInv

LEMMA ExpireKeeps == ASSUME IInv, Expire PROVE IInv'
<1>1. TypeOK'
  <2>1. idp' \in Providers /\ jwts' \subseteq 0..MaxLogouts /\ inactive' \in BOOLEAN /\ signedIn' \in BOOLEAN
    BY DEF Expire, Expired, IInv, TypeOK
  <2>2. issued' \in 0..MaxTokens /\ row' \in Rows
    BY DEF Expire, Expired, IInv, TypeOK, TokensAreIssued, AnswerIsFresh
  <2>3. alive' \subseteq 1..issued' /\ stale' \subseteq 1..issued' /\ exchanged' \subseteq 1..issued' /\ lost' \subseteq 1..issued'
    <3>1. row.access \in 1..issued
      BY TokenFacts DEF Expire, Expired
    <3>2. QED
      BY <3>1 DEF Expire, IInv, TypeOK
  <2>4. pc' \in [Actors -> Phases] /\ seen' \in [Actors -> Rows]
    BY DEF Expire, Expired, IInv, TypeOK, NoTokens
  <2>5. sv' \in [Requests -> 0..MaxLogouts] /\ renewal' \in [Requests -> 0..issued']
    BY DEF Expire, Expired, IInv, TypeOK
  <2>6. locked' \in {q \in Requests : pc'[q] \in InLock} \cup {Nobody}
    BY DEF Expire, Expired, IInv, TypeOK, PhaseFits
  <2>7. QED
    BY <2>1, <2>2, <2>3, <2>4, <2>5, <2>6 DEF TypeOK
<1>2. TokensAreIssued'
  BY DEF Expire, Expired, IInv, TypeOK, TokensAreIssued, NoTokens, PhaseFits
<1>3. VersionsFit' /\ InactiveIsIdle'
  BY DEF Expire, Expired, IInv, TypeOK, VersionsFit, InactiveIsIdle
<1>4. PhaseFits'
  BY DEF Expire, Expired, IInv, TypeOK, PhaseFits, InactiveIsIdle, VersionsFit, TokensAreIssued, LoginKeepsTokens
<1>5. CleanupIsApart'
  BY DEF Expire, Expired, IInv, TypeOK, CleanupIsApart, InactiveIsIdle, TokensAreIssued, Apart, NoTokens
<1>6. AnswerIsFresh'
  BY DEF Expire, Expired, IInv, TypeOK, AnswerIsFresh, TokensAreIssued, PhaseFits, Lacks, NoTokens
<1>7. SpentIsReplaced'
  BY DEF Expire, Expired, IInv, TypeOK, SpentIsReplaced, TokensAreIssued, PhaseFits, InactiveIsIdle
<1>8. StoredIsAlive'
  BY DEF Expire, Expired, IInv, TypeOK, StoredIsAlive, TokensAreIssued
<1>9. NoTokensAfterLogout' /\ LoginKeepsTokens'
  BY DEF Expire, Expired, IInv, TypeOK, NoTokensAfterLogout, LoginKeepsTokens, InactiveIsIdle, VersionsFit
<1>10. NeverSpentTwice'
  BY DEF Expire, Expired, IInv, TypeOK, NeverSpentTwice, TokensAreIssued, PhaseFits, SpentIsReplaced
<1>11. QED
  BY <1>1, <1>2, <1>3, <1>4, <1>5, <1>6, <1>7, <1>8, <1>9, <1>10 DEF IInv

LEMMA WeekKeeps == ASSUME IInv, Week PROVE IInv'
<1>1. TypeOK'
  BY DEF Week, IInv, TypeOK
<1>2. TokensAreIssued'
  BY DEF Week, IInv, TypeOK, TokensAreIssued, NoTokens, PhaseFits
<1>3. VersionsFit' /\ InactiveIsIdle'
  BY DEF Week, IInv, TypeOK, VersionsFit, InactiveIsIdle
<1>4. PhaseFits'
  BY DEF Week, IInv, TypeOK, PhaseFits, InactiveIsIdle, VersionsFit, TokensAreIssued, LoginKeepsTokens
<1>5. CleanupIsApart'
  BY DEF Week, IInv, TypeOK, CleanupIsApart, InactiveIsIdle, TokensAreIssued, Apart, NoTokens
<1>6. AnswerIsFresh'
  BY DEF Week, IInv, TypeOK, AnswerIsFresh, TokensAreIssued, PhaseFits, Lacks, NoTokens
<1>7. SpentIsReplaced'
  BY DEF Week, IInv, TypeOK, SpentIsReplaced, TokensAreIssued, PhaseFits, InactiveIsIdle
<1>8. StoredIsAlive'
  BY DEF Week, IInv, TypeOK, StoredIsAlive, TokensAreIssued
<1>9. NoTokensAfterLogout' /\ LoginKeepsTokens'
  BY DEF Week, IInv, TypeOK, NoTokensAfterLogout, LoginKeepsTokens, InactiveIsIdle, VersionsFit
<1>10. NeverSpentTwice'
  BY DEF Week, IInv, TypeOK, NeverSpentTwice, TokensAreIssued, PhaseFits, SpentIsReplaced
<1>11. QED
  BY <1>1, <1>2, <1>3, <1>4, <1>5, <1>6, <1>7, <1>8, <1>9, <1>10 DEF IInv

LEMMA StutterKeeps == ASSUME IInv, UNCHANGED vars PROVE IInv'
<1>1. TypeOK' /\ TokensAreIssued' /\ VersionsFit' /\ InactiveIsIdle'
  BY DEF IInv, vars, TypeOK, TokensAreIssued, VersionsFit, InactiveIsIdle
<1>2. PhaseFits' /\ CleanupIsApart' /\ AnswerIsFresh' /\ SpentIsReplaced'
  BY DEF IInv, vars, PhaseFits, CleanupIsApart, Apart, AnswerIsFresh, Lacks, SpentIsReplaced
<1>3. StoredIsAlive' /\ NoTokensAfterLogout' /\ LoginKeepsTokens' /\ NeverSpentTwice'
  BY DEF IInv, vars, StoredIsAlive, NoTokensAfterLogout, LoginKeepsTokens, NeverSpentTwice
<1>4. QED
  BY <1>1, <1>2, <1>3 DEF IInv

LEMMA InitHolds == Init => IInv
<1> SUFFICES ASSUME Init PROVE IInv
  OBVIOUS
<1>1. NoTokens \in Rows /\ NoTokens.access = 0 /\ NoTokens.refresh = 0 /\ NoTokens.version = 0
  BY DEF NoTokens
<1>2. TypeOK
  <2>1. row \in Rows /\ seen \in [Actors -> Rows] /\ pc \in [Actors -> Phases]
    BY <1>1 DEF Init
  <2>2. /\ sv \in [Requests -> 0..MaxLogouts] /\ renewal \in [Requests -> 0..issued]
        /\ issued \in 0..MaxTokens
    BY DEF Init
  <2>3. /\ idp \in Providers /\ inactive \in BOOLEAN /\ signedIn \in BOOLEAN /\ locked = Nobody
        /\ jwts = {} /\ alive = {} /\ stale = {} /\ exchanged = {} /\ lost = {}
    BY DEF Init
  <2>4. QED
    BY <2>1, <2>2, <2>3 DEF TypeOK
<1>3. TokensAreIssued /\ VersionsFit /\ InactiveIsIdle /\ PhaseFits
  BY <1>1 DEF Init, TokensAreIssued, VersionsFit, InactiveIsIdle, PhaseFits
<1>4. CleanupIsApart /\ AnswerIsFresh /\ SpentIsReplaced /\ StoredIsAlive
  BY <1>1 DEF Init, CleanupIsApart, AnswerIsFresh, SpentIsReplaced, StoredIsAlive
<1>5. NoTokensAfterLogout /\ LoginKeepsTokens /\ NeverSpentTwice
  BY <1>1 DEF Init, NoTokensAfterLogout, LoginKeepsTokens, NeverSpentTwice
<1>6. QED
  BY <1>2, <1>3, <1>4, <1>5 DEF IInv

LEMMA StepKeeps == ASSUME IInv, [Next]_vars PROVE IInv'
<1>1. CASE Login
  BY <1>1, LoginKeeps
<1>2. ASSUME NEW r \in Requests, Authentication(r) PROVE IInv'
  BY <1>2, LoadUserKeeps, StartRenewalKeeps, RenewalNotNeededKeeps, RenewalImpossibleKeeps,
     ProviderRenewsKeeps, RenewalFailsKeeps, StoreKeeps, ServedKeeps DEF Authentication
<1>3. ASSUME NEW r \in Requests, Logout(r) PROVE IInv'
  BY <1>3, LoadLogoutKeeps, StartLogoutKeeps, LogoutInLockKeeps, ClearAtLogoutKeeps DEF Logout
<1>4. ASSUME NEW a \in Actors, Rotate(a) \/ RotationRefused(a) \/ Revoke(a) \/ RevocationFails(a)
      PROVE  IInv'
  BY <1>4, RotateKeeps, RotationRefusedKeeps, RevokeKeeps, RevocationFailsKeeps
<1>5. CASE StartIdle \/ ClearIfIdle \/ Expire \/ Week
  BY <1>5, StartIdleKeeps, ClearIfIdleKeeps, ExpireKeeps, WeekKeeps
<1>6. CASE UNCHANGED vars
  BY <1>6, StutterKeeps
<1>7. QED
  BY <1>1, <1>2, <1>3, <1>4, <1>5, <1>6 DEF Next

-----------------------------------------------------------------------------
(* Pairs that are spent have expired *)

\* A pair that GitHub is about to spend has expired.
LEMMA SpentToken ==
  ASSUME IInv, SpentIsExpired, idp = "github",
         NEW a \in Actors, pc[a] \in {"renewing", "rotating"}, seen[a].refresh \in alive
  PROVE  seen[a].refresh \in stale
<1>1. seen[a].access = seen[a].refresh /\ seen[a].refresh \in 1..issued
  BY DEF IInv, TypeOK, TokensAreIssued
<1>2. issued \in Nat
  BY DEF IInv, TypeOK
<1>3. QED
  BY <1>1, <1>2 DEF SpentIsExpired, Expired

\* The call to GitHub, or its loss, moves one pair from those that work.
LEMMA CallKeepsSpent ==
  ASSUME IInv, SpentIsExpired,
         NEW a \in Actors, pc[a] \in {"renewing", "rotating"},
         Exchange(seen[a].refresh) \/ ExchangeFails(seen[a].refresh),
         \A b \in Actors : pc'[b] \in {"renewing", "rotating"} => pc'[b] = pc[b] /\ seen'[b] = seen[b]
  PROVE  SpentIsExpired'
<1>1. stale' = stale /\ issued \in Nat
  BY DEF Exchange, ExchangeFails, IInv, TypeOK
<1>2. \A b \in Actors : pc'[b] \in {"renewing", "rotating"} => Expired(seen[b])'
  BY <1>1 DEF SpentIsExpired, Expired
<1>3. CASE idp = "github" /\ seen[a].refresh \in alive
  <2>1. seen[a].refresh \in stale
    BY <1>3, SpentToken
  <2>2. /\ exchanged' \cup lost' \subseteq exchanged \cup lost \cup {seen[a].refresh}
        /\ alive' \subseteq (alive \ (exchanged' \cup lost')) \cup {NewToken}
    BY <1>3 DEF Exchange, ExchangeFails, SpentIsExpired
  <2>3. NewToken \notin 1..issued
    BY <1>1 DEF NewToken
  <2>4. stale \subseteq 1..issued /\ exchanged' \cup lost' \subseteq stale
    BY <2>1, <2>2 DEF SpentIsExpired, IInv, TypeOK
  <2>5. alive' \intersect (exchanged' \cup lost') = {}
    BY <2>2, <2>3, <2>4
  <2>6. QED
    BY <1>1, <1>2, <2>4, <2>5 DEF SpentIsExpired
<1>4. CASE ~(idp = "github" /\ seen[a].refresh \in alive)
  <2>1. alive' = alive /\ exchanged' = exchanged /\ lost' = lost
    BY <1>4 DEF Exchange, ExchangeFails
  <2>2. QED
    BY <1>1, <1>2, <2>1 DEF SpentIsExpired
<1>5. QED
  BY <1>3, <1>4

\* Everything else spends nothing, and begins a call only with an expired pair.
LEMMA OthersKeepSpent ==
  ASSUME IInv, SpentIsExpired,
         exchanged' = exchanged, lost' = lost, stale \subseteq stale',
         alive' \subseteq alive \cup {NewToken},
         \A b \in Actors : pc'[b] \in {"renewing", "rotating"} =>
           \/ pc'[b] = pc[b] /\ seen'[b] = seen[b]
           \/ Expired(seen'[b])
  PROVE  SpentIsExpired'
<1>1. issued \in Nat /\ exchanged \cup lost \subseteq 1..issued
  BY DEF IInv, TypeOK
<1>2. NewToken \notin exchanged \cup lost
  BY <1>1 DEF NewToken
<1>3. alive' \intersect (exchanged' \cup lost') = {}
  BY <1>2 DEF SpentIsExpired
<1>4. QED
  BY <1>3 DEF SpentIsExpired, Expired

LEMMA SpentStep == ASSUME IInv, SpentIsExpired, [Next]_vars PROVE SpentIsExpired'
<1>1. /\ pc \in [Actors -> Phases] /\ seen \in [Actors -> Rows]
      /\ \A r \in Requests : r \in Actors /\ r # "idle"
  BY DEF IInv, TypeOK
<1>2. CASE Login \/ Expire \/ Week \/ UNCHANGED vars
  <2>1. stale \subseteq stale' /\ alive' \subseteq alive \cup {NewToken}
    BY <1>2 DEF Login, Expire, Week, vars, IInv, TypeOK
  <2>2. pc' = pc /\ seen' = seen /\ exchanged' = exchanged /\ lost' = lost
    BY <1>2 DEF Login, Expire, Week, vars
  <2>3. QED
    BY <2>1, <2>2, OthersKeepSpent
<1>3. ASSUME NEW r \in Requests,
             \/ LoadUser(r) \/ RenewalNotNeeded(r) \/ RenewalImpossible(r) \/ Store(r)
             \/ Served(r) \/ LoadLogout(r) \/ ClearAtLogout(r)
      PROVE  SpentIsExpired'
  <2>1. exchanged' = exchanged /\ lost' = lost /\ stale' = stale /\ alive' = alive
    BY <1>3 DEF LoadUser, RenewalNotNeeded, RenewalImpossible, Store, Served, LoadLogout,
                ClearAtLogout
  <2>2. \A b \in Actors : pc'[b] \in {"renewing", "rotating"} => pc'[b] = pc[b] /\ seen'[b] = seen[b]
    BY <1>1, <1>3 DEF LoadUser, RenewalNotNeeded, RenewalImpossible, Store, StoreGoogleToken,
       StoreGitHubPair, Served, LoadLogout, ClearAtLogout, Clear, Return, Authenticate
  <2>3. QED
    BY <2>1, <2>2, OthersKeepSpent
<1>4. ASSUME NEW r \in Requests, StartRenewal(r) PROVE SpentIsExpired'
  <2>1. exchanged' = exchanged /\ lost' = lost /\ stale' = stale /\ alive' = alive
    BY <1>4 DEF StartRenewal
  <2>2. \A b \in Actors : pc'[b] \in {"renewing", "rotating"} =>
          (pc'[b] = pc[b] /\ seen'[b] = seen[b]) \/ Expired(seen'[b])
    BY <1>1, <1>4 DEF StartRenewal
  <2>3. QED
    BY <2>1, <2>2, OthersKeepSpent
<1>5. ASSUME NEW r \in Requests, StartLogout(r) \/ LogoutInLock(r) PROVE SpentIsExpired'
  <2>1. exchanged' = exchanged /\ lost' = lost /\ stale' = stale /\ alive' = alive
    BY <1>5 DEF StartLogout, LogoutInLock
  <2>2. \A b \in Actors : pc'[b] \in {"renewing", "rotating"} =>
          (pc'[b] = pc[b] /\ seen'[b] = seen[b]) \/ Expired(seen'[b])
    BY <1>1, <1>5 DEF StartLogout, LogoutInLock, Revocation, Clear, Return
  <2>3. QED
    BY <2>1, <2>2, OthersKeepSpent
<1>6. CASE StartIdle \/ ClearIfIdle
  <2>1. exchanged' = exchanged /\ lost' = lost /\ stale' = stale /\ alive' = alive
    BY <1>6 DEF StartIdle, ClearIfIdle
  <2>2. \A b \in Actors : pc'[b] \in {"renewing", "rotating"} =>
          (pc'[b] = pc[b] /\ seen'[b] = seen[b]) \/ Expired(seen'[b])
    BY <1>1, <1>6 DEF StartIdle, ClearIfIdle, Revocation, Return
  <2>3. QED
    BY <2>1, <2>2, OthersKeepSpent
<1>7. ASSUME NEW r \in Requests, ProviderRenews(r) \/ RenewalFails(r) PROVE SpentIsExpired'
  <2>1. \A b \in Actors : pc'[b] \in {"renewing", "rotating"} => pc'[b] = pc[b] /\ seen'[b] = seen[b]
    BY <1>1, <1>7 DEF ProviderRenews, RenewalFails, Return
  <2>2. /\ pc[r] \in {"renewing", "rotating"}
        /\ Exchange(seen[r].refresh) \/ ExchangeFails(seen[r].refresh)
    BY <1>7 DEF ProviderRenews, RenewalFails
  <2>3. QED
    BY <1>1, <2>1, <2>2, CallKeepsSpent
<1>8. ASSUME NEW a \in Actors, RotationRefused(a) \/ Revoke(a) PROVE SpentIsExpired'
  <2>1. exchanged' = exchanged /\ lost' = lost /\ stale' = stale /\ alive' \subseteq alive
    BY <1>8 DEF RotationRefused, Revoke
  <2>2. \A b \in Actors : pc'[b] \in {"renewing", "rotating"} => pc'[b] = pc[b] /\ seen'[b] = seen[b]
    BY <1>1, <1>8 DEF RotationRefused, Revoke
  <2>3. QED
    BY <2>1, <2>2, OthersKeepSpent
<1>9. ASSUME NEW a \in Actors, Rotate(a) PROVE SpentIsExpired'
  <2>1. idp = "github" /\ seen[a].refresh \in stale
    <3>1. idp = "github"
      BY <1>9 DEF Rotate, IInv, PhaseFits
    <3>2. QED
      BY <1>9, <3>1, SpentToken DEF Rotate
  <2>2. /\ exchanged' = exchanged \cup {seen[a].refresh} /\ lost' = lost /\ stale' = stale
        /\ alive' = alive \ {seen[a].refresh}
    BY <1>9 DEF Rotate
  <2>3. \A b \in Actors : pc'[b] \in {"renewing", "rotating"} => pc'[b] = pc[b] /\ seen'[b] = seen[b]
    BY <1>1, <1>9 DEF Rotate
  <2>4. QED
    BY <2>1, <2>2, <2>3 DEF SpentIsExpired, Expired
<1>10. ASSUME NEW a \in Actors, RevocationFails(a) PROVE SpentIsExpired'
  <2>1. \A b \in Actors : pc'[b] \in {"renewing", "rotating"} => pc'[b] = pc[b] /\ seen'[b] = seen[b]
    BY <1>1, <1>10 DEF RevocationFails, Return
  <2>2. CASE pc[a] = "rotating"
    BY <1>10, <2>1, <2>2, CallKeepsSpent DEF RevocationFails
  <2>3. CASE pc[a] # "rotating"
    <3>1. exchanged' = exchanged /\ lost' = lost /\ stale' = stale /\ alive' = alive
      BY <1>10, <2>3 DEF RevocationFails
    <3>2. QED
      BY <2>1, <3>1, OthersKeepSpent
  <2>4. QED
    BY <2>2, <2>3
<1>11. QED
  BY <1>2, <1>3, <1>4, <1>5, <1>6, <1>7, <1>8, <1>9, <1>10 DEF Next, Authentication, Logout

-----------------------------------------------------------------------------
(* The theorems *)

\* Consistent: after the logout of a GitHub user no answer that was on its way puts
\* a provider token back (token_refresh_service.py:155), and none of GitHub's refresh
\* tokens that was answered is sent again, by a request, a logout or the cleanup of
\* the other process (refresh_locks), with the invariant that makes both inductive.
THEOREM Invariance == Spec => []Consistent
<1>1. Init => Consistent
  BY InitHolds DEF Consistent, SpentIsExpired, Init
<1>2. Consistent /\ [Next]_vars => Consistent'
  BY StepKeeps, SpentStep DEF Consistent
<1>3. QED
  BY <1>1, <1>2, PTL DEF Spec

\* Neither a renewal nor the cleanup, each with a user it read before the login, takes
\* the tokens of a login away (revoke_idle_tokens.py clears by token_expiry,
\* refresh_google_token does not write the refresh token).
THEOREM LoginsKeepTheirTokens == Spec => []LoginKeepsTokens
<1>1. IInv => LoginKeepsTokens
  BY DEF IInv
<1>2. QED
  BY <1>1, Invariance, PTL DEF Consistent

\* The refresh token of the users row works, unless GitHub's answer to it got lost
\* or whoever spent or revoked it is about to write the row: a rotated pair is stored
\* before the lock is released (refresh_github_token).
THEOREM StoredTokensWork == Spec => []StoredTokenWorks
<1>1. IInv => StoredTokenWorks
  BY DEF IInv, StoredIsAlive, StoredTokenWorks
<1>2. QED
  BY <1>1, Invariance, PTL DEF Consistent

\* Who begins to serve a GitHub user has just compared the versions.
LEMMA ServedByCurrentVersion ==
  ASSUME IInv, [Next]_vars, idp = "github",
         NEW r \in Requests, pc[r] # "serving", pc'[r] = "serving"
  PROVE  sv'[r] = row'.version
<1>1. pc \in [Actors -> Phases] /\ row \in Rows /\ sv \in [Requests -> 0..MaxLogouts]
      /\ renewal \in [Requests -> 0..issued]
  BY DEF IInv, TypeOK
<1>2. ASSUME NEW q \in Requests, LoadUser(q) PROVE sv'[r] = row'.version
  BY <1>1, <1>2 DEF LoadUser, Authenticate
<1>3. ASSUME NEW q \in Requests, RenewalNotNeeded(q) PROVE sv'[r] = row'.version
  BY <1>1, <1>3 DEF RenewalNotNeeded, Authenticate
<1>4. ASSUME NEW q \in Requests, Store(q) PROVE sv'[r] = row'.version
  BY <1>1, <1>4 DEF Store, StoreGitHubPair, Authenticate, Return
<1>5. ASSUME NEW q \in Requests,
             StartRenewal(q) \/ RenewalImpossible(q) \/ ProviderRenews(q) \/ RenewalFails(q)
             \/ Served(q) \/ LoadLogout(q) \/ ClearAtLogout(q)
      PROVE  pc'[r] = "serving" => pc[r] = "serving"
  BY <1>1, <1>5 DEF StartRenewal, RenewalImpossible, ProviderRenews, RenewalFails, Served,
     LoadLogout, ClearAtLogout, Clear, Return
<1>6. ASSUME NEW q \in Requests, StartLogout(q) \/ LogoutInLock(q)
      PROVE  pc'[r] = "serving" => pc[r] = "serving"
  BY <1>1, <1>6 DEF StartLogout, LogoutInLock, Revocation, Clear, Return
<1>7. ASSUME NEW a \in Actors, Rotate(a) \/ RotationRefused(a) \/ Revoke(a) \/ RevocationFails(a)
      PROVE  pc'[r] = "serving" => pc[r] = "serving"
  BY <1>1, <1>7 DEF Rotate, RotationRefused, Revoke, RevocationFails, Return
<1>8. StartIdle \/ ClearIfIdle => pc'[r] = pc[r]
  BY <1>1 DEF StartIdle, ClearIfIdle, Return
<1>9. Login \/ Expire \/ Week \/ UNCHANGED vars => pc'[r] = pc[r]
  BY DEF Login, Expire, Week, vars
<1>10. QED
  BY <1>2, <1>3, <1>4, <1>5, <1>6, <1>7, <1>8, <1>9 DEF Next, Authentication, Logout

\* No request of a GitHub user is authenticated with the JWT of a session that ended
\* before, wherever it was awaiting something at the logout (auth_service.py:94): the
\* version is compared with the row, which is read again after each renewal.
THEOREM LogoutsAreFinal == Spec => GitHubLogoutIsFinal
<1> DEFINE Final == idp = "github" =>
      \A r \in Requests :
        pc[r] # "serving" /\ pc'[r] = "serving" => sv'[r] = row'.version
<1>1. ASSUME IInv, [Next]_vars PROVE [Final]_vars
  BY <1>1, ServedByCurrentVersion
<1>2. QED
  BY <1>1, Invariance, PTL DEF Spec, Consistent, GitHubLogoutIsFinal

\* Who begins to serve has a pair that has not expired, or one it was just given.
LEMMA ServedWithLivePair ==
  ASSUME IInv, SpentIsExpired, [Next]_vars,
         NEW r \in Requests, pc[r] # "serving", pc'[r] = "serving"
  PROVE  seen'[r].refresh \notin exchanged \cup lost
<1>1. /\ pc \in [Actors -> Phases] /\ seen \in [Actors -> Rows] /\ row \in Rows
      /\ renewal \in [Requests -> 0..issued] /\ issued \in 0..MaxTokens /\ r \in Actors
      /\ exchanged \cup lost \subseteq 1..issued
  BY DEF IInv, TypeOK
<1>2. ~Expired(row) => row.refresh \notin exchanged \cup lost
  <2>1. idp = "google" => exchanged \cup lost = {}
    BY DEF IInv, TokensAreIssued
  <2>2. idp = "github" => row.access = row.refresh
    BY DEF IInv, TokensAreIssued
  <2>3. idp \in {"github", "google"}
    BY DEF IInv, TypeOK
  <2>4. QED
    BY <2>1, <2>2, <2>3 DEF SpentIsExpired, Expired
<1>3. ASSUME NEW q \in Requests, LoadUser(q) PROVE seen'[r].refresh \notin exchanged \cup lost
  BY <1>1, <1>2, <1>3 DEF LoadUser, Authenticate
<1>4. ASSUME NEW q \in Requests, RenewalNotNeeded(q)
      PROVE  seen'[r].refresh \notin exchanged \cup lost
  BY <1>1, <1>2, <1>4 DEF RenewalNotNeeded, Authenticate
<1>5. ASSUME NEW q \in Requests, Store(q) PROVE seen'[r].refresh \notin exchanged \cup lost
  <2>1. CASE idp = "google"
    BY <2>1 DEF IInv, TokensAreIssued
  <2>2. CASE idp # "google"
    <3>1. idp = "github"
      BY <2>2 DEF IInv, TypeOK
    <3>2. q = r /\ StoreGitHubPair(r) /\ pc[r] = "renewed"
      BY <1>1, <1>5, <2>2 DEF Store, StoreGitHubPair, Authenticate, Return
    <3>3. renewal[r] \in alive
      BY <3>1, <3>2 DEF IInv, AnswerIsFresh
    <3>4. row'.refresh = renewal[r]
      BY <1>1, <3>2 DEF StoreGitHubPair
    <3>5. seen'[r] = row'
      BY <1>1, <3>2 DEF StoreGitHubPair, Authenticate
    <3>6. QED
      BY <3>3, <3>4, <3>5 DEF SpentIsExpired
  <2>3. QED
    BY <2>1, <2>2
<1>6. ASSUME NEW q \in Requests,
             StartRenewal(q) \/ RenewalImpossible(q) \/ ProviderRenews(q) \/ RenewalFails(q)
             \/ Served(q) \/ LoadLogout(q) \/ ClearAtLogout(q)
      PROVE  FALSE
  BY <1>1, <1>6 DEF StartRenewal, RenewalImpossible, ProviderRenews, RenewalFails, Served,
     LoadLogout, ClearAtLogout, Clear, Return
<1>7. ASSUME NEW q \in Requests, StartLogout(q) \/ LogoutInLock(q) PROVE FALSE
  BY <1>1, <1>7 DEF StartLogout, LogoutInLock, Revocation, Clear, Return
<1>8. ASSUME NEW a \in Actors, Rotate(a) \/ RotationRefused(a) \/ Revoke(a) \/ RevocationFails(a)
      PROVE  FALSE
  BY <1>1, <1>8 DEF Rotate, RotationRefused, Revoke, RevocationFails, Return
<1>9. ~(StartIdle \/ ClearIfIdle)
  BY <1>1 DEF StartIdle, ClearIfIdle, Revocation, Return
<1>10. ~(Login \/ Expire \/ Week \/ UNCHANGED vars)
  BY DEF Login, Expire, Week, vars
<1>11. QED
  BY <1>3, <1>4, <1>5, <1>6, <1>7, <1>8, <1>9, <1>10 DEF Next, Authentication, Logout

\* After GitHub spent the stored pair on an answer that got lost, no request is
\* served with it (token_refresh_service.py:119-129): whoever looks at its expiry has
\* to renew it and is refused, until the user logs in again.
THEOREM SpentPairsAreRefused == Spec => SpentIsRefused
<1> DEFINE Refused ==
      \A r \in Requests :
        pc[r] # "serving" /\ pc'[r] = "serving" => seen'[r].refresh \notin exchanged \cup lost
<1>1. ASSUME Consistent, [Next]_vars PROVE [Refused]_vars
  BY <1>1, ServedWithLivePair DEF Consistent
<1>2. QED
  BY <1>1, Invariance, PTL DEF Spec, SpentIsRefused
=============================================================================
