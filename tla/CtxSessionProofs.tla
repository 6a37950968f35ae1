-------------------------- MODULE CtxSessionProofs --------------------------
(***************************************************************************)
(* Proofs about CtxSession for every set of accounts, number of sessions   *)
(* and number of requests under way, when no token is pulled.              *)
(*                                                                         *)
(* KeyMatchesUser is not inductive: the profile takes its key and its user *)
(* from answers.  Genuine says what an answer says is true, of every slot; *)
(* it stays true because the API never gives a session's key to another    *)
(* account.                                                                *)
(***************************************************************************)
EXTENDS CtxSession, TLAPS

Opened(k) == k \in 1 .. Len(owner)

Genuine(r) ==
  /\ r.kind = "Auth" => r.user \in Users
  /\ r.kind # "Auth" => Opened(r.key) /\ r.key \in SessionKeys
  /\ r.kind \in {"Auth", "GetUser"} /\ r.answer = "ok" =>
       Opened(r.key) /\ r.key \in SessionKeys /\ r.user \in Users /\ owner[r.key] = r.user
  /\ ~r.overwritten

FlightOK ==
  /\ flight \in [Slots -> Request \cup {Free}]
  /\ \A s \in Slots : flight[s] # Free => Genuine(flight[s])

OwnerOK == owner \in Seq(Users) /\ Len(owner) <= MaxKeys

AuthOK ==
  \/ auth = NoAuth
  \/ /\ auth \in [key : SessionKeys, user : Users]
     /\ Opened(auth.key) /\ owner[auth.key] = auth.user

OpenOK == open \subseteq 1 .. Len(owner)

UidsOK == uids \in [Buckets -> UID] /\ BucketsFollowProfile

Inv ==
  /\ status \in Users \cup {Ready}
  /\ AuthOK /\ UidsOK /\ FlightOK /\ OwnerOK /\ OpenOK
-----------------------------------------------------------------------------
LEMMA InvImplies == Inv => TypeOK /\ KeyMatchesUser /\ BucketsFollowProfile
BY DEF Inv, TypeOK, AuthOK, UidsOK, FlightOK, OwnerOK, OpenOK, KeyMatchesUser, Opened

(* A slot that gets a genuine request, or none, is as good as before. *)
LEMMA PutKeeps ==
  ASSUME FlightOK, NEW s \in Slots, NEW r \in Request \cup {Free}, r # Free => Genuine(r),
         flight' = [flight EXCEPT ![s] = r], owner' = owner
  PROVE  FlightOK'
BY DEF FlightOK, Genuine, Opened

LEMMA SendKeeps ==
  ASSUME FlightOK, NEW r \in Request, Genuine(r), Send(r), owner' = owner
  PROVE  FlightOK'
BY PutKeeps DEF Send

LEMMA AuthRequestGenuine ==
  ASSUME NEW u \in Users
  PROVE  AuthRequest(u) \in Request /\ Genuine(AuthRequest(u))
BY DEF AuthRequest, Request, Genuine, UID, NoKey

LEMMA KeyRequestGenuine ==
  ASSUME NEW kind \in {"GetUser", "DeleteAccount", "Logout"}, AuthOK, auth # NoAuth
  PROVE  LET r == KeyRequest(kind, auth.key, FALSE) IN r \in Request /\ Genuine(r)
BY DEF KeyRequest, Request, Genuine, UID, NoKey, AuthOK

\* What an action of the user leaves to show when API and profile stay.
LEMMA Unchanged ==
  ASSUME Inv, status' \in Users \cup {Ready}, UNCHANGED <<auth, uids, owner, open>>, FlightOK'
  PROVE  Inv'
BY DEF Inv, AuthOK, UidsOK, BucketsFollowProfile, OwnerOK, OpenOK, Opened

LEMMA Ended ==
  ASSUME Inv, EndSession, ApiKeeps, FlightOK'
  PROVE  Inv'
BY DEF Inv, EndSession, ApiKeeps, AuthOK, UidsOK, BucketsFollowProfile, OwnerOK, OpenOK, Opened,
       UID, Buckets, LeftByLogout, LeftByAuth, NoAuth

\* When the API opens a session, what was true of the others stays true.
LEMMA AppendKeeps ==
  ASSUME Inv, NEW u \in Users, Len(owner) < MaxKeys, owner' = Append(owner, u)
  PROVE  /\ OwnerOK'
         /\ UNCHANGED auth => AuthOK'
         /\ Len(owner') = Len(owner) + 1 /\ owner'[Len(owner) + 1] = u
         /\ \A k \in 1 .. Len(owner) : k \in 1 .. Len(owner') /\ owner'[k] = owner[k]
<1>1. owner \in Seq(Users) /\ Len(owner) \in Nat
  BY DEF Inv, OwnerOK
<1>2. Len(owner') = Len(owner) + 1 /\ owner'[Len(owner) + 1] = u /\ owner' \in Seq(Users)
  BY <1>1
<1>3. \A k \in 1 .. Len(owner) : k \in 1 .. Len(owner') /\ owner'[k] = owner[k]
  BY <1>1, <1>2
<1>4. OwnerOK'
  BY <1>1, <1>2, BoundAssumption DEF OwnerOK
<1>5. UNCHANGED auth => AuthOK'
  BY <1>3 DEF Inv, AuthOK, Opened
<1> QED
  BY <1>2, <1>3, <1>4, <1>5
-----------------------------------------------------------------------------
LEMMA CtxAuthResultKeeps ==
  ASSUME Inv, NEW s \in Slots, CtxAuthResult(s)
  PROVE  Inv'
<1>1. FlightOK'
  BY PutKeeps DEF Inv, CtxAuthResult, Done, ApiKeeps
<1>2. CASE UNCHANGED <<auth, uids>>
  BY <1>1, <1>2, Unchanged DEF CtxAuthResult, ApiKeeps, Inv
<1>3. CASE ~UNCHANGED <<auth, uids>>
  <2>1. /\ flight[s].kind = "Auth" /\ flight[s].answer = "ok" /\ status' = Ready
        /\ auth' = [key |-> flight[s].key, user |-> flight[s].user]
        /\ TakeBuckets(flight[s].user)
        /\ UNCHANGED <<owner, open>>
    BY <1>3 DEF CtxAuthResult, Answered, ApiKeeps
  <2>2. flight[s].key \in SessionKeys /\ flight[s].user \in Users /\ Opened(flight[s].key)
        /\ owner[flight[s].key] = flight[s].user
    BY <2>1 DEF CtxAuthResult, Answered, Inv, FlightOK, Genuine
  <2>3. AuthOK'
    BY <2>1, <2>2 DEF AuthOK, Opened
  <2>4. UidsOK'
    <3>1. uids \in [Buckets -> UID] /\ flight[s].user \in UID
      BY <2>2 DEF Inv, UidsOK, UID
    <3> QED
      BY <2>1, <3>1 DEF UidsOK, BucketsFollowProfile, TakeBuckets
  <2> QED
    BY <1>1, <2>1, <2>3, <2>4 DEF Inv, OwnerOK, OpenOK
<1> QED
  BY <1>2, <1>3

LEMMA LogoutKeeps ==
  ASSUME Inv, Logout
  PROVE  Inv'
<1>1. CASE auth = NoAuth
  BY <1>1, Ended DEF Logout, Inv, FlightOK, Genuine, Opened, ApiKeeps
<1>2. CASE auth # NoAuth
  <2>1. DeleteSession \in Request /\ Genuine(DeleteSession)
    BY <1>2, KeyRequestGenuine DEF DeleteSession, Inv
  <2>2. FlightOK'
    BY <1>2, <2>1, SendKeeps DEF Logout, ApiKeeps, Inv
  <2> QED
    BY <2>2, Ended DEF Logout
<1> QED
  BY <1>1, <1>2

LEMMA UserAPIResultKeeps ==
  ASSUME Inv, NEW s \in Slots, NEW changed \in BOOLEAN, UserAPIResult(s, changed)
  PROVE  Inv' /\ (~EndSession => UNCHANGED <<auth, status>>)
<1> DEFINE r == flight[s]
<1>1. /\ r # Free /\ r.kind = "GetUser" /\ ApiKeeps
      /\ \/ TakesUser(r) /\ r.answer = "ok" /\ Done(s) /\ UNCHANGED <<status, uids>>
            /\ \/ auth' = [auth EXCEPT !.user = r.user]
               \/ r.overwritten
               \/ UNCHANGED auth
         \/ EndSession /\ flight' = [flight EXCEPT ![s] = DeleteSession]
         \/ Done(s) /\ UNCHANGED <<status, auth, uids>>
  BY DEF UserAPIResult, Answered
<1>2. Genuine(r)
  BY <1>1 DEF Inv, FlightOK
<1> HIDE DEF r
<1>3. CASE TakesUser(r) /\ r.answer = "ok" /\ Done(s) /\ UNCHANGED <<status, uids>>
           /\ (auth' = [auth EXCEPT !.user = r.user] \/ r.overwritten \/ UNCHANGED auth)
  <2>1. auth.key = r.key /\ r.key \in SessionKeys /\ owner[r.key] = r.user /\ ~r.overwritten
    BY <1>1, <1>2, <1>3 DEF TakesUser, Genuine
  <2>2. auth \in [key : SessionKeys, user : Users] /\ auth.user = r.user
    BY <2>1 DEF Inv, AuthOK, NoAuth, NoKey, SessionKeys
  <2>3. UNCHANGED auth
    BY <1>3, <2>1, <2>2
  <2>4. FlightOK'
    BY <1>1, <1>3, PutKeeps DEF Inv, Done, ApiKeeps
  <2> QED
    BY <1>1, <1>3, <2>3, <2>4, Unchanged DEF Inv, ApiKeeps
<1>4. CASE EndSession /\ flight' = [flight EXCEPT ![s] = DeleteSession]
  <2>1. DeleteSession = Free \/ (DeleteSession \in Request /\ Genuine(DeleteSession))
    BY KeyRequestGenuine DEF DeleteSession, Inv
  <2>2. FlightOK'
    BY <1>1, <1>4, <2>1, PutKeeps DEF Inv, ApiKeeps
  <2> QED
    BY <1>1, <1>4, <2>2, Ended
<1>5. CASE Done(s) /\ UNCHANGED <<status, auth, uids>>
  <2>1. FlightOK'
    BY <1>1, <1>5, PutKeeps DEF Inv, Done, ApiKeeps
  <2> QED
    BY <1>1, <1>5, <2>1, Unchanged DEF Inv, ApiKeeps
<1> QED
  BY <1>1, <1>3, <1>4, <1>5

LEMMA DeleteAccountAPIResultKeeps ==
  ASSUME Inv, NEW s \in Slots, DeleteAccountAPIResult(s)
  PROVE  Inv'
<1>1. FlightOK'
  BY PutKeeps DEF Inv, DeleteAccountAPIResult, Done, ApiKeeps
<1>2. EndSession \/ UNCHANGED <<status, auth, uids>>
  BY DEF DeleteAccountAPIResult
<1> QED
  BY <1>1, <1>2, Ended, Unchanged DEF DeleteAccountAPIResult, ApiKeeps, Inv
-----------------------------------------------------------------------------
(* The API. *)

LEMMA AnswerKeeps ==
  ASSUME Inv, NEW s \in Slots, flight[s] # Free, NEW answer \in {"expired", "failed"},
         Answer(s, answer), owner' = owner
  PROVE  FlightOK'
<1> DEFINE r == [flight[s] EXCEPT !.answer = answer]
<1>1. flight[s] \in Request /\ Genuine(flight[s])
  BY DEF Inv, FlightOK
<1>2. r \in Request /\ Genuine(r)
  BY <1>1 DEF Request, Genuine
<1>3. flight' = [flight EXCEPT ![s] = r]
  BY DEF Answer
<1> QED
  BY <1>2, <1>3, PutKeeps DEF Inv

LEMMA OpensKeeps ==
  ASSUME Inv, NEW u \in Users, Len(owner) < MaxKeys, owner' = Append(owner, u),
         open' = open \cup {Len(owner) + 1}, CtxKeeps, FlightOK'
  PROVE  Inv'
<1>1. OpenOK'
  <2>1. open \subseteq 1 .. Len(owner) /\ Len(owner) \in Nat
    BY DEF Inv, OpenOK, OwnerOK
  <2>2. Len(owner') = Len(owner) + 1
    BY AppendKeeps
  <2>3. ASSUME NEW k \in open' PROVE k \in 1 .. Len(owner')
    <3>1. k \in 1 .. Len(owner) \/ k = Len(owner) + 1
      BY <2>1
    <3> QED
      BY <2>1, <2>2, <3>1
  <2> QED
    BY <2>3 DEF OpenOK
<1>2. OwnerOK' /\ AuthOK'
  BY AppendKeeps DEF CtxKeeps
<1> QED
  BY <1>1, <1>2 DEF Inv, CtxKeeps, UidsOK, BucketsFollowProfile

LEMMA ServeAuthKeeps ==
  ASSUME Inv, NEW s \in Slots, ServeAuth(s)
  PROVE  Inv'
<1>1. flight[s] # Free /\ flight[s] \in Request /\ Genuine(flight[s]) /\ flight[s].kind = "Auth"
      /\ flight[s].user \in Users
  BY DEF Inv, FlightOK, ServeAuth, Waits, Genuine
<1>2. CASE Answer(s, "failed") /\ ApiKeeps
  <2>1. FlightOK'
    BY <1>1, <1>2, AnswerKeeps DEF ApiKeeps
  <2> QED
    BY <1>2, <2>1, Unchanged DEF ServeAuth, CtxKeeps, ApiKeeps, Inv
<1>3. ASSUME Len(owner) < MaxKeys, owner' = Append(owner, flight[s].user),
             open' = open \cup {Len(owner) + 1}, CtxKeeps,
             NEW r \in Request, flight' = [flight EXCEPT ![s] = r],
             r.kind = "Auth", r.user = flight[s].user, r.overwritten = flight[s].overwritten,
             r.answer = "ok" => r.key = Len(owner) + 1
      PROVE  Inv'
  <2>1. Genuine(r)'
    BY <1>1, <1>3, AppendKeeps, BoundAssumption DEF Genuine, Opened, SessionKeys, Inv, OwnerOK
  <2>2. \A t \in Slots : t # s /\ flight[t] # Free => Genuine(flight[t])'
    BY <1>1, <1>3, AppendKeeps DEF Inv, FlightOK, Genuine, Opened
  <2>3. FlightOK'
    BY <1>3, <2>1, <2>2 DEF Inv, FlightOK
  <2> QED
    BY <1>1, <1>3, <2>3, OpensKeeps
<1>4. Len(owner) < MaxKeys => Len(owner) + 1 \in SessionKeys
  BY BoundAssumption DEF Inv, OwnerOK, SessionKeys
<1>5. Len(owner) < MaxKeys => [flight[s] EXCEPT !.key = Len(owner) + 1, !.answer = "ok"] \in Request
  BY <1>1, <1>4 DEF Request
<1>6. [flight[s] EXCEPT !.answer = "failed"] \in Request
  BY <1>1 DEF Request
<1>7. CASE Len(owner) < MaxKeys /\ owner' = Append(owner, flight[s].user)
           /\ open' = open \cup {Len(owner) + 1} /\ CtxKeeps
           /\ flight' = [flight EXCEPT ![s].key = Len(owner) + 1, ![s].answer = "ok"]
  <2> DEFINE r == [flight[s] EXCEPT !.key = Len(owner) + 1, !.answer = "ok"]
  <2>1. flight' = [flight EXCEPT ![s] = r]
    BY <1>1, <1>7 DEF Inv, FlightOK
  <2>2. r.kind = "Auth" /\ r.user = flight[s].user /\ r.overwritten = flight[s].overwritten
        /\ r.key = Len(owner) + 1
    BY <1>1 DEF Request
  <2> QED
    BY <1>3, <1>5, <1>7, <2>1, <2>2
<1>8. CASE Len(owner) < MaxKeys /\ owner' = Append(owner, flight[s].user)
           /\ open' = open \cup {Len(owner) + 1} /\ CtxKeeps /\ Answer(s, "failed")
  <2> DEFINE r == [flight[s] EXCEPT !.answer = "failed"]
  <2>1. flight' = [flight EXCEPT ![s] = r]
    BY <1>8 DEF Answer
  <2>2. r.kind = "Auth" /\ r.user = flight[s].user /\ r.overwritten = flight[s].overwritten
        /\ r.answer = "failed"
    BY <1>1 DEF Request
  <2> QED
    BY <1>3, <1>6, <1>8, <2>1, <2>2
<1> QED
  BY <1>2, <1>7, <1>8 DEF ServeAuth

LEMMA ServeGetUserKeeps ==
  ASSUME Inv, NEW s \in Slots, ServeGetUser(s)
  PROVE  Inv'
<1>1. flight[s] # Free /\ flight[s] \in Request /\ Genuine(flight[s]) /\ flight[s].kind = "GetUser"
  BY DEF Inv, FlightOK, ServeGetUser, Waits
<1>2. ASSUME flight[s].key \in open,
             flight' = [flight EXCEPT ![s].user = owner[flight[s].key], ![s].answer = "ok"]
      PROVE  FlightOK'
  <2> DEFINE r == [flight[s] EXCEPT !.user = owner[flight[s].key], !.answer = "ok"]
  <2>1. Opened(flight[s].key) /\ flight[s].key \in SessionKeys /\ owner[flight[s].key] \in Users
    BY <1>1 DEF Genuine, Opened, Inv, OwnerOK
  <2>2. r \in Request /\ Genuine(r)
    BY <1>1, <2>1 DEF Request, Genuine, UID
  <2>3. flight' = [flight EXCEPT ![s] = r]
    BY <1>1, <1>2 DEF Inv, FlightOK
  <2> QED
    BY <2>2, <2>3, PutKeeps DEF ServeGetUser, ApiKeeps, Inv
<1>3. FlightOK'
  BY <1>1, <1>2, AnswerKeeps DEF ServeGetUser, ApiKeeps
<1> QED
  BY <1>3, Unchanged DEF ServeGetUser, CtxKeeps, ApiKeeps, Inv

LEMMA ServeDeleteAccountKeeps ==
  ASSUME Inv, NEW s \in Slots, ServeDeleteAccount(s)
  PROVE  Inv'
<1>1. flight[s] # Free /\ flight[s] \in Request /\ Genuine(flight[s])
      /\ flight[s].kind = "DeleteAccount"
  BY DEF Inv, FlightOK, ServeDeleteAccount, Waits
<1>2. PICK answer \in {"ok", "failed"} : Answer(s, answer)
  BY DEF ServeDeleteAccount
<1> DEFINE r == [flight[s] EXCEPT !.answer = answer]
<1>3. r \in Request /\ Genuine(r)
  BY <1>1 DEF Request, Genuine
<1>4. FlightOK'
  BY <1>2, <1>3, PutKeeps DEF Answer, ServeDeleteAccount, Inv
<1>5. open' \subseteq open /\ UNCHANGED <<status, auth, uids, owner>>
  BY DEF ServeDeleteAccount, CtxKeeps
<1> QED
  BY <1>4, <1>5 DEF Inv, AuthOK, UidsOK, BucketsFollowProfile, OwnerOK, OpenOK, Opened

LEMMA ServeLogoutKeeps ==
  ASSUME Inv, NEW s \in Slots, ServeLogout(s)
  PROVE  Inv'
<1>1. FlightOK'
  BY PutKeeps DEF Inv, ServeLogout, Done
<1>2. open' \subseteq open /\ UNCHANGED <<status, auth, uids, owner>>
  BY DEF ServeLogout, CtxKeeps
<1> QED
  BY <1>1, <1>2 DEF Inv, AuthOK, UidsOK, BucketsFollowProfile, OwnerOK, OpenOK, Opened
-----------------------------------------------------------------------------
LEMMA InitInv == Init => Inv
BY BoundAssumption DEF Init, Inv, AuthOK, UidsOK, FlightOK, OwnerOK, OpenOK, BucketsFollowProfile,
   UID, NoAuth

\* Steps of the user that send a request and change nothing else.
LEMMA RequestKeeps ==
  ASSUME Inv
  PROVE  /\ \A u \in Users : Authenticate(u) => Inv'
         /\ PullUserFromAPI => Inv'
         /\ DeleteAccount => Inv'
<1>1. ASSUME NEW u \in Users, Authenticate(u)
      PROVE  Inv'
  <2>1. FlightOK'
    BY <1>1, AuthRequestGenuine, SendKeeps DEF Authenticate, ApiKeeps, Inv
  <2> QED
    BY <1>1, <2>1, Unchanged DEF Authenticate, ApiKeeps
<1>2. ASSUME NEW kind \in {"GetUser", "DeleteAccount"}, auth # NoAuth,
             Send(KeyRequest(kind, auth.key, FALSE)), UNCHANGED <<status, auth, uids>>, ApiKeeps
      PROVE  Inv'
  <2>1. FlightOK'
    BY <1>2, KeyRequestGenuine, SendKeeps DEF ApiKeeps, Inv
  <2> QED
    BY <1>2, <2>1, Unchanged DEF ApiKeeps, Inv
<1> QED
  BY <1>1, <1>2 DEF PullUserFromAPI, DeleteAccount

LEMMA ApiStepKeeps ==
  ASSUME Inv
  PROVE  /\ \A u \in Users : OpenSession(u) => Inv'
         /\ \A k : CloseSession(k) => Inv'
<1>1. ASSUME NEW u \in Users, OpenSession(u)
      PROVE  Inv'
  <2>1. FlightOK'
    BY <1>1, AppendKeeps DEF OpenSession, Inv, FlightOK, Genuine, Opened
  <2> QED
    BY <1>1, <2>1, OpensKeeps DEF OpenSession
<1>2. ASSUME NEW k, CloseSession(k)
      PROVE  Inv'
  BY <1>2 DEF CloseSession, CtxKeeps, Inv, AuthOK, UidsOK, BucketsFollowProfile, FlightOK, Genuine,
     OwnerOK, OpenOK, Opened
<1> QED
  BY <1>1, <1>2

LEMMA NextInv ==
  ASSUME TokenPulls = FALSE, Inv, [Next]_vars
  PROVE  Inv'
<1>1. CASE UNCHANGED vars
  BY <1>1, Unchanged DEF vars, Inv, FlightOK, Genuine, Opened
<1>2. ASSUME NEW k, PullUserWithToken(k)
      PROVE  Inv'
  BY <1>2 DEF PullUserWithToken
<1> QED
  BY <1>1, <1>2, RequestKeeps, ApiStepKeeps, LogoutKeeps, CtxAuthResultKeeps, UserAPIResultKeeps,
     DeleteAccountAPIResultKeeps, ServeAuthKeeps, ServeGetUserKeeps, ServeDeleteAccountKeeps,
     ServeLogoutKeeps DEF Next

LEMMA SpecInv ==
  ASSUME TokenPulls = FALSE
  PROVE  Spec => []Inv
BY InitInv, NextInv, PTL DEF Spec

\* The types of the profile, the buckets, the requests and the API's sessions.
THEOREM TypeCorrect ==
  ASSUME TokenPulls = FALSE
  PROVE  Spec => []TypeOK
BY InvImplies, SpecInv, PTL

\* The key and the user of the profile are of one account, for any number of
\* accounts, sessions and requests under way.
THEOREM KeyAndUser ==
  ASSUME TokenPulls = FALSE
  PROVE  Spec => []KeyMatchesUser
BY InvImplies, SpecInv, PTL

\* The buckets Logout resets are those of the profile's account.
THEOREM BucketsFollow ==
  ASSUME TokenPulls = FALSE
  PROVE  Spec => []BucketsFollowProfile
BY InvImplies, SpecInv, PTL
-----------------------------------------------------------------------------
(* CtxSession implements AccountSession: the mapping takes the user from   *)
(* the profile and the account wanted from the status.                     *)

LEMMA InitRefines == Init => Session!Init
BY DEF Init, Session!Init, NoAuth

LEMMA EndsRefines ==
  ASSUME EndSession
  PROVE  Session!Next
BY DEF EndSession, Session!Next, Session!SignOut, NoAuth

LEMMA NextRefines ==
  ASSUME TokenPulls = FALSE, Inv, [Next]_vars
  PROVE  [Session!Next]_(Session!vars)
<1>1. CASE UNCHANGED <<auth, status>>
  BY <1>1 DEF Session!vars
<1>2. ASSUME NEW u \in Users, Authenticate(u)
      PROVE  Session!Next
  BY <1>2, NamesAssumption DEF Authenticate, Session!Next, Session!Want
<1>3. ASSUME NEW s \in Slots, CtxAuthResult(s)
      PROVE  [Session!Next]_(Session!vars)
  <2>1. CASE status # flight[s].user
    BY <1>3, <2>1 DEF CtxAuthResult, Session!vars
  <2>2. CASE status = flight[s].user
    <3>1. status # Ready /\ status # NoUser
      BY <1>3, <2>2, NamesAssumption DEF CtxAuthResult, Answered, Inv, FlightOK, Genuine
    <3>2. status' = Ready /\ (auth'.user = status \/ UNCHANGED auth)
      BY <1>3, <2>2 DEF CtxAuthResult
    <3> QED
      BY <3>1, <3>2 DEF Session!Next, Session!SignIn, Session!GiveUp
  <2> QED
    BY <2>1, <2>2
<1>4. ASSUME NEW s \in Slots, NEW changed \in BOOLEAN, UserAPIResult(s, changed)
      PROVE  [Session!Next]_(Session!vars)
  BY <1>1, <1>4, EndsRefines, UserAPIResultKeeps
<1>5. CASE Logout
  BY <1>5, EndsRefines DEF Logout
<1>6. ASSUME NEW s \in Slots, DeleteAccountAPIResult(s)
      PROVE  [Session!Next]_(Session!vars)
  BY <1>1, <1>6, EndsRefines DEF DeleteAccountAPIResult
<1>7. ASSUME NEW k, PullUserWithToken(k)
      PROVE  FALSE
  BY <1>7 DEF PullUserWithToken
<1>8. CASE PullUserFromAPI \/ DeleteAccount
  BY <1>1, <1>8 DEF PullUserFromAPI, DeleteAccount
<1>9. ASSUME NEW s \in Slots,
             ServeAuth(s) \/ ServeGetUser(s) \/ ServeDeleteAccount(s) \/ ServeLogout(s)
      PROVE  UNCHANGED <<auth, status>>
  BY <1>9 DEF ServeAuth, ServeGetUser, ServeDeleteAccount, ServeLogout, CtxKeeps
<1>10. ASSUME NEW x, OpenSession(x) \/ CloseSession(x)
       PROVE  UNCHANGED <<auth, status>>
  BY <1>10 DEF OpenSession, CloseSession, CtxKeeps
<1>11. CASE UNCHANGED vars
  BY <1>1, <1>11 DEF vars
<1> QED
  BY <1>1, <1>2, <1>3, <1>4, <1>5, <1>6, <1>7, <1>8, <1>9, <1>10, <1>11 DEF Next

\* Who is signed in changes only as the user asked: the account asked for last
\* and not cancelled, or nobody, whichever answers come late.
THEOREM SignsIn ==
  ASSUME TokenPulls = FALSE
  PROVE  Spec => SignsInAsAsked
<1>1. Spec => []Inv
  BY SpecInv
<1> QED
  BY <1>1, InitRefines, NextRefines, PTL DEF Spec, SignsInAsAsked, Session!Spec
-----------------------------------------------------------------------------
(* The session ends for a cause only: an answer that ends it says that its  *)
(* key is not valid, and a key that is not valid never is again.            *)

\* The answers that end the session with their key.
Ends(r) ==
  \/ r.kind = "GetUser" /\ r.answer = "expired"
  \/ r.kind = "DeleteAccount" /\ r.answer = "ok"

OverInv == \A s \in Slots : flight[s] # Free /\ Ends(flight[s]) => flight[s].key \notin open

\* The API opens no session a second time, and an answer that ends one is given when
\* it is over.
LEMMA ApiEnds ==
  ASSUME Inv, OverInv, NEW s \in Slots,
         ServeAuth(s) \/ ServeGetUser(s) \/ ServeDeleteAccount(s) \/ ServeLogout(s)
  PROVE  /\ open' \cap (1 .. Len(owner)) \subseteq open
         /\ \A t \in Slots : t # s => flight'[t] = flight[t]
         /\ flight'[s] # Free /\ Ends(flight'[s]) => flight'[s].key \notin open'
<1>1. flight[s] # Free /\ flight[s] \in Request /\ flight \in [Slots -> Request \cup {Free}]
      /\ Len(owner) \in Nat /\ open \subseteq 1 .. Len(owner)
  BY DEF Inv, FlightOK, OwnerOK, OpenOK, ServeAuth, ServeGetUser, ServeDeleteAccount, ServeLogout, Waits
<1>2. CASE ServeAuth(s)
  <2>1. open' \subseteq open \cup {Len(owner) + 1}
    BY <1>2 DEF ServeAuth, ApiKeeps
  <2>2. \A t \in Slots : t # s => flight'[t] = flight[t]
    BY <1>1, <1>2 DEF ServeAuth, Answer
  <2>3. flight'[s].kind = "Auth"
    BY <1>1, <1>2 DEF ServeAuth, Answer, Waits, Request
  <2> QED
    BY <1>1, <2>1, <2>2, <2>3 DEF Ends
<1>3. CASE ServeGetUser(s)
  <2>1. UNCHANGED open /\ \A t \in Slots : t # s => flight'[t] = flight[t]
    BY <1>1, <1>3 DEF ServeGetUser, Answer, ApiKeeps
  <2>2. \/ flight'[s].answer \in {"ok", "failed"} /\ flight'[s].kind = "GetUser"
        \/ flight[s].key \notin open /\ flight'[s].key = flight[s].key
    BY <1>1, <1>3 DEF ServeGetUser, Answer, Waits, Request
  <2> QED
    BY <2>1, <2>2 DEF Ends
<1>4. CASE ServeDeleteAccount(s)
  <2>1. \A t \in Slots : t # s => flight'[t] = flight[t]
    BY <1>1, <1>4 DEF ServeDeleteAccount, Answer
  <2>2. flight'[s].kind = "DeleteAccount" /\ flight'[s].key = flight[s].key
    BY <1>1, <1>4 DEF ServeDeleteAccount, Answer, Waits, Request
  <2>3. \/ flight'[s].answer = "failed" /\ open' \subseteq open
        \/ flight[s].key \notin open' /\ open' \subseteq open
    <3>1. CASE flight[s].key \in open /\ open' = {k \in open : owner[k] # owner[flight[s].key]}
      BY <3>1
    <3>2. CASE Answer(s, "failed") /\ UNCHANGED open
      BY <1>1, <3>2 DEF Answer, Request
    <3> QED
      BY <1>4, <3>1, <3>2 DEF ServeDeleteAccount
  <2> QED
    BY <2>1, <2>2, <2>3 DEF Ends
<1>5. CASE ServeLogout(s)
  BY <1>1, <1>5 DEF ServeLogout, Done
<1> QED
  BY <1>2, <1>3, <1>4, <1>5

\* What Ctx sends has no answer yet.
LEMMA CtxEnds ==
  ASSUME TokenPulls = FALSE, Inv, Next
  PROVE  \/ \E s \in Slots : ServeAuth(s) \/ ServeGetUser(s) \/ ServeDeleteAccount(s) \/ ServeLogout(s)
         \/ /\ open' \cap (1 .. Len(owner)) \subseteq open
            /\ \A t \in Slots : flight'[t] = flight[t] \/ flight'[t] = Free \/ ~Ends(flight'[t])
<1>1. flight \in [Slots -> Request \cup {Free}] /\ Len(owner) \in Nat /\ open \subseteq 1 .. Len(owner)
  BY DEF Inv, FlightOK, OwnerOK, OpenOK
<1>2. /\ \A u : ~Ends(AuthRequest(u))
      /\ \A kind, k, overwritten : ~Ends(KeyRequest(kind, k, overwritten))
      /\ DeleteSession = Free \/ ~Ends(DeleteSession)
  BY DEF Ends, AuthRequest, KeyRequest, DeleteSession
<1>3. ASSUME NEW r, Send(r), ~Ends(r)
      PROVE  \A t \in Slots : flight'[t] = flight[t] \/ ~Ends(flight'[t])
  BY <1>1, <1>3 DEF Send
<1>4. CASE \E u \in Users : Authenticate(u)
  BY <1>2, <1>3, <1>4 DEF Authenticate, ApiKeeps
<1>5. CASE \E u \in Users : OpenSession(u)
  <2>1. open' = open \cup {Len(owner) + 1} /\ UNCHANGED flight
    BY <1>5 DEF OpenSession
  <2> QED
    BY <1>1, <2>1
<1>6. CASE Logout
  <2>1. CASE UNCHANGED flight
    BY <1>6, <2>1 DEF Logout, ApiKeeps
  <2>2. CASE auth # NoAuth /\ Send(DeleteSession)
    <3>1. ~Ends(DeleteSession)
      BY <2>2 DEF Ends, KeyRequest, DeleteSession
    <3> QED
      BY <1>3, <1>6, <2>2, <3>1 DEF Logout, ApiKeeps
  <2> QED
    BY <1>6, <2>1, <2>2 DEF Logout
<1>7. CASE PullUserFromAPI \/ DeleteAccount
  BY <1>2, <1>3, <1>7 DEF PullUserFromAPI, DeleteAccount, ApiKeeps
<1>8. CASE \E k : CloseSession(k)
  BY <1>8 DEF CloseSession
<1>9. CASE \E s \in Slots : CtxAuthResult(s) \/ DeleteAccountAPIResult(s)
  BY <1>1, <1>9 DEF CtxAuthResult, DeleteAccountAPIResult, Done, ApiKeeps
<1>10. ASSUME NEW s \in Slots, NEW changed \in BOOLEAN, UserAPIResult(s, changed)
       PROVE  /\ open' \cap (1 .. Len(owner)) \subseteq open
              /\ \A t \in Slots : flight'[t] = flight[t] \/ flight'[t] = Free \/ ~Ends(flight'[t])
  <2>1. UNCHANGED open /\ (Done(s) \/ flight' = [flight EXCEPT ![s] = DeleteSession])
    BY <1>10 DEF UserAPIResult, ApiKeeps
  <2> QED
    BY <1>1, <1>2, <2>1 DEF Done
<1>11. ASSUME NEW k, PullUserWithToken(k)
       PROVE  FALSE
  BY <1>11 DEF PullUserWithToken
<1> QED
  BY <1>4, <1>5, <1>6, <1>7, <1>8, <1>9, <1>10, <1>11 DEF Next

LEMMA OverNext ==
  ASSUME TokenPulls = FALSE, Inv, OverInv, [Next]_vars
  PROVE  OverInv'
<1>1. CASE UNCHANGED vars
  BY <1>1 DEF vars, OverInv
<1>2. \A s \in Slots : flight[s] # Free /\ Ends(flight[s]) => flight[s].key \in 1 .. Len(owner)
  BY DEF Inv, FlightOK, Genuine, Opened, Ends
<1>3. CASE \E s \in Slots : ServeAuth(s) \/ ServeGetUser(s) \/ ServeDeleteAccount(s) \/ ServeLogout(s)
  BY <1>2, <1>3, ApiEnds DEF OverInv
<1>4. CASE /\ open' \cap (1 .. Len(owner)) \subseteq open
           /\ \A t \in Slots : flight'[t] = flight[t] \/ flight'[t] = Free \/ ~Ends(flight'[t])
  BY <1>2, <1>4 DEF OverInv
<1> QED
  BY <1>1, <1>3, <1>4, CtxEnds

LEMMA EndsThen ==
  ASSUME TokenPulls = FALSE, Inv, OverInv, [Next]_vars, auth # NoAuth, auth' = NoAuth
  PROVE  Logout \/ auth.key \notin open
<1>1. auth.key # NoKey /\ auth = [key |-> auth.key, user |-> auth.user]
  BY DEF Inv, AuthOK, SessionKeys, NoKey
<1>2. Next /\ auth' # auth
  BY DEF vars
<1>3. ASSUME NEW s \in Slots, NEW changed \in BOOLEAN, UserAPIResult(s, changed)
      PROVE  auth.key \notin open
  <2>1. flight[s] # Free /\ flight[s].kind = "GetUser" /\ Genuine(flight[s])
    BY <1>3 DEF UserAPIResult, Answered, Inv, FlightOK
  <2>2. CASE TakesUser(flight[s]) /\ flight[s].answer = "ok"
    <3>1. auth'.key = auth.key
      BY <1>1, <1>3, <2>1, <2>2 DEF UserAPIResult, Genuine
    <3> QED
      BY <1>1, <3>1 DEF NoAuth
  <2>3. CASE TakesUser(flight[s]) /\ flight[s].answer = "expired"
    BY <2>1, <2>3 DEF OverInv, Ends, TakesUser, Genuine
  <2> QED
    BY <1>2, <1>3, <2>2, <2>3 DEF UserAPIResult
<1>4. ASSUME NEW s \in Slots, DeleteAccountAPIResult(s)
      PROVE  auth.key \notin open
  <2>1. flight[s] # Free /\ Ends(flight[s]) /\ auth.key = flight[s].key
    BY <1>2, <1>4 DEF DeleteAccountAPIResult, Answered, Ends
  <2> QED
    BY <2>1 DEF OverInv
<1>5. ASSUME NEW s \in Slots, CtxAuthResult(s)
      PROVE  FALSE
  <2>1. flight[s] # Free /\ flight[s].kind = "Auth" /\ flight[s].answer = "ok" /\ auth'.key = flight[s].key
    BY <1>2, <1>5 DEF CtxAuthResult, Answered
  <2>2. flight[s].key \in SessionKeys
    BY <2>1 DEF Inv, FlightOK, Genuine
  <2> QED
    BY <2>1, <2>2 DEF NoAuth, NoKey, SessionKeys
<1>6. ASSUME NEW k, PullUserWithToken(k)
      PROVE  FALSE
  BY <1>6 DEF PullUserWithToken
<1> QED
  BY <1>2, <1>3, <1>4, <1>5, <1>6 DEF Next, Authenticate, OpenSession, PullUserFromAPI, DeleteAccount,
     CloseSession, ServeAuth, ServeGetUser, ServeDeleteAccount, ServeLogout, CtxKeeps

\* A session of which the user did not sign out ends only when its key is no longer
\* valid, whatever answers to earlier requests arrive (update_profile.rs:375).
THEOREM EndsForCause ==
  ASSUME TokenPulls = FALSE
  PROVE  Spec => SessionEndsForCause
<1>1. Init => OverInv
  BY DEF Init, OverInv
<1>2. Inv /\ OverInv /\ [Next]_vars => OverInv'
  BY OverNext
<1>3. Inv /\ OverInv /\ [Next]_vars => [auth # NoAuth /\ auth' = NoAuth => Logout \/ auth.key \notin open]_vars
  BY EndsThen
<1> QED
  BY <1>1, <1>2, <1>3, SpecInv, PTL DEF Spec, SessionEndsForCause
=============================================================================
