----------------------------- MODULE CtxSession -----------------------------
(***************************************************************************)
(* Accounts and sessions in Ctx (src/models/ctx/ctx.rs, update_profile.rs  *)
(* and the arms of the other update functions that follow the account):    *)
(* signing in and out, pulling the user, deleting the account.             *)
(*                                                                         *)
(* Each of these starts a request that is answered some time later, when   *)
(* the user may have signed out, signed in as somebody else, or asked for  *)
(* the same thing again.  A request occupies a slot of `flight' from the   *)
(* moment it is sent; the API serves it in one step, and the runtime hands *)
(* the answer to Ctx::update in another.                                   *)
(***************************************************************************)
EXTENDS Naturals, Sequences

CONSTANTS
  Users,        \* accounts of the API
  NoUser,       \* the UID None
  Slots,        \* bound: so many requests are under way at a time
  Free,         \* a slot without a request
  Ready,        \* CtxStatus::Ready
  MaxKeys,      \* bound: sessions the API opens
  TokenPulls    \* whether PullUserFromAPI is dispatched with a token

ASSUME NamesAssumption == NoUser \notin Users /\ Ready \notin Users
ASSUME BoundAssumption == MaxKeys \in Nat /\ TokenPulls \in BOOLEAN

UID == Users \cup {NoUser}
SessionKeys == 1 .. MaxKeys
NoKey == 0

\* The buckets of Ctx that carry a uid, besides the profile.
Buckets == {"library", "streams", "server_urls", "search_history", "notifications", "dismissed_events"}

\* update_streaming_server_urls has no arm for Logout, update_events none for
\* CtxAuthResult.
LeftByLogout == {"server_urls"}
LeftByAuth == {"dismissed_events"}

\* A request and, once the API has served it, its answer.  For "Auth" the user
\* is the one asked for and the key is the answer; for "GetUser" the user is.
Request ==
  [kind : {"Auth", "GetUser", "DeleteAccount", "Logout"}, user : UID, key : SessionKeys \cup {NoKey},
   overwritten : BOOLEAN, answer : {"none", "ok", "expired", "failed"}]

ASSUME FreeAssumption == Free \notin Request

VARIABLES
  status,    \* ctx.status: Ready, or Loading with the account asked for
  auth,      \* ctx.profile.auth: the session's key and user
  uids,      \* the uid of every bucket
  flight,    \* requests sent and not yet answered, by slot
  owner,     \* the API: the account of each session it opened
  open       \* the API: the sessions that are still valid

vars == <<status, auth, uids, flight, owner, open>>

NoAuth == [key |-> NoKey, user |-> NoUser]

TypeOK ==
  /\ status \in Users \cup {Ready}
  /\ auth \in [key : SessionKeys, user : Users] \cup {NoAuth}
  /\ uids \in [Buckets -> UID]
  /\ flight \in [Slots -> Request \cup {Free}]
  /\ owner \in Seq(Users) /\ Len(owner) <= MaxKeys
  /\ open \subseteq 1 .. Len(owner)
-----------------------------------------------------------------------------
AuthRequest(u) ==
  [kind |-> "Auth", user |-> u, key |-> NoKey, overwritten |-> FALSE, answer |-> "none"]
KeyRequest(kind, k, overwritten) ==
  [kind |-> kind, user |-> NoUser, key |-> k, overwritten |-> overwritten, answer |-> "none"]

Send(request) == \E s \in Slots : flight[s] = Free /\ flight' = [flight EXCEPT ![s] = request]

Waits(s, kind) == flight[s] # Free /\ flight[s].kind = kind /\ flight[s].answer = "none"
Answered(s, kind) == flight[s] # Free /\ flight[s].kind = kind /\ flight[s].answer # "none"

Done(s) == flight' = [flight EXCEPT ![s] = Free]

ApiKeeps == UNCHANGED <<owner, open>>
-----------------------------------------------------------------------------
\* Changed: the streams bucket is not reset.
EndSession_KeepsStreams ==
  /\ auth' = NoAuth
  /\ status' = Ready
  /\ uids' = [b \in Buckets |-> IF b \in LeftByLogout \cup {"streams"} THEN uids[b] ELSE NoUser]

\* Internal::Logout: the profile and the buckets go back to their defaults, and a
\* sign-in under way is given up.
EndSession ==
  /\ auth' = NoAuth
  /\ status' = Ready
  /\ uids' = [b \in Buckets |-> IF b \in LeftByLogout THEN uids[b] ELSE NoUser]

\* CtxAuthResult(Ok) for account u gives the buckets to it.
TakeBuckets(u) == uids' = [b \in Buckets |-> IF b \in LeftByAuth THEN uids[b] ELSE u]

\* delete_session, unless the account is gone with its sessions.
DeleteSession == IF auth = NoAuth THEN Free ELSE KeyRequest("Logout", auth.key, FALSE)

\* ActionCtx::Authenticate
Authenticate(u) ==
  /\ status' = u
  /\ Send(AuthRequest(u))
  /\ UNCHANGED <<auth, uids>> /\ ApiKeeps

\* Changed: the result is taken for one of an account whatever it is.
CtxAuthResult_AnyResult(s) ==
  /\ Answered(s, "Auth")
  /\ IF status # flight[s].user
       THEN UNCHANGED <<status, auth, uids>>
       ELSE /\ status' = Ready
            /\ auth' = [key |-> flight[s].key, user |-> flight[s].user]
            /\ TakeBuckets(flight[s].user)
  /\ Done(s) /\ ApiKeeps

\* Changed: the answer is not compared with the request the status names.
CtxAuthResult_AnyRequest(s) ==
  /\ Answered(s, "Auth")
  /\ status' = Ready
  /\ IF flight[s].answer = "ok"
       THEN /\ auth' = [key |-> flight[s].key, user |-> flight[s].user]
            /\ TakeBuckets(flight[s].user)
       ELSE UNCHANGED <<auth, uids>>
  /\ Done(s) /\ ApiKeeps

\* Internal::CtxAuthResult.  An answer to a request other than the one the
\* status names changes nothing; its session stays open at the API.
CtxAuthResult(s) ==
  /\ Answered(s, "Auth")
  /\ IF status # flight[s].user
       THEN UNCHANGED <<status, auth, uids>>
       ELSE /\ status' = Ready
            /\ IF flight[s].answer = "ok"
                 THEN /\ auth' = [key |-> flight[s].key, user |-> flight[s].user]
                      /\ TakeBuckets(flight[s].user)
                 ELSE UNCHANGED <<auth, uids>>
  /\ Done(s) /\ ApiKeeps

\* ActionCtx::Logout
Logout ==
  /\ EndSession
  /\ IF auth = NoAuth THEN UNCHANGED flight ELSE Send(DeleteSession)
  /\ ApiKeeps

\* ActionCtx::PullUserFromAPI, with the session's own key.
PullUserFromAPI ==
  /\ auth # NoAuth
  /\ Send(KeyRequest("GetUser", auth.key, FALSE))
  /\ UNCHANGED <<status, auth, uids>> /\ ApiKeeps

\* ActionCtx::PullUserFromAPI with a token, the key of any session there was.
PullUserWithToken(k) ==
  /\ TokenPulls
  /\ Send(KeyRequest("GetUser", k, TRUE))
  /\ UNCHANGED <<status, auth, uids>> /\ ApiKeeps

\* Changed: every answer is taken.
TakesUser_Any(r) == r.kind = "GetUser"

\* The arm UserAPIResult takes only the session's own answers, or a token's.
TakesUser(r) == r.overwritten \/ auth.key = r.key

\* Internal::UserAPIResult.  `changed' says whether the user's data, which the
\* model leaves out, differ from the profile's; API error 1 ends the session.
UserAPIResult(s, changed) ==
  LET r == flight[s] IN
  /\ Answered(s, "GetUser")
  /\ \/ /\ TakesUser(r) /\ r.answer = "ok"
        /\ IF auth # NoAuth /\ (auth.user # r.user \/ changed)
             THEN auth' = [auth EXCEPT !.user = r.user]
             ELSE IF r.overwritten THEN auth' = [key |-> r.key, user |-> r.user]
                                   ELSE UNCHANGED auth
        /\ Done(s) /\ UNCHANGED <<status, uids>>
     \/ /\ TakesUser(r) /\ r.answer = "expired"
        /\ EndSession
        /\ flight' = [flight EXCEPT ![s] = DeleteSession]
     \/ /\ ~TakesUser(r) \/ r.answer = "failed"
        /\ Done(s) /\ UNCHANGED <<status, auth, uids>>
  /\ ApiKeeps

\* ActionCtx::DeleteAccount
DeleteAccount ==
  /\ auth # NoAuth
  /\ Send(KeyRequest("DeleteAccount", auth.key, FALSE))
  /\ UNCHANGED <<status, auth, uids>> /\ ApiKeeps

\* Changed: the key of the answer is not compared with the session's.
DeleteAccountAPIResult_AnyKey(s) ==
  /\ Answered(s, "DeleteAccount")
  /\ IF flight[s].answer = "ok" THEN EndSession ELSE UNCHANGED <<status, auth, uids>>
  /\ Done(s) /\ ApiKeeps

\* Internal::DeleteAccountAPIResult
DeleteAccountAPIResult(s) ==
  /\ Answered(s, "DeleteAccount")
  /\ IF auth.key = flight[s].key /\ flight[s].answer = "ok"
       THEN EndSession
       ELSE UNCHANGED <<status, auth, uids>>
  /\ Done(s) /\ ApiKeeps
-----------------------------------------------------------------------------
(* The API, as far as fetch_api's answers show it. *)

CtxKeeps == UNCHANGED <<status, auth, uids>>

Answer(s, answer) == flight' = [flight EXCEPT ![s].answer = answer]

\* A session is opened for an account; the answer may be lost on its way.
ServeAuth(s) ==
  /\ Waits(s, "Auth")
  /\ \/ /\ Len(owner) < MaxKeys
        /\ owner' = Append(owner, flight[s].user)
        /\ open' = open \cup {Len(owner) + 1}
        /\ \/ flight' = [flight EXCEPT ![s].key = Len(owner) + 1, ![s].answer = "ok"]
           \/ Answer(s, "failed")
     \/ Answer(s, "failed") /\ ApiKeeps
  /\ CtxKeeps

\* Error code 1 is the answer to the key of a session that is not valid.
ServeGetUser(s) ==
  /\ Waits(s, "GetUser")
  /\ \/ /\ flight[s].key \in open
        /\ flight' = [flight EXCEPT ![s].user = owner[flight[s].key], ![s].answer = "ok"]
     \/ flight[s].key \notin open /\ Answer(s, "expired")
     \/ Answer(s, "failed")
  /\ CtxKeeps /\ ApiKeeps

\* The account's sessions end with it.
ServeDeleteAccount(s) ==
  /\ Waits(s, "DeleteAccount")
  /\ \/ /\ flight[s].key \in open
        /\ open' = {k \in open : owner[k] # owner[flight[s].key]}
        /\ Answer(s, "ok") \/ Answer(s, "failed")
     \/ Answer(s, "failed") /\ UNCHANGED open
  /\ CtxKeeps /\ UNCHANGED owner

\* The answer to delete_session is an event and nothing else.
ServeLogout(s) ==
  /\ Waits(s, "Logout")
  /\ open' = open \ {flight[s].key} \/ UNCHANGED open
  /\ Done(s)
  /\ CtxKeeps /\ UNCHANGED owner

\* Other devices open sessions of the accounts, and the API ends sessions.
OpenSession(u) ==
  /\ Len(owner) < MaxKeys
  /\ owner' = Append(owner, u)
  /\ open' = open \cup {Len(owner) + 1}
  /\ CtxKeeps /\ UNCHANGED flight

CloseSession(k) ==
  /\ open' = open \ {k}
  /\ CtxKeeps /\ UNCHANGED <<flight, owner>>
-----------------------------------------------------------------------------
Init ==
  /\ status = Ready
  /\ auth = NoAuth
  /\ uids = [b \in Buckets |-> NoUser]
  /\ flight = [s \in Slots |-> Free]
  /\ owner = <<>>
  /\ open = {}

Next ==
  \/ \E u \in Users : Authenticate(u) \/ OpenSession(u)
  \/ Logout \/ PullUserFromAPI \/ DeleteAccount
  \/ \E k \in 1 .. Len(owner) : PullUserWithToken(k) \/ CloseSession(k)
  \/ \E s \in Slots :
       \/ CtxAuthResult(s) \/ DeleteAccountAPIResult(s)
       \/ \E changed \in BOOLEAN : UserAPIResult(s, changed)
       \/ ServeAuth(s) \/ ServeGetUser(s) \/ ServeDeleteAccount(s) \/ ServeLogout(s)

Spec == Init /\ [][Next]_vars

\* fetch_api settles, by an answer or by an error, and the executor polls the
\* futures it was given until they end.
Fairness == \A s \in Slots : WF_vars(ServeAuth(s)) /\ WF_vars(CtxAuthResult(s))

-----------------------------------------------------------------------------
\* The profile never holds the key of one account and the user of another,
\* whichever answers of earlier sessions arrive late (update_profile.rs:375).
KeyMatchesUser == auth # NoAuth => auth.key <= Len(owner) /\ owner[auth.key] = auth.user

\* The buckets that both Logout and CtxAuthResult replace belong to the account of
\* the profile: no order of answers leaves one of them with the account before.
BucketsFollowProfile ==
  \A b \in Buckets \ (LeftByLogout \cup LeftByAuth) : uids[b] = auth.user

\* Signing in while signed in replaces the session; otherwise it ends only
\* because the user says so or because the API no longer knows its key.
SessionEndsForCause ==
  [][auth # NoAuth /\ auth' = NoAuth => Logout \/ auth.key \notin open]_vars

\* The account that is signed in changes only to the account asked for last, if
\* that was not cancelled, or to nobody: answers that come late sign nobody in.
Session == INSTANCE AccountSession
  WITH user <- auth.user, wanted <- IF status = Ready THEN NoUser ELSE status

SignsInAsAsked == Session!Spec

\* A sign-in does not stay under way for ever: the status leaves Loading.
SignInEnds == \A u \in Users : status = u ~> status # u
=============================================================================
