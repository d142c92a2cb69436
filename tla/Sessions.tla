------------------------------- MODULE Sessions -------------------------------
(***************************************************************************)
(* One user's session: AuthService with its controller, the cookies of the *)
(* browser, and the tabs, each with the copies of the tokens that          *)
(* lib/api.ts keeps and the calls that go through apiFetch.                *)
(*                                                                         *)
(* A refresh token is the tokenVersion it was signed for, 0 for none.  An  *)
(* access token is the number of the answer that issued it; all with a     *)
(* number up to expired have run out, and their cookies with them.         *)
(*                                                                         *)
(* A tab has at most one refresh underway, which all its refused calls     *)
(* wait for, and one request of the user (login, logout, a new password).  *)
(* The server reads the version in one step and writes it in another.      *)
(***************************************************************************)
EXTENDS Integers, Sequences, FiniteSets

CONSTANTS
    Tabs,        \* the tabs of one browser
    Calls,       \* calls of the API
    TabOf,       \* the tab a call is made in
    Lossy,       \* whether an answer of the server may get lost
    Patient,     \* whether the user waits: nothing is started in a tab while another tab,
                 \* or a message between tabs, is underway; what the user does in a tab
                 \* waits for its calls, a logout only for their first answers
    MaxIssued    \* bound: after so many tokens or versions none run out, and nobody logs
                 \* in, logs out or changes the password

ASSUME SessionsAssumption ==
    /\ TabOf \in [Calls -> Tabs]
    /\ Lossy \in BOOLEAN /\ Patient \in BOOLEAN
    /\ MaxIssued \in Nat

VARIABLES
    version,   \* User.tokenVersion
    issued,    \* how many pairs of tokens the server has signed
    expired,   \* the access tokens up to this number have run out
    jar,       \* the cookies: access and refresh
    memory,    \* tab -> the copies in its variables accessToken and refreshToken
    listens,   \* the tabs that have opened their BroadcastChannel
    channel,   \* <<sender, receiver>> -> messages on their way
    calls,     \* call -> stage, and the access token it was sent with
    refreshing,\* tab -> the refresh that is underway
    requests   \* tab -> the login, logout or change of password that is underway

server  == <<version, issued>>
browser == <<jar, memory, listens, channel>>
sessionsVars == <<server, expired, browser, calls, refreshing, requests>>

Tokens       == [access : Nat, refresh : Nat]
NoTokens     == [access |-> 0, refresh |-> 0]
NoRequest    == [stage |-> "none"]
OtherTabs(t) == Tabs \ {t}

\* A request: the token and the cookie that it sent, what the server read, and the tokens of the answer.
IsSessionRequest(r) ==
    \/ r = NoRequest
    \/ /\ r.stage \in {"sent", "read", "hashed", "refused", "answered"}
       /\ {r.token, r.cookie, r.seen} \subseteq Nat /\ r.answer \in Tokens
       /\ r.op \in {"refresh", "login", "logout", "password"}

SessionsTypeOK ==
    /\ version \in Nat \ {0} /\ issued \in Nat /\ expired \in 0..issued
    /\ jar \in Tokens /\ memory \in [Tabs -> Tokens] /\ listens \subseteq Tabs
    /\ channel \in [Tabs \X Tabs -> Seq(Tokens)]
    /\ calls \in [Calls -> [stage : {"sent", "denied", "retry", "resent", "done", "failed"},
                            access : Nat]]
    /\ \A t \in Tabs : IsSessionRequest(refreshing[t]) /\ IsSessionRequest(requests[t])

SessionsInit ==
    /\ version = 1 /\ issued = 0 /\ expired = 0
    /\ jar = NoTokens
    /\ memory = [t \in Tabs |-> NoTokens]
    /\ listens = {}
    /\ channel = [x \in Tabs \X Tabs |-> <<>>]
    /\ calls = [c \in Calls |-> [stage |-> "done", access |-> 0]]
    /\ refreshing = [t \in Tabs |-> NoRequest]
    /\ requests = [t \in Tabs |-> NoRequest]

-------------------------------------------------------------------------------
(* The tabs: lib/api.ts.                                                    *)

Underway(t) == refreshing[t] # NoRequest \/ requests[t] # NoRequest
InFlight(t) == \E c \in Calls : TabOf[c] = t /\ calls[c].stage \notin {"done", "failed"}
Delivered   == \A x \in Tabs \X Tabs : channel[x] = <<>>
Quiet       == Delivered /\ \A t \in Tabs : ~Underway(t)

MayStart(t) ==
    Patient => /\ Delivered /\ requests[t] = NoRequest
               /\ \A s \in OtherTabs(t) : ~Underway(s) /\ ~InFlight(s)

\* Mutant: the tab does not tell the others.
MutantPublished(t, tokens) == channel

\* publishTokens: to the tabs that listen; a tab listens once it has published.
Published(t, tokens) ==
    [x \in Tabs \X Tabs |->
        IF x[1] = t /\ x[2] \in OtherTabs(t) \cap listens THEN Append(channel[x], tokens)
        ELSE channel[x]]

\* The answer sets the cookies, and the tab keeps and shares what it says.
Adopt(t, tokens) ==
    /\ jar' = tokens
    /\ memory' = [memory EXCEPT ![t] = tokens]
    /\ channel' = Published(t, tokens)
    /\ listens' = listens \cup {t}

\* Mutant: only the access token is taken over.
MutantReceived(t, tokens) == [memory EXCEPT ![t].access = tokens.access]

\* tokenBus().onmessage.
Received(t, tokens) == [memory EXCEPT ![t] = tokens]

Deliver(s, t) ==
    /\ channel[<<s, t>>] # <<>>
    /\ memory' = Received(t, Head(channel[<<s, t>>]))
    /\ channel' = [channel EXCEPT ![<<s, t>>] = Tail(@)]
    /\ UNCHANGED <<server, expired, jar, listens, calls, refreshing, requests>>

Fresh(access) == access > expired

\* JwtStrategy takes the cookie before the header; the cookie runs out with its token.
Presented(t) == IF Fresh(jar.access) THEN jar.access ELSE memory[t].access

\* apiFetch.
Call(c) ==
    /\ calls[c].stage \in {"done", "failed"}
    /\ MayStart(TabOf[c])
    /\ calls' = [calls EXCEPT ![c] = [stage |-> "sent", access |-> Presented(TabOf[c])]]
    /\ UNCHANGED <<server, expired, browser, refreshing, requests>>

CallAccepted(c) ==
    /\ calls[c].stage \in {"sent", "resent"}
    /\ Fresh(calls[c].access)
    /\ calls' = [calls EXCEPT ![c] = [stage |-> "done", access |-> 0]]
    /\ UNCHANGED <<server, expired, browser, refreshing, requests>>

\* What tryRefresh sends: the copy in memory in the body, and the cookie with it.

\* The controller takes the token of the body before the cookie.
RefreshWith(t) == IF memory[t].refresh # 0 THEN memory[t].refresh ELSE jar.refresh

Sent(op, token) ==
    [stage |-> "sent", op |-> op, token |-> token, cookie |-> jar.refresh, seen |-> 0,
     answer |-> NoTokens]

\* A call that is refused for the first time waits for the tab's refresh, and starts it
\* when there is none.
CallDenied(c) ==
    LET t == TabOf[c]
    IN  /\ calls[c].stage = "sent"
        /\ ~Fresh(calls[c].access)
        /\ calls' = [calls EXCEPT ![c] = [stage |-> "denied", access |-> 0]]
        /\ refreshing' = IF refreshing[t] = NoRequest
                         THEN [refreshing EXCEPT ![t] = Sent("refresh", RefreshWith(t))]
                         ELSE refreshing
        /\ UNCHANGED <<server, expired, browser, requests>>

\* A retried call is not retried again.
CallFailed(c) ==
    /\ calls[c].stage = "resent"
    /\ ~Fresh(calls[c].access)
    /\ calls' = [calls EXCEPT ![c] = [stage |-> "failed", access |-> 0]]
    /\ UNCHANGED <<server, expired, browser, refreshing, requests>>

Unanswered(t) == \E c \in Calls : TabOf[c] = t /\ calls[c].stage = "sent"
Waiting(t) == {c \in Calls : TabOf[c] = t /\ calls[c].stage = "denied"}

\* Mutant: only one of the calls that wait hears of the refresh.
MutantReleased(t, stage) ==
    LET first == CHOOSE c \in Waiting(t) : TRUE
    IN  [c \in Calls |-> IF c \in Waiting(t) /\ c = first
                         THEN [calls[c] EXCEPT !.stage = stage] ELSE calls[c]]

\* All the calls that wait get the result of the one refresh.
Released(t, stage) ==
    [c \in Calls |-> IF c \in Waiting(t) THEN [calls[c] EXCEPT !.stage = stage] ELSE calls[c]]

Resend(c) ==
    /\ calls[c].stage = "retry"
    /\ calls' = [calls EXCEPT ![c] = [stage |-> "resent", access |-> Presented(TabOf[c])]]
    /\ UNCHANGED <<server, expired, browser, refreshing, requests>>

RefreshDone(t) ==
    /\ refreshing[t].stage = "answered"
    /\ Adopt(t, refreshing[t].answer)
    /\ calls' = Released(t, "retry")
    /\ refreshing' = [refreshing EXCEPT ![t] = NoRequest]
    /\ UNCHANGED <<server, expired, requests>>

\* The tokens in memory are dropped, those in the cookies stay.
GiveUp(t) ==
    /\ memory' = [memory EXCEPT ![t] = NoTokens]
    /\ calls' = Released(t, "failed")
    /\ refreshing' = [refreshing EXCEPT ![t] = NoRequest]
    /\ UNCHANGED <<server, expired, jar, listens, channel, requests>>

RefreshRefused(t) == refreshing[t].stage = "refused" /\ GiveUp(t)

\* The answer, or the request itself, does not arrive.  (A lost refusal is like one.)
RefreshLost(t) ==
    /\ Lossy
    /\ refreshing[t].stage \in {"sent", "answered"}
    /\ GiveUp(t)

-------------------------------------------------------------------------------
(* The server: auth.service.ts.                                             *)

\* A token is good for the version it was signed for.
RefreshRead(t) ==
    LET r == refreshing[t]
        good == r.token # 0 /\ r.token = version
    IN  /\ r.stage = "sent"
        /\ refreshing' = [refreshing EXCEPT
                            ![t].stage = IF good THEN "read" ELSE "refused",
                            ![t].seen = version]
        /\ UNCHANGED <<server, expired, browser, calls, requests>>

\* A pair of tokens is signed.
Issue(for) == [access |-> issued + 1, refresh |-> for]

\* Mutant: the version stays.
MutantRotated(seen) == seen

\* "Every successful refresh bumps the version."
Rotated(seen) == seen + 1

RefreshWrite(t) ==
    /\ refreshing[t].stage = "read"
    /\ version' = Rotated(refreshing[t].seen)
    /\ issued' = issued + 1
    /\ refreshing' = [refreshing EXCEPT ![t].stage = "answered",
                                        ![t].answer = Issue(refreshing[t].seen + 1)]
    /\ UNCHANGED <<expired, browser, calls, requests>>

-------------------------------------------------------------------------------
(* The user: login, logout and a new password.                              *)

AskServer(t, op, token) ==
    /\ requests[t] = NoRequest
    /\ issued < MaxIssued /\ version < MaxIssued
    /\ MayStart(t)
    /\ Patient => IF op = "logout" THEN Waiting(t) = {} /\ ~Unanswered(t) ELSE ~InFlight(t)
    /\ requests' = [requests EXCEPT ![t] = Sent(op, token)]
    /\ UNCHANGED <<server, expired, browser, calls, refreshing>>

Asked(t, op, stage) == requests[t].stage = stage /\ requests[t].op = op

Login(t) == AskServer(t, "login", 0)

\* The cookie first, the token in memory as the fallback.
Logout(t) == AskServer(t, "logout", IF jar.refresh # 0 THEN jar.refresh ELSE memory[t].refresh)

\* Somebody who is logged in: the call needs a fresh access token.
ChangePassword(t) == Fresh(Presented(t)) /\ AskServer(t, "password", 0)

\* The password, or the second factor, was right: the version does not change.
LoginServed(t) ==
    /\ Asked(t, "login", "sent")
    /\ issued' = issued + 1
    /\ requests' = [requests EXCEPT ![t].stage = "answered", ![t].answer = Issue(version)]
    /\ UNCHANGED <<version, expired, browser, calls, refreshing>>

LogoutRead(t) ==
    /\ Asked(t, "logout", "sent")
    /\ requests' = [requests EXCEPT ![t].stage = IF requests[t].token = 0 THEN "answered" ELSE "read",
                                    ![t].seen = version]
    /\ UNCHANGED <<server, expired, browser, calls, refreshing>>

LogoutWrite(t) ==
    /\ Asked(t, "logout", "read")
    /\ version' = Rotated(requests[t].seen)
    /\ requests' = [requests EXCEPT ![t].stage = "answered"]
    /\ UNCHANGED <<issued, expired, browser, calls, refreshing>>

\* The version that the new tokens are signed for is taken from this read.
PasswordRead(t) ==
    /\ Asked(t, "password", "sent")
    /\ requests' = [requests EXCEPT ![t].stage = "read", ![t].token = version + 1]
    /\ UNCHANGED <<server, expired, browser, calls, refreshing>>

\* The hash is stored; revokeAllRefreshTokens reads the version again.
PasswordStored(t) ==
    /\ Asked(t, "password", "read")
    /\ requests' = [requests EXCEPT ![t].stage = "hashed", ![t].seen = version]
    /\ UNCHANGED <<server, expired, browser, calls, refreshing>>

Reissued(t) == Issue(requests[t].token)

PasswordWrite(t) ==
    /\ Asked(t, "password", "hashed")
    /\ version' = Rotated(requests[t].seen)
    /\ issued' = issued + 1
    /\ requests' = [requests EXCEPT ![t].stage = "answered", ![t].answer = Reissued(t)]
    /\ UNCHANGED <<expired, browser, calls, refreshing>>

\* setTokens.
SignedIn(t) ==
    /\ requests[t].stage = "answered" /\ requests[t].op \in {"login", "password"}
    /\ Adopt(t, requests[t].answer)
    /\ requests' = [requests EXCEPT ![t] = NoRequest]
    /\ UNCHANGED <<server, expired, calls, refreshing>>

\* The cookies are cleared, and the copies of this tab only.
SignedOut(t) ==
    /\ Asked(t, "logout", "answered")
    /\ jar' = NoTokens
    /\ memory' = [memory EXCEPT ![t] = NoTokens]
    /\ requests' = [requests EXCEPT ![t] = NoRequest]
    /\ UNCHANGED <<server, expired, listens, channel, calls, refreshing>>

\* The tab forgets its tokens although the cookies stay ("finally"); a login or a new
\* password whose answer is lost changes nothing in the tab.
RequestLost(t) ==
    /\ Lossy
    /\ requests[t].stage = "answered"
    /\ memory' = IF requests[t].op = "logout" THEN [memory EXCEPT ![t] = NoTokens] ELSE memory
    /\ requests' = [requests EXCEPT ![t] = NoRequest]
    /\ UNCHANGED <<server, expired, jar, listens, channel, calls, refreshing>>

-------------------------------------------------------------------------------

\* Fifteen minutes pass; no call takes that long.
Expire ==
    /\ expired < issued /\ issued < MaxIssued
    /\ \A t \in Tabs : ~Underway(t) /\ ~InFlight(t)
    /\ expired' = issued
    /\ UNCHANGED <<server, browser, calls, refreshing, requests>>

\* A tab is reloaded: the variables of the page start again.  Its calls are gone.
ReloadTab(t) ==
    /\ ~Underway(t) /\ ~InFlight(t)
    /\ memory[t] # NoTokens
    /\ memory' = [memory EXCEPT ![t] = NoTokens]
    /\ listens' = listens \ {t}
    /\ channel' = [x \in Tabs \X Tabs |-> IF x[2] = t THEN <<>> ELSE channel[x]]
    /\ UNCHANGED <<server, expired, jar, calls, refreshing, requests>>

CallStep(c)   == CallAccepted(c) \/ CallDenied(c) \/ CallFailed(c) \/ Resend(c)
RefreshServed(t) == RefreshRead(t) \/ RefreshWrite(t)
RequestServed(t) == \/ LoginServed(t) \/ LogoutRead(t) \/ LogoutWrite(t)
                    \/ PasswordRead(t) \/ PasswordStored(t) \/ PasswordWrite(t)
RefreshEnds(t)   == RefreshDone(t) \/ RefreshRefused(t) \/ RefreshLost(t)
RequestEnds(t)   == SignedIn(t) \/ SignedOut(t) \/ RequestLost(t)

SessionsNext ==
    \/ \E c \in Calls : Call(c) \/ CallStep(c)
    \/ \E t \in Tabs :
          \/ RefreshServed(t) \/ RequestServed(t) \/ RefreshEnds(t) \/ RequestEnds(t)
          \/ Login(t) \/ Logout(t) \/ ChangePassword(t) \/ ReloadTab(t)
    \/ \E s, t \in Tabs : Deliver(s, t)
    \/ Expire

\* Each request is served and answered or known to be lost, and the event loop of a tab
\* takes its messages; what the user does is not fair.
Fairness ==
    /\ \A c \in Calls : WF_sessionsVars(CallStep(c))
    /\ \A t \in Tabs : WF_sessionsVars(RefreshServed(t)) /\ WF_sessionsVars(RefreshEnds(t))
    /\ \A t \in Tabs : WF_sessionsVars(RequestServed(t)) /\ WF_sessionsVars(RequestEnds(t))
    /\ \A s, t \in Tabs : WF_sessionsVars(Deliver(s, t))

SessionsSpec == SessionsInit /\ [][SessionsNext]_sessionsVars /\ Fairness

-------------------------------------------------------------------------------
(* Correctness.                                                             *)

\* "Broadcasting the new pair keeps every tab on the same generation": whenever nothing
\* is underway, a tab holds the refresh token of the cookie or none.
SameGeneration ==
    Quiet /\ jar.refresh # 0 =>
        \A t \in Tabs : memory[t].refresh \in {0, jar.refresh}

\* "The httpOnly refresh cookie is the real source of truth": a refresh is refused only
\* while the cookie would be refused as well.
CookieDecides ==
    \A t \in Tabs : refreshing[t].stage = "refused" => refreshing[t].cookie # refreshing[t].seen

\* A change of password "re-issues fresh tokens for the current session": when its
\* answer is there, the refresh token in it is good.
PasswordKeepsSession ==
    \A t \in Tabs : Asked(t, "password", "answered") => requests[t].answer.refresh = version

\* Every call ends: with an answer, or with an error after at most one retry, whatever
\* was lost and whichever tab rotated the tokens in between.
CallEnds ==
    \A c \in Calls : calls[c].stage = "sent" ~> calls[c].stage \in {"done", "failed"}

\* A user who is logged in gets an answer: a call that is made while the cookie is good
\* does not fail unless the session ended (a call that is sent again after a logout has no
\* token) or an answer was lost in between.
SessionServes ==
    [][\A c \in Calls : calls'[c].stage = "failed" /\ calls[c].stage # "failed" =>
          \/ jar.refresh # version
          \/ calls[c].stage = "resent" /\ calls[c].access = 0
          \/ RefreshLost(TabOf[c])]_sessionsVars
=============================================================================
