--------------------------- MODULE FrontendSession ---------------------------
(***************************************************************************)
(* The session of the browser: registry/src/store, the interceptor of      *)
(* services/axios.service.js, which lets API requests share one refresh,   *)
(* and the guard of router/index.js, which starts one of its own.          *)
(*                                                                         *)
(* The auth service issues access and refresh tokens in pairs, numbered    *)
(* from 1; 0 is no token.  A refresh token is good until it has been       *)
(* exchanged (the tests call it rotated).                                  *)
(***************************************************************************)
EXTENDS Naturals

CONSTANTS Request,     \* API requests
          Navigation,  \* navigations to a page other than /auth
          MaxPairs,    \* bound on the pairs of tokens issued
          Nobody
ASSUME CallerAssumption == /\ Request \cap Navigation = {} /\ Nobody \notin Request \cup Navigation
                           /\ MaxPairs \in Nat

Caller == Request \cup Navigation
Pair == 0 .. MaxPairs
NoCall == [token |-> 0, answer |-> "none", pair |-> 0]

VARIABLES
  pair,        \* the pair the store holds
  stored,      \* the pair in localStorage
  issued,      \* the number of pairs issued
  usable,      \* the pairs whose refresh token the auth service accepts
  expired,     \* the pairs whose access token has expired
  lapsed,      \* the pairs whose expires_at has passed
  calls,       \* what each caller has sent to /refresh, and the answer on its way
  refreshing,  \* the caller whose refresh the requests share, or Nobody
  state,       \* of each caller: "idle", "waiting", "done", "failed"
  auth         \* whether /auth has been shown since the page was loaded

vars == <<pair, stored, issued, usable, expired, lapsed, calls, refreshing, state, auth>>
service == <<issued, usable, expired, lapsed>>

Init ==
  /\ pair = 0 /\ stored = 0 /\ issued = 0 /\ usable = {} /\ expired = {} /\ lapsed = {}
  /\ calls = [c \in Caller |-> NoCall]
  /\ refreshing = Nobody
  /\ state = [c \in Caller |-> "idle"]
  /\ auth = FALSE

Expired == pair = 0 \/ pair \in expired
Refreshable == pair # 0 /\ pair \notin lapsed

Refresh(c) == calls' = [calls EXCEPT ![c] = [NoCall EXCEPT !.token = pair]]

-----------------------------------------------------------------------------
\* Mutation of Send: no refresh is shared.
SendAlone(r) ==
  /\ state[r] = "idle"
  /\ IF Expired /\ Refreshable
     THEN /\ Refresh(r) /\ refreshing' = r
          /\ state' = [state EXCEPT ![r] = "waiting"]
     ELSE state' = [state EXCEPT ![r] = "done"] /\ UNCHANGED <<calls, refreshing>>
  /\ UNCHANGED <<pair, stored, service, auth>>

\* The interceptor: a request is sent, or waits for the refresh there is.
Send(r) ==
  /\ state[r] = "idle"
  /\ IF Expired /\ Refreshable
     THEN /\ IF refreshing = Nobody
             THEN Refresh(r) /\ refreshing' = r
             ELSE UNCHANGED <<calls, refreshing>>
          /\ state' = [state EXCEPT ![r] = "waiting"]
     ELSE state' = [state EXCEPT ![r] = "done"] /\ UNCHANGED <<calls, refreshing>>
  /\ UNCHANGED <<pair, stored, service, auth>>

\* The guard: it lets a session in, refreshes it, or leads to /auth.
Navigate(n) ==
  /\ state[n] = "idle"
  /\ IF ~ Expired THEN state' = [state EXCEPT ![n] = "done"] /\ UNCHANGED calls
     ELSE IF Refreshable THEN Refresh(n) /\ state' = [state EXCEPT ![n] = "waiting"]
     ELSE state' = [state EXCEPT ![n] = "failed"] /\ UNCHANGED calls
  /\ UNCHANGED <<pair, stored, service, refreshing, auth>>

\* The auth service exchanges a refresh token once.
Exchange(c) ==
  /\ calls[c].answer = "none" /\ calls[c].token \in usable
  /\ issued < MaxPairs
  /\ issued' = issued + 1
  /\ usable' = (usable \ {calls[c].token}) \cup {issued'}
  /\ calls' = [calls EXCEPT ![c].answer = "pair", ![c].pair = issued']
  /\ UNCHANGED <<pair, stored, expired, lapsed, refreshing, state, auth>>

\* It refuses one that has been exchanged or revoked.
RefuseToken(c) ==
  /\ calls[c].answer = "none" /\ calls[c].token \notin usable \cup {0}
  /\ calls' = [calls EXCEPT ![c].answer = "refused"]
  /\ UNCHANGED <<pair, stored, service, refreshing, state, auth>>

\* Any other failure: the proxy answers 502 or 503, the network fails.
Unavailable(c) ==
  /\ calls[c].answer = "none" /\ calls[c].token # 0
  /\ calls' = [calls EXCEPT ![c].answer = "failed"]
  /\ UNCHANGED <<pair, stored, service, refreshing, state, auth>>

\* Mutation of Awaiting: the requests that share a refresh are not woken.
AwaitingAlone(c) == {c}

\* Who awaits the refresh of c.
Awaiting(c) == {c} \cup IF refreshing = c THEN {r \in Request : state[r] = "waiting"} ELSE {}

\* Mutation of Deliver: clearSession leaves localStorage.
DeliverInMemory(c) ==
  LET call == calls[c]
  IN  /\ call.answer # "none"
      /\ pair' = call.pair
      /\ stored' = IF call.pair # 0 THEN call.pair ELSE stored
      /\ refreshing' = IF refreshing = c THEN Nobody ELSE refreshing
      /\ calls' = [calls EXCEPT ![c] = NoCall]
      /\ state' = [d \in Caller |-> IF d \notin Awaiting(c) THEN state[d]
                                    ELSE IF call.answer = "pair" THEN "done" ELSE "failed"]
      /\ UNCHANGED <<service, auth>>

\* Mutation of Deliver: setTokens leaves localStorage.
DeliverUnstored(c) ==
  LET call == calls[c]
  IN  /\ call.answer # "none"
      /\ pair' = call.pair
      /\ stored' = IF call.pair # 0 THEN stored ELSE 0
      /\ refreshing' = IF refreshing = c THEN Nobody ELSE refreshing
      /\ calls' = [calls EXCEPT ![c] = NoCall]
      /\ state' = [d \in Caller |-> IF d \notin Awaiting(c) THEN state[d]
                                    ELSE IF call.answer = "pair" THEN "done" ELSE "failed"]
      /\ UNCHANGED <<service, auth>>

\* The answer arrives: setTokens, or clearSession; the refresh is over before
\* those who await it go on.
Deliver(c) ==
  LET call == calls[c]
  IN  /\ call.answer # "none"
      /\ pair' = call.pair
      /\ stored' = call.pair
      /\ refreshing' = IF refreshing = c THEN Nobody ELSE refreshing
      /\ calls' = [calls EXCEPT ![c] = NoCall]
      /\ state' = [d \in Caller |-> IF d \notin Awaiting(c) THEN state[d]
                                    ELSE IF call.answer = "pair" THEN "done" ELSE "failed"]
      /\ UNCHANGED <<service, auth>>

\* The router shows /auth whenever the access token is not valid, also with a
\* pair that could be refreshed and with refreshes under way.
ShowAuth ==
  /\ Expired
  /\ auth' = TRUE
  /\ UNCHANGED <<pair, stored, service, calls, refreshing, state>>

\* A login sent from /auth is answered, whatever the store has come to hold: a
\* pair that nobody else knows yet.  A login that fails changes nothing.
Login ==
  /\ auth
  /\ issued < MaxPairs
  /\ issued' = issued + 1
  /\ usable' = usable \cup {issued'}
  /\ pair' = issued' /\ stored' = issued'
  /\ UNCHANGED <<expired, lapsed, calls, refreshing, state, auth>>

\* The page is loaded again: answers on their way are lost.
Reload ==
  /\ pair' = stored
  /\ calls' = [c \in Caller |-> NoCall]
  /\ refreshing' = Nobody
  /\ state' = [c \in Caller |-> "idle"]
  /\ auth' = FALSE
  /\ UNCHANGED <<stored, service>>

\* The caller asks again later.
Again(c) ==
  /\ state[c] \in {"done", "failed"}
  /\ state' = [state EXCEPT ![c] = "idle"]
  /\ UNCHANGED <<pair, stored, service, calls, refreshing, auth>>

Time ==
  /\ \E n \in 1 .. issued :
       \/ expired' = expired \cup {n} /\ UNCHANGED <<usable, lapsed>>
       \/ lapsed' = lapsed \cup {n} /\ UNCHANGED <<usable, expired>>
       \/ usable' = usable \ {n} /\ UNCHANGED <<expired, lapsed>>
  /\ UNCHANGED <<pair, stored, issued, calls, refreshing, state, auth>>

Answer(c) == Exchange(c) \/ RefuseToken(c) \/ Unavailable(c)

Next ==
  \/ \E r \in Request : Send(r)
  \/ \E n \in Navigation : Navigate(n)
  \/ \E c \in Caller : Answer(c) \/ Deliver(c) \/ Again(c)
  \/ ShowAuth \/ Login \/ Reload \/ Time

Spec == Init /\ [][Next]_vars

\* Where no refresh is under way when a login is answered.
QuietSpec == Init /\ [][Next /\ (Login => \A c \in Caller : calls[c] = NoCall)]_vars

\* The proxy answers within 20 seconds, if only that the service is unavailable,
\* and the page's event loop runs every callback.
FairSpec == Spec /\ \A c \in Caller : WF_vars(Answer(c)) /\ WF_vars(Deliver(c))

-----------------------------------------------------------------------------
(* Properties *)

\* Every variable holds a value of its type, and localStorage what the store does.
TypeOK ==
  /\ stored = pair /\ pair \in 0 .. issued /\ issued \in Pair
  /\ usable \cup expired \cup lapsed \subseteq 1 .. issued
  /\ calls \in [Caller -> [token : Pair, answer : {"none", "pair", "refused", "failed"}, pair : Pair]]
  /\ refreshing \in Request \cup {Nobody}
  /\ state \in [Caller -> {"idle", "waiting", "done", "failed"}]
  /\ auth \in BOOLEAN

\* A request or a navigation that waits for a refresh, its own or another's, is
\* decided, also when the refresh fails (axios.service.js:18, index.js:51).
WaitersAreDecided ==
  \A c \in Caller : state[c] = "waiting" ~> state[c] # "waiting"

\* Nobody waits for an answer that is not to come: a waiting request shares a
\* refresh that is on its way, and a waiting navigation has sent one of its own.
\* The end of a refresh, a failed one too, and a reload leave nobody behind
\* (axios.service.js:18, index.js:51).
NobodyWaitsInVain ==
  /\ \A r \in Request : state[r] = "waiting" =>
       refreshing # Nobody /\ calls[refreshing].token # 0
  /\ \A n \in Navigation : state[n] = "waiting" => calls[n].token # 0

\* tests/auth.test.cjs:108: parallel API requests refresh once.  However requests
\* join, no refresh token is on its way twice.
RefreshedOnce ==
  \A c, d \in Request : c # d /\ calls[c].token = calls[d].token => calls[c].token = 0

\* The session survives reloads, logins and overlapping refreshes: the store
\* gives up a pair the auth service would still exchange, and that has not lapsed,
\* for one it would not, or for none, only with the answer to one refresh, and
\* only if that says the service is unavailable or is for another pair
\* (store/index.js:35, store/index.js:82, axios.service.js:18).
SessionIsKept ==
  [][ (pair \in usable /\ pair \notin lapsed /\ pair' # pair /\ pair' \notin usable') =>
        \E c \in Caller :
          /\ calls' = [calls EXCEPT ![c] = NoCall]
          /\ calls[c].answer = "failed" \/ (calls[c].answer # "none" /\ calls[c].token # pair) ]_vars

\* tests/auth.test.cjs:49: login and refresh preserve rotated tokens.  The store
\* gives up a pair the auth service would still exchange, and that has not
\* lapsed, for one it would not, or for none, only because the service was
\* unavailable (setTokens, clearSession).
RotatedTokensArePreserved ==
  [][ (pair \in usable /\ pair \notin lapsed /\ pair' # pair /\ pair' \notin usable') =>
        \E c \in Caller : calls[c].answer = "failed" /\ calls'[c] = NoCall ]_vars
=============================================================================
