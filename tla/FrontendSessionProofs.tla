----------------------- MODULE FrontendSessionProofs -----------------------
(***************************************************************************)
(* Proofs about FrontendSession, for any number of requests, navigations   *)
(* and pairs.  The invariant IInv says of the call of a request that it is *)
(* the shared one, and of every call that it names pairs that were issued. *)
(* Decided adds that an answered call was sent, and that the token of one  *)
(* that was exchanged or refused is good no more; ServedInv, that whoever  *)
(* waits shares a call that is under way; without navigations, Fresh adds  *)
(* that a call is for the pair the store holds.                            *)
(***************************************************************************)
EXTENDS FrontendSession, TLAPS

Answers == {"none", "pair", "refused", "failed"}

\* A call names no pair that was not issued.
CallsNameIssued ==
  \A c \in Caller : calls[c].token \in 0 .. issued /\ calls[c].pair \in 0 .. issued

\* The only call a request has made is the shared one.
Shared == \A r \in Request : calls[r].token # 0 => refreshing = r

IInv == TypeOK /\ CallsNameIssued /\ Shared

LEMMA InitIInv == Init => IInv
<1> SUFFICES ASSUME Init PROVE IInv
  OBVIOUS
<1>1. auth \in BOOLEAN
  BY Zenon DEF Init
<1> QED
  BY <1>1, CallerAssumption
     DEF Init, IInv, TypeOK, CallsNameIssued, Shared, NoCall, Pair, Caller

LEMMA SendStep == ASSUME IInv, NEW r \in Request, Send(r) PROVE IInv'
BY CallerAssumption
   DEF IInv, TypeOK, CallsNameIssued, Shared, Send, Refresh, NoCall, Pair, Caller, service

LEMMA NavigateStep == ASSUME IInv, NEW n \in Navigation, Navigate(n) PROVE IInv'
BY CallerAssumption
   DEF IInv, TypeOK, CallsNameIssued, Shared, Navigate, Refresh, NoCall, Pair, Caller, service

LEMMA AnswerStep == ASSUME IInv, NEW c \in Caller, Answer(c) PROVE IInv'
<1>1. CASE Exchange(c)
  BY <1>1, CallerAssumption
     DEF IInv, TypeOK, CallsNameIssued, Shared, Exchange, Pair, Caller
<1>2. CASE RefuseToken(c)
  BY <1>2, CallerAssumption
     DEF IInv, TypeOK, CallsNameIssued, Shared, RefuseToken, Pair, Caller, service
<1>3. CASE Unavailable(c)
  BY <1>3, CallerAssumption
     DEF IInv, TypeOK, CallsNameIssued, Shared, Unavailable, Pair, Caller, service
<1> QED BY <1>1, <1>2, <1>3 DEF Answer

LEMMA DeliverStep == ASSUME IInv, NEW c \in Caller, Deliver(c) PROVE IInv'
BY CallerAssumption
   DEF IInv, TypeOK, CallsNameIssued, Shared, Deliver, Awaiting, NoCall, Pair, Caller, service

LEMMA AgainStep == ASSUME IInv, NEW c \in Caller, Again(c) PROVE IInv'
BY DEF IInv, TypeOK, CallsNameIssued, Shared, Again, service

LEMMA PageStep == ASSUME IInv, ShowAuth \/ Login \/ Reload \/ Time PROVE IInv'
<1>1. CASE Login
  BY <1>1, CallerAssumption DEF IInv, TypeOK, CallsNameIssued, Shared, Login, Pair, Caller
<1>2. CASE Reload
  <2>1. auth' \in BOOLEAN
    BY <1>2, Zenon DEF Reload
  <2> QED
    BY <1>2, <2>1, CallerAssumption
       DEF IInv, TypeOK, CallsNameIssued, Shared, Reload, NoCall, Pair, Caller, service
<1>3. CASE Time
  BY <1>3 DEF IInv, TypeOK, CallsNameIssued, Shared, Time
<1>4. CASE ShowAuth
  BY <1>4 DEF IInv, TypeOK, CallsNameIssued, Shared, ShowAuth, service
<1> QED BY <1>1, <1>2, <1>3, <1>4

LEMMA IInvStep == IInv /\ [Next]_vars => IInv'
<1> SUFFICES ASSUME IInv, [Next]_vars PROVE IInv'
  OBVIOUS
<1>1. CASE UNCHANGED vars
  BY <1>1 DEF IInv, TypeOK, CallsNameIssued, Shared, vars
<1> QED
  BY <1>1, SendStep, NavigateStep, AnswerStep, DeliverStep, AgainStep, PageStep DEF Next

LEMMA Invariance == Spec => []IInv
BY InitIInv, IInvStep, PTL DEF Spec

\* Every variable of the session keeps its type, and localStorage holds the
\* pair the store does (setTokens and clearSession write both).
THEOREM SessionTypeCorrect == Spec => []TypeOK
BY Invariance, PTL DEF IInv

LEMMA SharedOnce == IInv => RefreshedOnce
<1> SUFFICES ASSUME IInv,
                    NEW c \in Request, NEW d \in Request,
                    c # d, calls[c].token = calls[d].token
             PROVE  calls[c].token = 0
  BY DEF RefreshedOnce
<1> QED BY DEF IInv, Shared

\* However many requests find the access token expired, and whatever happens
\* to their refresh, no refresh token is on its way twice (the interceptor's
\* "refreshing" promise).
THEOREM RequestsRefreshOnce == Spec => []RefreshedOnce
BY Invariance, SharedOnce, PTL

-----------------------------------------------------------------------------
(* Whoever starts a refresh, an answer for the pair the store holds does not cost it the session *)

\* Only a call that was sent is answered, and once the token was exchanged or
\* refused it is good no more.
Decided ==
  \A c \in Caller :
    /\ calls[c].answer # "none" => calls[c].token # 0
    /\ calls[c].answer \in {"pair", "refused"} => calls[c].token \notin usable

LEMMA InitDecided == Init => Decided
BY DEF Init, Decided, NoCall

LEMMA ExchangeDecided ==
  ASSUME IInv, Decided, NEW c \in Caller, Exchange(c)
  PROVE  Decided'
<1>1. \A d \in Caller \ {c} : calls'[d] = calls[d]
  BY DEF IInv, TypeOK, Exchange
<1>2. calls'[c].token = calls[c].token /\ calls[c].token \in usable
  BY DEF IInv, TypeOK, Exchange
<1>3. usable' = (usable \ {calls[c].token}) \cup {issued + 1}
  BY DEF Exchange
<1>4. /\ issued \in Nat /\ usable \subseteq 1 .. issued
      /\ \A d \in Caller : calls[d].token \in 0 .. issued
  BY CallerAssumption DEF IInv, TypeOK, CallsNameIssued, Pair
<1>5. calls[c].token # 0 /\ calls[c].token \notin usable'
  BY <1>2, <1>3, <1>4
<1>6. \A d \in Caller : calls[d].token \notin usable => calls[d].token \notin usable'
  BY <1>3, <1>4
<1>7. ASSUME NEW d \in Caller
      PROVE  /\ calls'[d].answer # "none" => calls'[d].token # 0
             /\ calls'[d].answer \in {"pair", "refused"} => calls'[d].token \notin usable'
  <2>1. CASE d = c
    BY <1>2, <1>5, <2>1
  <2>2. CASE d # c
    <3>1. calls'[d] = calls[d]
      BY <1>1, <2>2
    <3>2. /\ calls[d].answer # "none" => calls[d].token # 0
          /\ calls[d].answer \in {"pair", "refused"} => calls[d].token \notin usable
      BY DEF Decided
    <3> QED BY <3>1, <3>2, <1>6
  <2> QED BY <2>1, <2>2
<1> QED BY <1>7 DEF Decided

LEMMA DecidedStep ==
  ASSUME IInv, Decided, [Next]_vars
  PROVE  Decided'
<1>1. ASSUME NEW r \in Request, Send(r) PROVE Decided'
  BY <1>1 DEF IInv, TypeOK, Decided, Send, Refresh, NoCall, Caller, service
<1>2. ASSUME NEW n \in Navigation, Navigate(n) PROVE Decided'
  BY <1>2 DEF IInv, TypeOK, Decided, Navigate, Refresh, NoCall, Caller, service
<1>3. ASSUME NEW c \in Caller, RefuseToken(c) \/ Unavailable(c) PROVE Decided'
  BY <1>3 DEF IInv, TypeOK, Decided, RefuseToken, Unavailable, Caller, service
<1>4. ASSUME NEW c \in Caller, Deliver(c) PROVE Decided'
  BY <1>4 DEF IInv, TypeOK, Decided, Deliver, NoCall, Caller, service
<1>5. ASSUME NEW c \in Caller, Again(c) PROVE Decided'
  BY <1>5 DEF Decided, Again, service
<1>6. CASE Login
  BY <1>6, CallerAssumption
     DEF IInv, TypeOK, CallsNameIssued, Decided, Login, NoCall, Caller, Pair
<1>7. CASE Reload
  BY <1>7 DEF Decided, Reload, NoCall, service
<1>8. CASE Time
  BY <1>8 DEF Decided, Time
<1>9. CASE ShowAuth \/ UNCHANGED vars
  BY <1>9 DEF Decided, ShowAuth, service, vars
<1> QED
  BY <1>1, <1>2, <1>3, <1>4, <1>5, <1>6, <1>7, <1>8, <1>9, ExchangeDecided DEF Next, Answer

Excused(c) ==
  /\ calls' = [calls EXCEPT ![c] = NoCall]
  /\ calls[c].answer = "failed" \/ (calls[c].answer # "none" /\ calls[c].token # pair)

\* The store has given up a pair that could be refreshed, for none like it.
GivenUp == pair \in usable /\ pair \notin lapsed /\ pair' # pair /\ pair' \notin usable'

LEMMA KeptByAnyStep ==
  ASSUME IInv, Decided, [Next]_vars, GivenUp
  PROVE  \E c \in Caller : Excused(c)
<1>1. ASSUME NEW c \in Caller, Deliver(c) PROVE Excused(c)
  <2>1. calls[c].answer \in {"none", "pair", "refused", "failed"}
    BY DEF IInv, TypeOK
  <2>2. calls[c].answer \in {"pair", "refused"} => calls[c].token \notin usable
    BY DEF Decided
  <2> QED BY <1>1, <2>1, <2>2 DEF Deliver, Excused, GivenUp
\* The pair of a login is new, and good.
<1>2. ~ Login
  BY DEF Login, GivenUp
<1>3. ASSUME \/ \E r \in Request : Send(r)
             \/ \E n \in Navigation : Navigate(n)
             \/ \E c \in Caller : Answer(c) \/ Again(c)
             \/ ShowAuth \/ Reload \/ Time \/ UNCHANGED vars
      PROVE  pair' = pair
  BY <1>3 DEF Send, Navigate, Answer, Exchange, RefuseToken, Unavailable, Again, ShowAuth,
              Reload, Time, IInv, TypeOK, vars
<1> QED BY <1>1, <1>2, <1>3 DEF Next, GivenUp

\* However requests, navigations, logins and reloads overlap, a session that
\* could still be refreshed is lost to one answer only: that the service is
\* unavailable, or one to a refresh of another pair (setTokens, clearSession).
THEOREM SessionSurvives == Spec => SessionIsKept
<1>1. Init => Decided
  BY InitDecided
<1>2. IInv /\ Decided /\ [Next]_vars => Decided'
  BY DecidedStep
<1>3. IInv /\ Decided /\ [Next]_vars =>
        [(pair \in usable /\ pair \notin lapsed /\ pair' # pair /\ pair' \notin usable') =>
           \E c \in Caller :
             /\ calls' = [calls EXCEPT ![c] = NoCall]
             /\ calls[c].answer = "failed" \/ (calls[c].answer # "none" /\ calls[c].token # pair)]_vars
  BY KeptByAnyStep DEF Excused, GivenUp
<1> QED
  BY <1>1, <1>2, <1>3, Invariance, PTL DEF Spec, SessionIsKept

-----------------------------------------------------------------------------
(* Nobody is left behind *)

\* A call keeps its token until it is delivered.
LEMMA AnswerKeepsToken ==
  ASSUME IInv, NEW c \in Caller, Answer(c)
  PROVE  UNCHANGED <<refreshing, state>> /\ \A d \in Caller : calls'[d].token = calls[d].token
BY DEF IInv, TypeOK, Answer, Exchange, RefuseToken, Unavailable

\* The shared refresh has been sent and not been delivered.
UnderWay == refreshing # Nobody => calls[refreshing].token # 0

ServedInv == NobodyWaitsInVain /\ UnderWay

LEMMA WaitingStep ==
  ASSUME IInv, Decided, ServedInv, [Next]_vars
  PROVE  ServedInv'
<1>0. /\ Request \subseteq Caller /\ Navigation \subseteq Caller /\ Nobody \notin Caller
      /\ Request \cap Navigation = {} /\ refreshing \in Request \cup {Nobody}
  BY CallerAssumption DEF IInv, TypeOK, Caller
<1>1. ASSUME NEW r \in Request, Send(r) PROVE ServedInv'
  <2>1. CASE Expired /\ Refreshable /\ refreshing = Nobody
    <3>1. /\ calls' = [calls EXCEPT ![r] = [NoCall EXCEPT !.token = pair]] /\ refreshing' = r
          /\ state' = [state EXCEPT ![r] = "waiting"] /\ pair # 0
      BY <1>1, <2>1 DEF Send, Refresh, Refreshable
    <3> QED BY <1>0, <3>1 DEF ServedInv, NobodyWaitsInVain, UnderWay, IInv, TypeOK, NoCall
  <2>2. CASE Expired /\ Refreshable /\ refreshing # Nobody
    <3>1. UNCHANGED <<calls, refreshing>> /\ state' = [state EXCEPT ![r] = "waiting"]
      BY <1>1, <2>2 DEF Send
    <3>2. calls[refreshing].token # 0
      BY <1>0, <2>2 DEF ServedInv, NobodyWaitsInVain, UnderWay
    <3> QED BY <1>0, <2>2, <3>1, <3>2 DEF ServedInv, NobodyWaitsInVain, UnderWay, IInv, TypeOK
  <2>3. CASE ~ (Expired /\ Refreshable)
    BY <1>0, <1>1, <2>3 DEF Send, ServedInv, NobodyWaitsInVain, UnderWay, IInv, TypeOK
  <2> QED BY <2>1, <2>2, <2>3
<1>2. ASSUME NEW n \in Navigation, Navigate(n) PROVE ServedInv'
  BY <1>0, <1>2 DEF Navigate, Refresh, Refreshable, ServedInv, NobodyWaitsInVain, UnderWay, IInv, TypeOK, NoCall
<1>3. ASSUME NEW c \in Caller, Answer(c) PROVE ServedInv'
  BY <1>0, <1>3, AnswerKeepsToken DEF ServedInv, NobodyWaitsInVain, UnderWay
<1>4. ASSUME NEW c \in Caller, Deliver(c) PROVE ServedInv'
  BY <1>0, <1>4 DEF Deliver, Awaiting, ServedInv, NobodyWaitsInVain, UnderWay, IInv, TypeOK, NoCall
<1>5. ASSUME NEW c \in Caller, Again(c) PROVE ServedInv'
  BY <1>0, <1>5 DEF Again, ServedInv, NobodyWaitsInVain, UnderWay, IInv, TypeOK
<1>6. CASE Reload
  BY <1>0, <1>6 DEF Reload, ServedInv, NobodyWaitsInVain, UnderWay
<1>7. CASE ShowAuth \/ Login \/ Time \/ UNCHANGED vars
  BY <1>7 DEF ShowAuth, Login, Time, ServedInv, NobodyWaitsInVain, UnderWay, vars
<1> QED BY <1>1, <1>2, <1>3, <1>4, <1>5, <1>6, <1>7 DEF Next

\* A request or a navigation that waits has an answer coming, whichever refresh
\* fails and whenever the page is loaded again: the end of a refresh leaves
\* nobody waiting for it (the interceptor's finally, the guard).
THEOREM WaitersAreServed == Spec => []NobodyWaitsInVain
<1>1. Init => Decided /\ ServedInv
  BY InitDecided DEF Init, ServedInv, NobodyWaitsInVain, UnderWay, Caller
<1>2. IInv /\ Decided /\ [Next]_vars => Decided'
  BY DecidedStep
<1>3. IInv /\ Decided /\ ServedInv /\ [Next]_vars => ServedInv'
  BY WaitingStep
<1>4. ServedInv => NobodyWaitsInVain
  BY DEF ServedInv
<1> QED BY <1>1, <1>2, <1>3, <1>4, Invariance, PTL DEF Spec

-----------------------------------------------------------------------------
(* Without navigations to guard, and without logins over a refresh, every      *)
(* refresh is for the pair the store holds                                     *)

Quietly == Login => \A c \in Caller : calls[c] = NoCall

Fresh == \A c \in Caller : calls[c].token # 0 => calls[c].token = pair

LEMMA InitFresh == Init => Fresh
BY DEF Init, Fresh, NoCall

LEMMA FreshStep ==
  ASSUME Navigation = {}, IInv, Decided, Fresh, [Next /\ Quietly]_vars
  PROVE  Fresh'
<1>1. ASSUME NEW r \in Request, Send(r) PROVE Fresh'
  BY <1>1 DEF IInv, TypeOK, Fresh, Send, Refresh, NoCall, Caller, service
<1>2. ASSUME NEW c \in Caller, Answer(c) PROVE Fresh'
  <2>1. pair' = pair /\ \A d \in Caller : calls'[d].token = calls[d].token
    BY <1>2 DEF IInv, TypeOK, Answer, Exchange, RefuseToken, Unavailable
  <2> QED BY <2>1 DEF Fresh
<1>3. ASSUME NEW c \in Caller, Deliver(c) PROVE Fresh'
  BY <1>3 DEF IInv, TypeOK, Shared, Decided, Fresh, Deliver, NoCall, Caller, service
<1>4. ASSUME NEW c \in Caller, Again(c) PROVE Fresh'
  BY <1>4 DEF Fresh, Again, service
<1>5. ASSUME Login, Quietly PROVE Fresh'
  BY <1>5 DEF Quietly, Fresh, Login, NoCall
<1>6. CASE Reload
  BY <1>6 DEF Fresh, Reload, NoCall, service
<1>7. CASE ShowAuth \/ Time
  BY <1>7 DEF Fresh, ShowAuth, Time
<1>8. CASE UNCHANGED vars
  BY <1>8 DEF Fresh, vars
<1> QED
  BY <1>1, <1>2, <1>3, <1>4, <1>5, <1>6, <1>7, <1>8 DEF Next

LEMMA KeptByRequests ==
  ASSUME Navigation = {}, IInv, Decided, Fresh, [Next]_vars, GivenUp
  PROVE  \E c \in Caller : calls[c].answer = "failed" /\ calls'[c] = NoCall
<1>1. PICK c \in Caller : Excused(c)
  BY KeptByAnyStep
<1>2. calls[c].answer = "failed"
  BY <1>1 DEF Excused, Fresh, Decided
<1> QED BY <1>1, <1>2 DEF Excused, IInv, TypeOK

\* Requests alone, however they overlap with one another, with reloads and with
\* the passing of time, give up a pair that could still be refreshed only when
\* the auth service is unavailable.  Two things break this, and the theorem
\* assumes them away: a refresh of the route guard's own, and a login answered
\* while a refresh is under way (setTokens, clearSession, the interceptor).
THEOREM RequestsPreserveTokens ==
  ASSUME Navigation = {} PROVE QuietSpec => RotatedTokensArePreserved
<1> DEFINE QuietNext == Next /\ (Login => \A c \in Caller : calls[c] = NoCall)
<1>1. Init => IInv /\ Decided /\ Fresh
  BY InitIInv, InitDecided, InitFresh
<1>2. IInv /\ Decided /\ Fresh /\ [QuietNext]_vars => IInv' /\ Decided' /\ Fresh'
  BY IInvStep, DecidedStep, FreshStep DEF Quietly
<1>3. IInv /\ Decided /\ Fresh /\ [QuietNext]_vars =>
        [(pair \in usable /\ pair \notin lapsed /\ pair' # pair /\ pair' \notin usable') =>
           \E c \in Caller : calls[c].answer = "failed" /\ calls'[c] = NoCall]_vars
  BY KeptByRequests DEF GivenUp
<1> QED
  BY <1>1, <1>2, <1>3, PTL DEF QuietSpec, RotatedTokensArePreserved
=============================================================================
