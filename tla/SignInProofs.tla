---------------------------- MODULE SignInProofs ----------------------------
(***************************************************************************)
(* Sign-in is correct for any number of tabs, pods and sign-ins: a tab     *)
(* completes its own sign-in and no other; and when each list of session   *)
(* keys accepts what its neighbours in the rollout seal, neither a sign-in *)
(* nor a session is lost to a deployment.                                  *)
(***************************************************************************)
EXTENDS SignIn, TLAPS

USE KeyListsAssumption, AcceptedAssumption, NoneAssumption

\* What a pod seals with is a key, and one of those it opens.
LEMMA PodKeys ==
    ASSUME TypeOK, NEW p \in Pod
    PROVE  /\ Primary(p) \in STRING
           /\ Primary(p) \in Keys(KeyLists[version[p]])
<1>1. version[p] \in 1..Len(KeyLists)
  BY DEF TypeOK
<1>2. KeyLists[version[p]] \in Seq(STRING) /\ KeyLists[version[p]] # <<>>
  BY <1>1
<1>3. 1 \in 1..Len(KeyLists[version[p]]) /\ KeyLists[version[p]][1] \in STRING
  BY <1>2
<1>4. Head(KeyLists[version[p]]) = KeyLists[version[p]][1]
  BY <1>2
<1>. QED  BY <1>3, <1>4 DEF Primary, Keys

\* A tab is a plain page or has the fields of a sign-in.
LEMMA TabKinds ==
    ASSUME TypeOK, NEW t \in Tab
    PROVE  /\ tab[t] \in Signing \/ tab[t] = Page
           /\ tab[t].at # "page" <=> tab[t] \in Signing
BY DEF TypeOK, Signing, Page

\* What a response carries.
LEMMA ReplyKinds ==
    ASSUME TypeOK, NEW t \in Tab
    PROVE  /\ reply[t].kind = "flow" => reply[t].cookie \in FlowCookies
           /\ reply[t].kind = "in" => reply[t].cookie \in SessionCookies
<1>1. reply[t] \in Replies
  BY DEF TypeOK
<1>2. CASE reply[t] \in {NoReply, [kind |-> "failed"]}
  BY <1>2 DEF NoReply
<1>3. CASE reply[t] \in [kind: {"flow"}, cookie: FlowCookies]
  BY <1>3
<1>4. CASE reply[t] \in [kind: {"in"}, to: Path, cookie: SessionCookies]
  BY <1>4
<1>. QED  BY <1>1, <1>2, <1>3, <1>4 DEF Replies

LEMMA InitIInv == Init => IInv
BY DEF Init, IInv, TypeOK, ReplyInv, FlowInv, PlaceInv, ReturnsWhereAsked, Page, NoReply, Replies

\* Starting a sign-in.
LEMMA StepLogin ==
    ASSUME IInv, NEW t \in Tab, NEW p \in Pod, NEW f \in Flow, NEW r \in Path, Login(t, p, f, r)
    PROVE  IInv'
<1> DEFINE cookie == [key |-> Primary(p), flow |-> f, path |-> r]
<1>1. /\ tab[t].at = "page" /\ f \notin drawn /\ drawn' = drawn \cup {f}
      /\ tab' = [tab EXCEPT ![t] = [at |-> "sent", flow |-> f, path |-> r, code |-> None]]
      /\ reply' = [reply EXCEPT ![t] = [kind |-> "flow", cookie |-> cookie]]
      /\ UNCHANGED <<version, cookieVars, used, clockVars, disturbed>>
  BY DEF Login
<1>2. cookie \in FlowCookies
  BY PodKeys DEF IInv, FlowCookies
<1>3. TypeOK'
  BY <1>1, <1>2 DEF IInv, TypeOK, Replies, Signing, cookieVars, clockVars
<1>4. ReplyInv'
  BY <1>1 DEF IInv, TypeOK, ReplyInv
<1>5. FlowInv'
  BY <1>1 DEF IInv, TypeOK, FlowInv, cookieVars
<1>6. PlaceInv'
  BY <1>1 DEF IInv, TypeOK, PlaceInv, cookieVars, clockVars
<1>7. ReturnsWhereAsked'
  BY <1>1 DEF IInv, TypeOK, ReturnsWhereAsked
<1>. QED  BY <1>3, <1>4, <1>5, <1>6, <1>7 DEF IInv

\* The redirect to Entra arrives.
LEMMA StepLoginArrives ==
    ASSUME IInv, NEW t \in Tab, LoginArrives(t)
    PROVE  IInv'
<1>1. /\ tab[t].at = "sent" /\ flowCookie' = reply[t].cookie
      /\ tab' = [tab EXCEPT ![t].at = "entra"]
      /\ reply' = [reply EXCEPT ![t] = NoReply]
      /\ disturbed' = [u \in Tab |-> u # t]
      /\ UNCHANGED <<version, sessionCookie, drawn, used, clockVars>>
  BY DEF LoginArrives
<1>2. /\ reply[t].kind = "flow" /\ reply[t].cookie \in FlowCookies
      /\ reply[t].cookie.flow = tab[t].flow /\ reply[t].cookie.path = tab[t].path
  BY <1>1, ReplyKinds DEF IInv, ReplyInv
<1>3. tab[t] \in Signing /\ [tab[t] EXCEPT !.at = "entra"] \in Signing
  BY <1>1, TabKinds DEF IInv, Signing
<1>4. TypeOK'
  BY <1>1, <1>2, <1>3 DEF IInv, TypeOK, Replies, clockVars
<1>5. /\ tab'[t].at = "entra" /\ tab'[t].flow = tab[t].flow
      /\ tab'[t].path = tab[t].path /\ tab'[t].code = tab[t].code
  BY <1>1, <1>3 DEF IInv, TypeOK, Signing
<1>6. \A u \in Tab : u # t => tab'[u] = tab[u]
  BY <1>1 DEF IInv, TypeOK
<1>7. ReplyInv'
  BY <1>1, <1>5, <1>6 DEF IInv, TypeOK, ReplyInv, NoReply
<1>8. FlowInv'
  BY <1>1, <1>2, <1>5, <1>6 DEF IInv, FlowInv
<1>9. PlaceInv'
  <2>1. flowCookie' # None
    BY <1>1, <1>2
  <2>. QED  BY <1>1, <1>2, <1>5, <2>1 DEF PlaceInv
<1>10. ReturnsWhereAsked'
  BY <1>1, <1>5, <1>6 DEF IInv, TypeOK, ReturnsWhereAsked, NoReply
<1>. QED  BY <1>4, <1>7, <1>8, <1>9, <1>10 DEF IInv

\* Entra sends the tab back.
LEMMA StepAuthenticate ==
    ASSUME IInv, NEW t \in Tab, NEW u \in Person \cup {None}, Authenticate(t, u)
    PROVE  IInv'
<1>1. /\ tab[t].at = "entra"
      /\ tab' = [tab EXCEPT ![t].at = "back", ![t].code = u]
      /\ UNCHANGED <<version, cookieVars, reply, drawn, used, clockVars, disturbed>>
  BY DEF Authenticate
<1>2. tab[t] \in Signing /\ [tab[t] EXCEPT !.at = "back", !.code = u] \in Signing
  BY <1>1, TabKinds DEF IInv, Signing
<1>3. TypeOK'
  BY <1>1, <1>2 DEF IInv, TypeOK, Replies, cookieVars, clockVars
<1>4. tab'[t].at = "back" /\ tab'[t].flow = tab[t].flow /\ tab'[t].path = tab[t].path
  BY <1>1, <1>2 DEF IInv, TypeOK, Signing
<1>5. /\ \A v \in Tab : v # t => tab'[v] = tab[v]
      /\ UNCHANGED <<flowCookie, sessionCookie, reply, drawn, old, disturbed>>
  BY <1>1 DEF IInv, TypeOK, cookieVars, clockVars
<1>6. tab[t].at = "entra" /\ reply[t].kind \notin {"flow", "in"}
  BY <1>1 DEF IInv, ReplyInv
<1>7. ReplyInv'
  BY <1>4, <1>5, <1>6 DEF IInv, ReplyInv
<1>8. FlowInv'
  <2>1. \A v \in Tab : /\ tab'[v].at # "page" <=> tab[v].at # "page"
                       /\ tab'[v].flow = tab[v].flow /\ tab'[v].path = tab[v].path
    BY <1>4, <1>5, <1>6
  <2>. QED  BY <1>5, <2>1 DEF IInv, FlowInv
<1>9. PlaceInv'
  BY <1>4, <1>5, <1>6 DEF IInv, PlaceInv
<1>10. ReturnsWhereAsked'
  BY <1>4, <1>5, <1>6 DEF IInv, ReturnsWhereAsked
<1>. QED  BY <1>3, <1>7, <1>8, <1>9, <1>10 DEF IInv

\* The callback is served.  This is where a tab could complete another one's
\* sign-in: the state in its URL says it cannot.
LEMMA StepCallback ==
    ASSUME IInv, NEW t \in Tab, NEW p \in Pod, Callback(t, p)
    PROVE  IInv'
<1> DEFINE cookie == [key |-> Primary(p), flow |-> flowCookie.flow, person |-> tab[t].code]
           answer == IF Completes(t, p)
                       THEN [kind |-> "in", to |-> flowCookie.path, cookie |-> cookie]
                       ELSE [kind |-> "failed"]
<1>1. /\ tab[t].at = "back"
      /\ tab' = [tab EXCEPT ![t].at = "answered"]
      /\ used' = IF Recognised(t, p) THEN used \cup {<<tab[t].flow, tab[t].code>>} ELSE used
      /\ reply' = [reply EXCEPT ![t] = answer]
      /\ UNCHANGED <<version, cookieVars, drawn, clockVars, disturbed>>
  BY DEF Callback
<1>2. tab[t] \in Signing /\ [tab[t] EXCEPT !.at = "answered"] \in Signing
  BY <1>1, TabKinds DEF IInv, Signing
<1>3. /\ tab'[t].at = "answered" /\ tab'[t].flow = tab[t].flow
      /\ tab'[t].path = tab[t].path /\ tab'[t].code = tab[t].code
  BY <1>1, <1>2 DEF IInv, TypeOK, Signing
<1>4. \A v \in Tab : v # t => tab'[v] = tab[v] /\ reply'[v] = reply[v]
  BY <1>1 DEF IInv, TypeOK
<1>5. Recognised(t, p) => /\ flowCookie \in FlowCookies /\ flowCookie.flow = tab[t].flow
                          /\ flowCookie.path = tab[t].path /\ tab[t].code \in Person
  BY <1>1, <1>2 DEF IInv, TypeOK, FlowInv, Recognised, Opens, Signing
<1>6. used' \in SUBSET (Flow \X Person)
  BY <1>1, <1>2, <1>5 DEF IInv, TypeOK, Signing
<1>7. reply'[t] = answer
  BY <1>1 DEF IInv, TypeOK
<1>8. answer \in Replies
  <2>1. CASE Completes(t, p)
    <3>1. Primary(p) \in STRING
      BY PodKeys DEF IInv
    <3>2. cookie \in SessionCookies /\ flowCookie.path \in Path
      BY <1>5, <2>1, <3>1 DEF Completes, FlowCookies, SessionCookies
    <3>. QED  BY <2>1, <3>2 DEF Replies
  <2>2. CASE ~Completes(t, p)
    BY <2>2 DEF Replies
  <2>. QED  BY <2>1, <2>2
<1>9. /\ reply'[t].kind \in {"in", "failed"}
      /\ reply'[t].kind = "in" =>
           /\ Recognised(t, p) /\ reply'[t].to = flowCookie.path
           /\ reply'[t].cookie.flow = flowCookie.flow /\ reply'[t].cookie.person = tab[t].code
  BY <1>7 DEF Completes
<1>10. TypeOK'
  BY <1>1, <1>2, <1>6, <1>8 DEF IInv, TypeOK, cookieVars, clockVars
<1>11. ReplyInv'
  BY <1>3, <1>4, <1>9 DEF IInv, ReplyInv
<1>12. FlowInv'
  BY <1>1, <1>3, <1>4 DEF IInv, FlowInv, cookieVars
<1>13. PlaceInv'
  BY <1>1, <1>3, <1>4 DEF IInv, PlaceInv, cookieVars, clockVars
<1>14. ReturnsWhereAsked'
  BY <1>3, <1>4, <1>5, <1>9 DEF IInv, ReturnsWhereAsked
<1>. QED  BY <1>10, <1>11, <1>12, <1>13, <1>14 DEF IInv

\* The exchange fails: the tab is answered, and nothing else is promised to it.
LEMMA StepExchangeFails ==
    ASSUME IInv, NEW t \in Tab, NEW p \in Pod, ExchangeFails(t, p)
    PROVE  IInv'
<1> DEFINE answer == [kind |-> "failed"]
<1>1. /\ tab[t].at = "back" /\ Recognised(t, p)
      /\ tab' = [tab EXCEPT ![t].at = "answered"]
      /\ used' \in {used, used \cup {<<tab[t].flow, tab[t].code>>}}
      /\ reply' = [reply EXCEPT ![t] = answer]
      /\ UNCHANGED <<version, cookieVars, drawn, clockVars, disturbed>>
  BY DEF ExchangeFails
<1>2. tab[t] \in Signing /\ [tab[t] EXCEPT !.at = "answered"] \in Signing
  BY <1>1, TabKinds DEF IInv, Signing
<1>3. /\ tab'[t].at = "answered" /\ tab'[t].flow = tab[t].flow
      /\ tab'[t].path = tab[t].path /\ tab'[t].code = tab[t].code
  BY <1>1, <1>2 DEF IInv, TypeOK, Signing
<1>4. \A v \in Tab : v # t => tab'[v] = tab[v] /\ reply'[v] = reply[v]
  BY <1>1 DEF IInv, TypeOK
<1>5. used' \in SUBSET (Flow \X Person)
  BY <1>1, <1>2 DEF IInv, TypeOK, Signing, Recognised
<1>6. reply'[t].kind = "failed" /\ answer \in Replies
  BY <1>1 DEF IInv, TypeOK, Replies
<1>7. TypeOK'
  BY <1>1, <1>2, <1>5, <1>6 DEF IInv, TypeOK, cookieVars, clockVars
<1>8. ReplyInv'
  BY <1>3, <1>4, <1>6 DEF IInv, ReplyInv
<1>9. FlowInv'
  BY <1>1, <1>3, <1>4 DEF IInv, FlowInv, cookieVars
<1>10. PlaceInv'
  BY <1>1, <1>3, <1>4 DEF IInv, PlaceInv, cookieVars, clockVars
<1>11. ReturnsWhereAsked'
  BY <1>3, <1>4, <1>6 DEF IInv, ReturnsWhereAsked
<1>. QED  BY <1>7, <1>8, <1>9, <1>10, <1>11 DEF IInv

\* Its answer arrives: no sign-in counts as undisturbed any more.
LEMMA StepCallbackArrives ==
    ASSUME IInv, NEW t \in Tab, CallbackArrives(t)
    PROVE  IInv'
<1>1. /\ tab[t].at = "answered" /\ flowCookie' = None
      /\ sessionCookie' = IF reply[t].kind = "in" THEN reply[t].cookie ELSE sessionCookie
      /\ tab' = [tab EXCEPT ![t] = Page]
      /\ reply' = [reply EXCEPT ![t] = NoReply]
      /\ disturbed' = [u \in Tab |-> TRUE]
      /\ UNCHANGED <<version, drawn, used, clockVars>>
  BY DEF CallbackArrives
<1>2. reply[t].kind = "in" => reply[t].cookie \in SessionCookies
  BY ReplyKinds DEF IInv
<1>3. reply[t].kind = "in" => reply[t].cookie.flow \in drawn
  BY <1>1 DEF IInv, FlowInv, ReturnsWhereAsked
<1>4. TypeOK'
  BY <1>1, <1>2 DEF IInv, TypeOK, Replies, clockVars
<1>5. /\ tab'[t] = Page /\ reply'[t] = NoReply
      /\ \A v \in Tab : v # t => tab'[v] = tab[v] /\ reply'[v] = reply[v]
  BY <1>1 DEF IInv, TypeOK
<1>6. ReplyInv'
  BY <1>5 DEF IInv, ReplyInv, Page, NoReply
<1>7. FlowInv'
  BY <1>1, <1>3, <1>5 DEF IInv, FlowInv, Page
<1>8. PlaceInv'
  BY <1>1 DEF PlaceInv
<1>9. ReturnsWhereAsked'
  BY <1>5 DEF IInv, ReturnsWhereAsked, NoReply
<1>. QED  BY <1>4, <1>6, <1>7, <1>8, <1>9 DEF IInv

\* It is lost, and the callback will be served again.
LEMMA StepCallbackLost ==
    ASSUME IInv, NEW t \in Tab, CallbackLost(t)
    PROVE  IInv'
<1>1. /\ tab[t].at = "answered"
      /\ tab' = [tab EXCEPT ![t].at = "back"]
      /\ reply' = [reply EXCEPT ![t] = NoReply]
      /\ UNCHANGED <<version, cookieVars, drawn, used, clockVars, disturbed>>
  BY DEF CallbackLost
<1>2. tab[t] \in Signing /\ [tab[t] EXCEPT !.at = "back"] \in Signing
  BY <1>1, TabKinds DEF IInv, Signing
<1>3. TypeOK'
  BY <1>1, <1>2 DEF IInv, TypeOK, Replies, cookieVars, clockVars
<1>4. /\ tab'[t].at = "back" /\ tab'[t].flow = tab[t].flow /\ tab'[t].path = tab[t].path
      /\ reply'[t] = NoReply
  BY <1>1, <1>2 DEF IInv, TypeOK, Signing
<1>5. \A v \in Tab : v # t => tab'[v] = tab[v] /\ reply'[v] = reply[v]
  BY <1>1 DEF IInv, TypeOK
<1>6. ReplyInv'
  BY <1>4, <1>5 DEF IInv, ReplyInv, NoReply
<1>7. FlowInv'
  BY <1>1, <1>4, <1>5 DEF IInv, FlowInv, cookieVars
<1>8. PlaceInv'
  BY <1>1, <1>4, <1>5 DEF IInv, PlaceInv, cookieVars, clockVars
<1>9. ReturnsWhereAsked'
  BY <1>4, <1>5 DEF IInv, ReturnsWhereAsked, NoReply
<1>. QED  BY <1>3, <1>6, <1>7, <1>8, <1>9 DEF IInv

\* The tab gives up.
LEMMA StepLeave ==
    ASSUME IInv, NEW t \in Tab, Leave(t)
    PROVE  IInv'
<1>1. /\ tab' = [tab EXCEPT ![t] = Page]
      /\ reply' = [reply EXCEPT ![t] = NoReply]
      /\ UNCHANGED <<version, cookieVars, drawn, used, clockVars, disturbed>>
  BY DEF Leave
<1>2. TypeOK'
  BY <1>1 DEF IInv, TypeOK, Replies, cookieVars, clockVars
<1>3. /\ tab'[t] = Page /\ reply'[t] = NoReply
      /\ \A v \in Tab : v # t => tab'[v] = tab[v] /\ reply'[v] = reply[v]
  BY <1>1 DEF IInv, TypeOK
<1>4. ReplyInv'
  BY <1>3 DEF IInv, ReplyInv, Page, NoReply
<1>5. FlowInv'
  BY <1>1, <1>3 DEF IInv, FlowInv, Page, cookieVars
<1>6. PlaceInv'
  BY <1>1, <1>3 DEF IInv, PlaceInv, Page, cookieVars, clockVars
<1>7. ReturnsWhereAsked'
  BY <1>3 DEF IInv, ReturnsWhereAsked, NoReply
<1>. QED  BY <1>2, <1>4, <1>5, <1>6, <1>7 DEF IInv

\* Signing out, and what happens between requests.
LEMMA StepLogout ==
    ASSUME IInv, NEW p \in Pod, Logout(p)
    PROVE  IInv'
BY DEF Logout, IInv, TypeOK, ReplyInv, FlowInv, PlaceInv, ReturnsWhereAsked, clockVars

LEMMA StepFlowAges ==
    ASSUME IInv, NEW f \in Flow, FlowAges(f)
    PROVE  IInv'
BY DEF FlowAges, IInv, TypeOK, ReplyInv, FlowInv, PlaceInv, ReturnsWhereAsked, cookieVars

LEMMA StepSessionExpires ==
    ASSUME IInv, NEW f \in Flow, SessionExpires(f)
    PROVE  IInv'
BY DEF SessionExpires, IInv, TypeOK, ReplyInv, FlowInv, PlaceInv, ReturnsWhereAsked, cookieVars

LEMMA StepCookieDropped ==
    ASSUME IInv, CookieDropped
    PROVE  IInv'
BY DEF CookieDropped, IInv, TypeOK, ReplyInv, FlowInv, PlaceInv, ReturnsWhereAsked, clockVars

LEMMA StepDeploy ==
    ASSUME IInv, NEW p \in Pod, Deploy(p)
    PROVE  IInv'
<1>1. version' \in [Pod -> 1..Len(KeyLists)]
  BY DEF Deploy, IInv, TypeOK
<1>. QED  BY <1>1 DEF Deploy, IInv, TypeOK, ReplyInv, FlowInv, PlaceInv, ReturnsWhereAsked, cookieVars, clockVars

\* A token is taken for new only when no cookie and no tab holds it.
LEMMA StepRecycle ==
    ASSUME IInv, NEW f \in Flow, Recycle(f)
    PROVE  IInv'
<1>1. /\ f \in expired
      /\ flowCookie # None => flowCookie.flow # f
      /\ sessionCookie # None => sessionCookie.flow # f
      /\ \A t \in Tab : tab[t].flow # f
      /\ drawn' = drawn \ {f} /\ old' = old \ {f} /\ expired' = expired \ {f}
      /\ used' = {code \in used : code[1] # f}
      /\ UNCHANGED <<version, cookieVars, tab, reply, disturbed>>
  BY DEF Recycle
<1>2. TypeOK'
  BY <1>1 DEF IInv, TypeOK, Replies, cookieVars
<1>3. ReplyInv'
  BY <1>1 DEF IInv, ReplyInv
<1>4. FlowInv'
  BY <1>1 DEF IInv, FlowInv, cookieVars
<1>5. PlaceInv'
  BY <1>1 DEF IInv, PlaceInv, cookieVars
<1>6. ReturnsWhereAsked'
  BY <1>1 DEF IInv, ReturnsWhereAsked
<1>. QED  BY <1>2, <1>3, <1>4, <1>5, <1>6 DEF IInv

LEMMA StepIInv == IInv /\ [Next]_vars => IInv'
<1> SUFFICES ASSUME IInv, [Next]_vars PROVE IInv'
  OBVIOUS
<1>1. ASSUME NEW t \in Tab, NEW p \in Pod, NEW f \in Flow, NEW r \in Path, Login(t, p, f, r)
      PROVE  IInv'
  BY <1>1, StepLogin
<1>2. ASSUME NEW t \in Tab, NEW p \in Pod, Callback(t, p) PROVE IInv'
  BY <1>2, StepCallback
<1>3. ASSUME NEW t \in Tab, NEW p \in Pod, ExchangeFails(t, p) PROVE IInv'
  BY <1>3, StepExchangeFails
<1>4. ASSUME NEW t \in Tab, NEW u \in Person \cup {None}, Authenticate(t, u) PROVE IInv'
  BY <1>4, StepAuthenticate
<1>5. ASSUME NEW t \in Tab, LoginArrives(t) PROVE IInv'
  BY <1>5, StepLoginArrives
<1>6. ASSUME NEW t \in Tab, CallbackArrives(t) PROVE IInv'
  BY <1>6, StepCallbackArrives
<1>7. ASSUME NEW t \in Tab, CallbackLost(t) PROVE IInv'
  BY <1>7, StepCallbackLost
<1>8. ASSUME NEW t \in Tab, Leave(t) PROVE IInv'
  BY <1>8, StepLeave
<1>9. ASSUME NEW p \in Pod, Logout(p) PROVE IInv'
  BY <1>9, StepLogout
<1>10. ASSUME NEW p \in Pod, Deploy(p) PROVE IInv'
  BY <1>10, StepDeploy
<1>11. ASSUME NEW f \in Flow, FlowAges(f) \/ SessionExpires(f) \/ Recycle(f) PROVE IInv'
  BY <1>11, StepFlowAges, StepSessionExpires, StepRecycle
<1>12. CASE CookieDropped
  BY <1>12, StepCookieDropped
<1>13. CASE UNCHANGED vars
  BY <1>13 DEF vars, cookieVars, clockVars, IInv, TypeOK, ReplyInv, FlowInv, PlaceInv, ReturnsWhereAsked
<1>. QED
  BY <1>1, <1>2, <1>3, <1>4, <1>5, <1>6, <1>7, <1>8, <1>9, <1>10, <1>11, <1>12, <1>13 DEF Next

\* For any number of tabs, pods and sign-ins, and any rollout of keys, the
\* invariant of the sign-in flow holds.
THEOREM Inductive == Spec => []IInv
BY InitIInv, StepIInv, PTL DEF Spec

\* A tab completes its own sign-in: it returns where it asked to go, as the
\* person who signed in there.
THEOREM AlwaysReturns == Spec => []ReturnsWhereAsked
<1>1. IInv => ReturnsWhereAsked
  BY DEF IInv
<1>. QED  BY Inductive, <1>1, PTL

(***************************************************************************)
(* The rollout of session keys.                                            *)
(***************************************************************************)

\* When each list accepts what its neighbours seal, every pod opens what any
\* pod seals, in the middle of a deployment too.
LEMMA SealedOpens ==
    ASSUME SafeRollout, TypeOK, KeyInv, NEW p \in Pod, NEW q \in Pod
    PROVE  Primary(p) \in Keys(KeyLists[version[q]])
<1>1. version[p] \in 1..Len(KeyLists) /\ version[q] \in 1..Len(KeyLists) /\ Len(KeyLists) \in Nat
  BY DEF TypeOK
<1>2. \/ version[p] = version[q]
      \/ version[p] = version[q] + 1
      \/ version[q] = version[p] + 1
  <2>1. version[p] <= version[q] + 1 /\ version[q] <= version[p] + 1
    BY DEF KeyInv
  <2>2. version[p] \in Nat /\ version[q] \in Nat
    BY <1>1
  <2>3. \A m, n \in Nat : m <= n + 1 /\ n <= m + 1 => m = n \/ m = n + 1 \/ n = m + 1
    OBVIOUS
  <2>. QED  BY <2>1, <2>2, <2>3
<1>3. CASE version[p] = version[q]
  BY <1>3, PodKeys
<1>4. CASE version[p] = version[q] + 1
  <2>1. version[q] \in 1..(Len(KeyLists) - 1)
    BY <1>1, <1>4
  <2>. QED  BY <1>4, <2>1 DEF SafeRollout, Primary
<1>5. CASE version[q] = version[p] + 1
  <2>1. version[p] \in 1..(Len(KeyLists) - 1)
    BY <1>1, <1>5
  <2>. QED  BY <1>5, <2>1 DEF SafeRollout, Primary
<1>. QED  BY <1>2, <1>3, <1>4, <1>5

\* The four places of a cookie that still counts.
LEMMA LivingKinds ==
    ASSUME NEW c
    PROVE  c \in Living <=>
      /\ c # None
      /\ \/ /\ c = flowCookie \/ \E t \in Tab : reply[t].kind = "flow" /\ c = reply[t].cookie
            /\ c.flow \notin old
         \/ /\ c = sessionCookie \/ \E t \in Tab : reply[t].kind = "in" /\ c = reply[t].cookie
            /\ c.flow \notin expired
BY DEF Living

\* A step that replaces no pod keeps the invariant when it adds to the living
\* cookies only what some pod seals.
LEMMA KeyFrame ==
    ASSUME SafeRollout, TypeOK, KeyInv, UNCHANGED version,
           \A c \in Living' : c \in Living \/ \E p \in Pod : c.key = Primary(p)
    PROVE  KeyInv'
<1>1. \A c \in Living', q \in Pod : c.key \in Keys(KeyLists[version[q]])
  BY SealedOpens DEF KeyInv
<1>. QED  BY <1>1 DEF KeyInv

\* Steps that answer no request only move or drop cookies.
LEMMA KeyMove ==
    ASSUME IInv, NEW c \in Living',
           UNCHANGED reply, flowCookie' \in {flowCookie, None}, sessionCookie' \in {sessionCookie, None},
           old \subseteq old', expired \subseteq expired'
    PROVE  c \in Living
<1>1. /\ c # None
      /\ \/ /\ c = flowCookie' \/ \E t \in Tab : reply'[t].kind = "flow" /\ c = reply'[t].cookie
            /\ c.flow \notin old'
         \/ /\ c = sessionCookie' \/ \E t \in Tab : reply'[t].kind = "in" /\ c = reply'[t].cookie
            /\ c.flow \notin expired'
  BY DEF Living
<1>. QED  BY <1>1, LivingKinds

\* One tab's response is taken away, or replaced by one without a cookie.
LEMMA KeyDrop ==
    ASSUME IInv, NEW c \in Living', NEW t \in Tab, NEW r,
           r.kind \notin {"flow", "in"}, reply' = [reply EXCEPT ![t] = r],
           UNCHANGED <<cookieVars, old, expired>>
    PROVE  c \in Living
<1>1. /\ c # None
      /\ \/ /\ c = flowCookie' \/ \E u \in Tab : reply'[u].kind = "flow" /\ c = reply'[u].cookie
            /\ c.flow \notin old'
         \/ /\ c = sessionCookie' \/ \E u \in Tab : reply'[u].kind = "in" /\ c = reply'[u].cookie
            /\ c.flow \notin expired'
  BY DEF Living
<1>2. reply'[t] = r /\ \A u \in Tab : u # t => reply'[u] = reply[u]
  BY DEF IInv, TypeOK
<1>. QED  BY <1>1, <1>2, LivingKinds DEF cookieVars

LEMMA KeyLogin ==
    ASSUME IInv, NEW t \in Tab, NEW p \in Pod, NEW f \in Flow, NEW r \in Path, Login(t, p, f, r),
           NEW c \in Living'
    PROVE  c \in Living \/ c.key = Primary(p)
<1> DEFINE cookie == [key |-> Primary(p), flow |-> f, path |-> r]
<1>1. /\ reply' = [reply EXCEPT ![t] = [kind |-> "flow", cookie |-> cookie]]
      /\ UNCHANGED <<cookieVars, clockVars>>
  BY DEF Login
<1>2. /\ reply'[t].kind = "flow" /\ reply'[t].cookie = cookie
      /\ \A u \in Tab : u # t => reply'[u] = reply[u]
  BY <1>1 DEF IInv, TypeOK
<1>3. /\ c # None
      /\ \/ /\ c = flowCookie' \/ \E u \in Tab : reply'[u].kind = "flow" /\ c = reply'[u].cookie
            /\ c.flow \notin old'
         \/ /\ c = sessionCookie' \/ \E u \in Tab : reply'[u].kind = "in" /\ c = reply'[u].cookie
            /\ c.flow \notin expired'
  BY DEF Living
<1>4. cookie.key = Primary(p)
  OBVIOUS
<1>. HIDE DEF cookie
<1>. QED  BY <1>1, <1>2, <1>3, <1>4, LivingKinds DEF cookieVars, clockVars

LEMMA KeyLoginArrives ==
    ASSUME IInv, NEW t \in Tab, LoginArrives(t), NEW c \in Living'
    PROVE  c \in Living
<1>1. /\ tab[t].at = "sent" /\ flowCookie' = reply[t].cookie
      /\ reply' = [reply EXCEPT ![t] = NoReply]
      /\ UNCHANGED <<sessionCookie, clockVars>>
  BY DEF LoginArrives
<1>2. reply[t].kind = "flow"
  BY <1>1 DEF IInv, ReplyInv
<1>3. reply'[t] = NoReply /\ \A u \in Tab : u # t => reply'[u] = reply[u]
  BY <1>1 DEF IInv, TypeOK
<1>4. /\ c # None
      /\ \/ /\ c = flowCookie' \/ \E u \in Tab : reply'[u].kind = "flow" /\ c = reply'[u].cookie
            /\ c.flow \notin old'
         \/ /\ c = sessionCookie' \/ \E u \in Tab : reply'[u].kind = "in" /\ c = reply'[u].cookie
            /\ c.flow \notin expired'
  BY DEF Living
<1>. QED  BY <1>1, <1>2, <1>3, <1>4, LivingKinds DEF clockVars, NoReply

LEMMA KeyCallback ==
    ASSUME IInv, NEW t \in Tab, NEW p \in Pod, Callback(t, p), NEW c \in Living'
    PROVE  c \in Living \/ c.key = Primary(p)
<1> DEFINE cookie == [key |-> Primary(p), flow |-> flowCookie.flow, person |-> tab[t].code]
           answer == IF Completes(t, p)
                       THEN [kind |-> "in", to |-> flowCookie.path, cookie |-> cookie]
                       ELSE [kind |-> "failed"]
<1>1. reply' = [reply EXCEPT ![t] = answer] /\ UNCHANGED <<cookieVars, clockVars>>
  BY DEF Callback
<1>2. reply'[t] = answer /\ \A u \in Tab : u # t => reply'[u] = reply[u]
  BY <1>1 DEF IInv, TypeOK
<1>3. reply'[t].kind # "flow" /\ (reply'[t].kind = "in" => reply'[t].cookie.key = Primary(p))
  BY <1>2
<1>4. /\ c # None
      /\ \/ /\ c = flowCookie' \/ \E u \in Tab : reply'[u].kind = "flow" /\ c = reply'[u].cookie
            /\ c.flow \notin old'
         \/ /\ c = sessionCookie' \/ \E u \in Tab : reply'[u].kind = "in" /\ c = reply'[u].cookie
            /\ c.flow \notin expired'
  BY DEF Living
<1>5. UNCHANGED <<flowCookie, sessionCookie, old, expired>>
  BY <1>1 DEF cookieVars, clockVars
<1>6. \A u \in Tab : u # t => reply'[u] = reply[u]
  BY <1>2
<1>. HIDE DEF answer
<1>. QED  BY <1>3, <1>4, <1>5, <1>6, LivingKinds

LEMMA KeyCallbackArrives ==
    ASSUME IInv, NEW t \in Tab, CallbackArrives(t), NEW c \in Living'
    PROVE  c \in Living
<1>1. /\ flowCookie' = None
      /\ sessionCookie' = IF reply[t].kind = "in" THEN reply[t].cookie ELSE sessionCookie
      /\ reply' = [reply EXCEPT ![t] = NoReply]
      /\ UNCHANGED clockVars
  BY DEF CallbackArrives
<1>2. reply'[t] = NoReply /\ \A u \in Tab : u # t => reply'[u] = reply[u]
  BY <1>1 DEF IInv, TypeOK
<1>3. /\ c # None
      /\ \/ /\ c = flowCookie' \/ \E u \in Tab : reply'[u].kind = "flow" /\ c = reply'[u].cookie
            /\ c.flow \notin old'
         \/ /\ c = sessionCookie' \/ \E u \in Tab : reply'[u].kind = "in" /\ c = reply'[u].cookie
            /\ c.flow \notin expired'
  BY DEF Living
<1>. QED  BY <1>1, <1>2, <1>3, LivingKinds DEF clockVars, NoReply

LEMMA KeyRecycle ==
    ASSUME IInv, NEW f \in Flow, Recycle(f), NEW c \in Living'
    PROVE  c \in Living
<1>1. /\ flowCookie # None => flowCookie.flow # f
      /\ sessionCookie # None => sessionCookie.flow # f
      /\ \A t \in Tab : tab[t].flow # f
      /\ old' = old \ {f} /\ expired' = expired \ {f}
      /\ UNCHANGED <<flowCookie, sessionCookie, reply>>
  BY DEF Recycle, cookieVars
<1>2. \A t \in Tab : reply[t].kind \in {"flow", "in"} => reply[t].cookie.flow # f
  BY <1>1 DEF IInv, ReplyInv, ReturnsWhereAsked
<1>3. /\ c # None
      /\ \/ /\ c = flowCookie' \/ \E u \in Tab : reply'[u].kind = "flow" /\ c = reply'[u].cookie
            /\ c.flow \notin old'
         \/ /\ c = sessionCookie' \/ \E u \in Tab : reply'[u].kind = "in" /\ c = reply'[u].cookie
            /\ c.flow \notin expired'
  BY DEF Living
<1>. QED  BY <1>1, <1>2, <1>3, LivingKinds

\* A pod is replaced only when its next list accepts all that is alive.
LEMMA KeyDeploy ==
    ASSUME IInv, KeyInv, NEW p \in Pod, Deploy(p)
    PROVE  KeyInv'
<1>1. /\ \A q \in Pod : version[q] >= version[p]
      /\ \A c \in Living : c.key \in Keys(KeyLists[version[p] + 1])
      /\ version' = [version EXCEPT ![p] = version[p] + 1]
      /\ UNCHANGED <<cookieVars, reply, clockVars>>
  BY DEF Deploy
<1>2. \A q \in Pod : version[q] \in Nat /\ version[q] <= version[p] + 1
  BY DEF IInv, TypeOK, KeyInv
<1>3. /\ version'[p] = version[p] + 1
      /\ \A q \in Pod : q # p => version'[q] = version[q]
  BY <1>1 DEF IInv, TypeOK
<1>4. Living' = Living
  BY <1>1 DEF Living, cookieVars, clockVars
<1>5. \A q, s \in Pod : version'[q] <= version'[s] + 1
  BY <1>1, <1>2, <1>3
<1>6. \A c \in Living', q \in Pod : c.key \in Keys(KeyLists[version'[q]])
  BY <1>1, <1>3, <1>4 DEF KeyInv
<1>. QED  BY <1>5, <1>6 DEF KeyInv

LEMMA StepKeyInv ==
    ASSUME SafeRollout, IInv, KeyInv, [Next]_vars
    PROVE  KeyInv'
<1>1. TypeOK
  BY DEF IInv
<1>2. ASSUME NEW t \in Tab, NEW p \in Pod, NEW f \in Flow, NEW r \in Path, Login(t, p, f, r)
      PROVE  KeyInv'
  <2>1. UNCHANGED version
    BY <1>2 DEF Login
  <2>. QED  BY <1>1, <1>2, <2>1, KeyLogin, KeyFrame
<1>3. ASSUME NEW t \in Tab, NEW p \in Pod, Callback(t, p) PROVE KeyInv'
  <2>1. UNCHANGED version
    BY <1>3 DEF Callback
  <2>. QED  BY <1>1, <1>3, <2>1, KeyCallback, KeyFrame
<1>4. ASSUME NEW t \in Tab, NEW p \in Pod, ExchangeFails(t, p) PROVE KeyInv'
  <2>1. /\ reply' = [reply EXCEPT ![t] = [kind |-> "failed"]]
        /\ UNCHANGED <<version, cookieVars, old, expired>>
    BY <1>4 DEF ExchangeFails, clockVars
  <2>2. \A c \in Living' : c \in Living
    BY <2>1, KeyDrop
  <2>. QED  BY <1>1, <2>1, <2>2, KeyFrame
<1>5. ASSUME NEW t \in Tab, NEW u \in Person \cup {None}, Authenticate(t, u) PROVE KeyInv'
  <2>1. UNCHANGED <<version, flowCookie, sessionCookie, reply, old, expired>>
    BY <1>5 DEF Authenticate, cookieVars, clockVars
  <2>. QED  BY <1>1, <2>1, KeyMove, KeyFrame
<1>6. ASSUME NEW t \in Tab, LoginArrives(t) PROVE KeyInv'
  <2>1. UNCHANGED version
    BY <1>6 DEF LoginArrives
  <2>. QED  BY <1>1, <1>6, <2>1, KeyLoginArrives, KeyFrame
<1>7. ASSUME NEW t \in Tab, CallbackArrives(t) PROVE KeyInv'
  <2>1. UNCHANGED version
    BY <1>7 DEF CallbackArrives
  <2>. QED  BY <1>1, <1>7, <2>1, KeyCallbackArrives, KeyFrame
<1>8. ASSUME NEW t \in Tab, CallbackLost(t) \/ Leave(t) PROVE KeyInv'
  <2>1. /\ reply' = [reply EXCEPT ![t] = NoReply]
        /\ UNCHANGED <<version, cookieVars, old, expired>>
    BY <1>8 DEF CallbackLost, Leave, clockVars
  <2>2. NoReply.kind \notin {"flow", "in"}
    BY DEF NoReply
  <2>3. \A c \in Living' : c \in Living
    BY <2>1, <2>2, KeyDrop
  <2>. QED  BY <1>1, <2>1, <2>3, KeyFrame
<1>9. ASSUME NEW p \in Pod, Logout(p) PROVE KeyInv'
  <2>1. UNCHANGED <<version, flowCookie, reply, old, expired>> /\ sessionCookie' = None
    BY <1>9 DEF Logout, clockVars
  <2>. QED  BY <1>1, <2>1, KeyMove, KeyFrame
<1>10. ASSUME NEW p \in Pod, Deploy(p) PROVE KeyInv'
  BY <1>10, KeyDeploy
<1>11. ASSUME NEW f \in Flow, FlowAges(f) \/ SessionExpires(f) PROVE KeyInv'
  <2>1. /\ UNCHANGED <<version, flowCookie, sessionCookie, reply>>
        /\ old \subseteq old' /\ expired \subseteq expired'
    BY <1>11 DEF FlowAges, SessionExpires, cookieVars
  <2>. QED  BY <1>1, <2>1, KeyMove, KeyFrame
<1>12. ASSUME NEW f \in Flow, Recycle(f) PROVE KeyInv'
  <2>1. UNCHANGED version
    BY <1>12 DEF Recycle
  <2>. QED  BY <1>1, <1>12, <2>1, KeyRecycle, KeyFrame
<1>13. CASE CookieDropped
  <2>1. /\ UNCHANGED <<version, reply, old, expired>>
        /\ flowCookie' \in {flowCookie, None} /\ sessionCookie' \in {sessionCookie, None}
    BY <1>13 DEF CookieDropped, clockVars
  <2>. QED  BY <1>1, <2>1, KeyMove, KeyFrame
<1>14. CASE UNCHANGED vars
  <2>1. UNCHANGED <<version, flowCookie, sessionCookie, reply, old, expired>>
    BY <1>14 DEF vars, cookieVars, clockVars
  <2>. QED  BY <1>1, <2>1, KeyMove, KeyFrame
<1>. QED
  BY <1>2, <1>3, <1>4, <1>5, <1>6, <1>7, <1>8, <1>9, <1>10, <1>11, <1>12, <1>13, <1>14 DEF Next

LEMMA InitKeyInv == Init => KeyInv
BY DEF Init, KeyInv, Living, NoReply

\* In a safe rollout, whatever is sealed and has not expired is accepted by
\* every pod.
THEOREM RolloutInductive ==
    ASSUME SafeRollout
    PROVE  Spec => []KeyInv
<1>1. IInv /\ KeyInv /\ [Next]_vars => KeyInv'
  BY StepKeyInv
<1>. QED  BY InitKeyInv, Inductive, <1>1, PTL DEF Spec

\* ... so whichever pod gets the callback of an undisturbed sign-in completes
\* it, in the middle of a deployment too.
THEOREM RolloutKeepsSignIns ==
    ASSUME SafeRollout
    PROVE  Spec => []SignInSurvives
<1>1. IInv /\ KeyInv => SignInSurvives
  <2> SUFFICES ASSUME IInv, KeyInv, NEW t \in Tab, Undisturbed(t), NEW p \in Pod
               PROVE  Completes(t, p)
    BY DEF SignInSurvives
  <2>1. /\ flowCookie # None /\ flowCookie.flow = tab[t].flow
        /\ tab[t].flow \notin old
        /\ tab[t].code \in Accepted /\ <<tab[t].flow, tab[t].code>> \notin used
    BY DEF Undisturbed, IInv, PlaceInv
  <2>2. flowCookie.key \in Keys(KeyLists[version[p]])
    BY <2>1, LivingKinds DEF KeyInv
  <2>. QED  BY <2>1, <2>2 DEF Completes, Recognised, Opens
<1>. QED  BY Inductive, RolloutInductive, <1>1, PTL

\* ... and nobody is signed out by it.
THEOREM RolloutKeepsSessions ==
    ASSUME SafeRollout
    PROVE  Spec => []SessionSurvives
<1>1. KeyInv => SessionSurvives
  BY LivingKinds DEF KeyInv, SessionSurvives, SignedIn, Opens
<1>. QED  BY RolloutInductive, <1>1, PTL
=============================================================================
