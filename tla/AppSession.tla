------------------------------ MODULE AppSession ------------------------------
(***************************************************************************)
(* What the browser shows of a session: AuthContext.tsx, the route guards, *)
(* LoginCard and Navbar of the frontend, composed with the server's side   *)
(* of it, the module AuthSessions. Of the faults there, answers may be     *)
(* lost.                                                                   *)
(*                                                                         *)
(* Every load of a document asks /auth/me who the user is. A page may make *)
(* calls of its own meanwhile, the user may go on clicking, and answers    *)
(* come in any order. Answers to a document that was left are ignored, but *)
(* the server has done what was asked, and the browser may or may not have *)
(* taken the cookies.                                                      *)
(***************************************************************************)
EXTENDS AuthSessions

CONSTANTS
  Tab,         \* the one browser that is followed, with one document at a time
  MaxLoads     \* bound: documents the user loads

ASSUME TabAssumption == Tab \in Browsers /\ MaxLoads \in Nat

VARIABLES
  route,       \* the page that is shown: one for guests, one for users, or an open one
  user,        \* authData: is somebody logged in?
  checking,    \* sessionLoading
  call,        \* what each request was made for, and its answer if it is an error
  loads,       \* documents the user has loaded
  doubt        \* history: since the document was loaded, calls crossed, one failed, a
               \* token expired during one, or a logout was refused

page == <<route, user, checking>>
appVars == <<vars, page, call, loads, doubt>>

Route == {"open", "login", "profile"}
Purpose == {"none", "me", "page", "login", "logout", "left"}
NoCall == [what |-> "none", error |-> 0]

AppTypeOK ==
  /\ route \in Route
  /\ user \in BOOLEAN /\ checking \in BOOLEAN
  /\ call \in [Requests -> [what : Purpose, error : {0, 401, 403}]]
  /\ \A q \in Requests : request[q] # Idle => call[q].what # "none" /\ call[q].error = 0
  /\ loads \in 0..MaxLoads
  /\ doubt \in BOOLEAN

\* GuestRoute and ProtectedRoute, once the check is over. While it runs they
\* show nothing, so no button of theirs can be clicked.
Guarded(r, u) ==
  CASE r = "login" /\ u -> "profile"
    [] r = "profile" /\ ~u -> "login"
    [] OTHER -> r

AppInit ==
  /\ Init
  /\ route = "login" /\ user = FALSE /\ checking = FALSE
  /\ call = [q \in Requests |-> NoCall]
  /\ loads = 0 /\ doubt = FALSE

-----------------------------------------------------------------------------
(* Sending *)

\* A call that carries the cookies. Without any, the server refuses it.
Send(q, op) == IF jar[Tab] = 0 THEN UNCHANGED vars ELSE Start(q, Tab, op)

Crossing(q) == \E p \in Requests \ {q} : call[p] # NoCall

ErrorAtOnce == IF jar[Tab] = 0 THEN 403 ELSE 0

\* Mutant of Document: what the document before it asked for is undone.
DocumentUndoes(q, r) ==
  /\ route' = r
  /\ user' = FALSE
  /\ checking' = TRUE
  /\ doubt' = Crossing(q)
  /\ call' = [p \in Requests |->
                IF p = q THEN [what |-> "me", error |-> ErrorAtOnce] ELSE NoCall]

\* A document is loaded: it knows nobody, and asks /auth/me. What the document
\* before it waited for is answered to nobody.
Document(q, r) ==
  /\ route' = r
  /\ user' = FALSE
  /\ checking' = TRUE
  /\ doubt' = Crossing(q)
  /\ call' = [p \in Requests |->
                IF p = q THEN [what |-> "me", error |-> ErrorAtOnce]
                ELSE IF call[p].what = "none" \/ call[p].error # 0 THEN NoCall
                ELSE [call[p] EXCEPT !.what = "left"]]

\* The user loads a page, by a link of the menu, its address, or a reload.
Load(q, r) ==
  /\ loads < MaxLoads
  /\ call[q] = NoCall
  /\ Send(q, "use")
  /\ Document(q, r)
  /\ loads' = loads + 1

\* The user goes to a page without loading a document.
Visit(r) ==
  /\ r # route
  /\ route' = IF checking THEN r ELSE Guarded(r, user)
  /\ UNCHANGED <<vars, user, checking, call, loads, doubt>>

\* A page asks for what it shows. An open one, as the forum, does so without
\* waiting for the check; the profile is drawn after it.
PageCall(q) ==
  /\ call[q] = NoCall
  /\ route = "open" \/ (route = "profile" /\ user /\ ~checking)
  /\ Send(q, "use")
  /\ call' = [call EXCEPT ![q] = [what |-> "page", error |-> ErrorAtOnce]]
  /\ doubt' = (doubt \/ Crossing(q))
  /\ UNCHANGED <<page, loads>>

\* Mutant of LoginShown: GuestRoute draws its page while the check runs.
LoginShownAtOnce == route = "login" /\ ~user

LoginShown == route = "login" /\ ~checking /\ ~user

\* LoginCard: the name and the password are right.
Login(q) ==
  /\ LoginShown
  /\ call[q] = NoCall
  /\ StartLogin(q, Tab)
  /\ call' = [call EXCEPT ![q] = [what |-> "login", error |-> 0]]
  /\ doubt' = (doubt \/ Crossing(q))
  /\ UNCHANGED <<page, loads>>

\* The button of the Navbar.
Logout(q) ==
  /\ call[q] = NoCall
  /\ user
  /\ Send(q, "logout")
  /\ call' = [call EXCEPT ![q] = [what |-> "logout", error |-> ErrorAtOnce]]
  /\ doubt' = (doubt \/ Crossing(q))
  /\ UNCHANGED <<page, loads>>

-----------------------------------------------------------------------------
(* The server, and answers *)

\* The steps of AuthSessions that answer nothing yet.
Inside(q) ==
  /\ \/ CheckAccess(q) \/ CheckBlocklist(q) \/ CheckOwner(q) \/ Drop(q) \/ Block(q)
     \/ Issue(q) \/ Handle(q) \/ BlockAccess(q) \/ Collect(q) \/ Erase(q)
     \/ (Bearer(q) /\ request'[q] # Idle)
  /\ UNCHANGED <<page, call, loads, doubt>>

\* CookieTokenBearer: 401 for a token on the blocklist, 403 for one that expired.
Status(p) == IF access[p] = "live" THEN 401 ELSE 403

Denied(q) ==
  /\ Bearer(q) /\ request'[q] = Idle
  /\ call' = [call EXCEPT ![q] =
       IF @.what = "left" THEN NoCall ELSE [@ EXCEPT !.error = Status(request[q].old)]]
  /\ UNCHANGED <<page, loads, doubt>>

Finished(q) == call' = [call EXCEPT ![q] = NoCall]

\* An answer without error, to a document that still waits for it.
Answered(q) ==
  /\ Reply(q)
  /\ call[q].what # "left"
  /\ user' = CASE call[q].what \in {"me", "login"} -> TRUE
               [] call[q].what = "logout" -> FALSE
               [] OTHER -> user
  /\ checking' = (checking /\ call[q].what # "me")
  /\ route' = CASE call[q].what = "login" -> "profile"
                [] call[q].what = "logout" -> "open"
                [] call[q].what = "me" -> Guarded(route, TRUE)
                [] OTHER -> route
  /\ Finished(q)
  /\ UNCHANGED <<loads, doubt>>

\* An error other than 401. A logout is taken for done all the same.
Refused(q) ==
  /\ call[q].error = 403
  /\ user' = (user /\ call[q].what \in {"page", "login"})
  /\ checking' = (checking /\ call[q].what # "me")
  /\ route' = CASE call[q].what = "logout" -> "open"
                [] call[q].what = "me" -> Guarded(route, FALSE)
                [] OTHER -> route
  /\ doubt' = (doubt \/ call[q].what = "logout")
  /\ Finished(q)
  /\ UNCHANGED <<vars, loads>>

\* handleResponse sends the browser to /login on any 401.
Expelled(q) ==
  /\ call[q].error = 401
  /\ Send(q, "use")
  /\ Document(q, "login")
  /\ UNCHANGED loads

\* The browser hung up, and takes no cookie of the answer.
HungUp(q) ==
  /\ At(q, {"login", "use", "logout"}, "reply")
  /\ Done(q)
  /\ UNCHANGED <<tokens, redis, jar, ended, out, overlapped, faults>>

\* An answer to a document that was left: the browser may have hung up on it.
AnsweredToNobody(q) ==
  /\ call[q].what = "left"
  /\ Reply(q) \/ HungUp(q)
  /\ Finished(q)
  /\ UNCHANGED <<page, loads, doubt>>

-----------------------------------------------------------------------------
(* Faults, and time *)

\* fetch rejects. Nobody catches that but LoginCard; a check never ends.
AnswerLost(q) ==
  /\ LostReply(q)
  /\ Finished(q)
  /\ doubt' = TRUE
  /\ UNCHANGED <<page, loads>>

\* An access token may expire between the look of the middleware and that of
\* CookieTokenBearer: the call is refused, though its pair could be exchanged.
Time ==
  /\ \E p \in Pairs : ExpireAccess(p) \/ AgeRefresh(p)
  /\ doubt' = (doubt \/ (access' # access /\ \E q \in Requests : At(q, {"use"}, "bearer")))
  /\ UNCHANGED <<page, call, loads>>

AppNext ==
  \/ \E r \in Route : Visit(r)
  \/ \E q \in Requests :
       \/ \E r \in Route : Load(q, r)
       \/ PageCall(q) \/ Login(q) \/ Logout(q)
       \/ Inside(q) \/ Denied(q)
       \/ Answered(q) \/ Refused(q) \/ Expelled(q) \/ AnsweredToNobody(q) \/ AnswerLost(q)
  \/ Time

AppSpec == AppInit /\ [][AppNext]_appVars

-----------------------------------------------------------------------------
(* Properties *)

\* Could the browser use its cookies, or exchange them?
Usable(p) ==
  \/ access[p] = "live" /\ p \notin blockedA
  \/ refresh[p] = "long" /\ p \in store

\* "This is the single source of truth for whether the user is logged in",
\* AuthContext.tsx:34: once every call is answered, a page that shows nobody has
\* no session, whatever happened before it was loaded, unless calls of it
\* crossed or failed or a logout was refused.
GuestHasNoSession ==
  \/ doubt
  \/ user \/ checking
  \/ \E q \in Requests : call[q] # NoCall
  \/ jar[Tab] = 0 \/ ~Usable(jar[Tab])

\* Who is logged in stays so until a logout is answered or a document is loaded:
\* no late answer to the check undoes a login (GuestRoute.tsx:12).
LoginSticks ==
  [][user /\ ~user' =>
       \/ checking'
       \/ \E q \in Requests : call[q].what = "logout" /\ call'[q] = NoCall]_appVars
=============================================================================
