---------------------------- MODULE AuthSessions ----------------------------
(***************************************************************************)
(* The sessions of one user.  A login hands out a pair of tokens, an       *)
(* access and a refresh token, as cookies of a browser.  Redis holds the   *)
(* refresh tokens that may be exchanged, under refresh:<jti>, and the      *)
(* revoked tokens, under blocklist:<jti>.                                  *)
(*                                                                         *)
(* Four kinds of request work on them:                                     *)
(*   login    login_user, backend/src/auth/auth_routes.py                  *)
(*   use      any other route: TokenRefreshMiddleware.dispatch, in         *)
(*            auth/middleware.py, then CookieTokenBearer, then the handler *)
(*   refresh  rotate_refresh_token                                         *)
(*   logout   revoke_token                                                 *)
(* Each await is a step of its own.  A pair is a number, in the order of   *)
(* issue; both of its tokens go by it.  A key of Redis goes no earlier     *)
(* than its token, which is refused from then on, so keys stay here.       *)
(***************************************************************************)
EXTENDS Integers, FiniteSets, Functions

CONSTANTS
  Browsers,    \* the user's browsers, each with one jar of cookies
  Requests,    \* requests in flight at once
  Nobody,      \* no browser
  MaxPairs,    \* bound: pairs issued in a behaviour
  Faults,      \* the faults that may happen
  MaxFaults    \* bound: faults in a behaviour

FaultKinds == {"redisError", "redisLoss", "handlerError", "lostReply"}

ASSUME BoundsAssumption == MaxPairs \in Nat /\ MaxFaults \in Nat
ASSUME ModesAssumption == Nobody \notin Browsers /\ Faults \subseteq FaultKinds

VARIABLES
  issued,      \* pairs issued so far
  parent,      \* history: the pair a pair was exchanged for, 0 after a login
  access,      \* is an access token alive?
  refresh,     \* the life a refresh token has left
  store,       \* the refresh:<jti> keys of Redis
  blockedA,    \* the blocklist:<jti> keys of access tokens
  blockedR,    \* the blocklist:<jti> keys of refresh tokens
  jar,         \* the pair in a browser's cookies, 0 for none
  request,     \* where each request is and what it holds
  ended,       \* history: every pair up to this one was meant to be revoked
  out,         \* history: the pairs whose logout did all its work
  overlapped,  \* history: have two requests been in flight at once?
  faults       \* faults of each kind so far

redis == <<store, blockedA, blockedR>>
tokens == <<issued, parent, access, refresh>>
vars == <<tokens, redis, jar, request, ended, out, overlapped, faults>>

Pairs == 1..MaxPairs
Issued == 1..issued

Idle == [op |-> "idle", pc |-> "done", who |-> Nobody, old |-> 0, new |-> 0,
         late |-> FALSE, passed |-> FALSE, runs |-> 0, found |-> {}, upto |-> 0]

Request ==
  [op : {"idle", "login", "use", "refresh", "logout"},
   pc : {"done", "access", "blocklist", "owner", "drop", "block", "issue", "bearer",
         "handle", "blockAccess", "collect", "erase", "reply"},
   who : Browsers \cup {Nobody},
   old : 0..MaxPairs,         \* the pair it presented
   new : 0..MaxPairs,         \* the pair it was given in exchange
   late : BOOLEAN,            \* history: it was sent after a logout with that pair
   passed : BOOLEAN,          \* dispatch called the route over a good access token
   runs : 0..3,               \* times the handler ran
   found : SUBSET Pairs,      \* what the scan of refresh:* collected
   upto : 0..MaxPairs]        \* history: the pairs issued when it was collected

TypeOK ==
  /\ issued \in 0..MaxPairs
  /\ parent \in [Pairs -> 0..MaxPairs]
  /\ access \in [Pairs -> {"live", "over"}]
  /\ refresh \in [Pairs -> {"long", "short", "over"}]
  /\ store \subseteq Issued /\ blockedA \subseteq Issued /\ blockedR \subseteq Issued
  /\ jar \in [Browsers -> 0..issued]
  /\ request \in [Requests -> Request]
  /\ \A q \in Requests : {request[q].old, request[q].new, request[q].upto} \subseteq 0..issued
  /\ ended \in 0..issued /\ out \subseteq Issued
  /\ overlapped \in BOOLEAN
  /\ faults \in [Faults -> Nat]

Init ==
  /\ issued = 0
  /\ parent = [p \in Pairs |-> 0]
  /\ access = [p \in Pairs |-> "over"] /\ refresh = [p \in Pairs |-> "over"]
  /\ store = {} /\ blockedA = {} /\ blockedR = {}
  /\ jar = [b \in Browsers |-> 0]
  /\ request = [q \in Requests |-> Idle]
  /\ ended = 0 /\ out = {}
  /\ overlapped = FALSE /\ faults = [k \in Faults |-> 0]

GoTo(q, pc) == request' = [request EXCEPT ![q].pc = pc]
Done(q) == request' = [request EXCEPT ![q] = Idle]

At(q, op, pc) == request[q].op \in op /\ request[q].pc = pc
Active(S) == {p \in S : request[p] # Idle}

\* Bound: every other request in flight can still be given a pair.
Room(q) == issued + Cardinality(Active(Requests \ {q})) < MaxPairs

-----------------------------------------------------------------------------
(* The requests                                                            *)

\* A wrong password, an unknown user: the login changes nothing.
StartLogin(q, b) ==
  /\ request[q] = Idle /\ Room(q)
  /\ request' = [request EXCEPT ![q] = [Idle EXCEPT !.op = "login", !.pc = "issue", !.who = b]]
  /\ overlapped' = (overlapped \/ Active(Requests) # {})
  /\ UNCHANGED <<tokens, redis, jar, ended, out, faults>>

\* A browser sends the cookies it has.
Start(q, b, op) ==
  /\ request[q] = Idle /\ jar[b] # 0
  /\ op = "logout" \/ Room(q)
  /\ request' = [request EXCEPT ![q] =
       [Idle EXCEPT !.op = op, !.pc = IF op = "use" THEN "access" ELSE "bearer",
                    !.who = b, !.old = jar[b], !.late = jar[b] \in out]]
  /\ overlapped' = (overlapped \/ Active(Requests) # {})
  /\ UNCHANGED <<tokens, redis, jar, ended, out, faults>>

AccessGood(p) == access[p] = "live" /\ p \notin blockedA
RefreshGood(p) == refresh[p] # "over" /\ p \notin blockedR

\* Mutant of NextIfAccessBad: no pair is exchanged.
NextIfAccessBadNever(q) == "bearer"

\* Without a good access token dispatch looks at the refresh token, and passes on
\* a request it does not exchange the pair of.
NextIfAccessBad(q) == IF refresh[request[q].old] = "long" THEN "blocklist" ELSE "bearer"

\* The route is called inside the try of the look at the blocklist.
Pass(q) == request' = [request EXCEPT ![q].pc = "bearer", ![q].passed = TRUE]

CheckAccess(q) ==
  /\ At(q, {"use"}, "access")
  /\ IF AccessGood(request[q].old) THEN Pass(q) ELSE GoTo(q, NextIfAccessBad(q))
  /\ UNCHANGED <<tokens, redis, jar, ended, out, overlapped, faults>>

CheckBlocklist(q) ==
  /\ At(q, {"use"}, "blocklist")
  /\ GoTo(q, IF request[q].old \in blockedR THEN "bearer" ELSE "owner")
  /\ UNCHANGED <<tokens, redis, jar, ended, out, overlapped, faults>>

\* Mutant of CheckOwner: the old token is neither deleted nor blocklisted.
CheckOwnerKeeps(q) ==
  /\ At(q, {"use", "refresh"}, "owner")
  /\ GoTo(q, IF request[q].old \in store THEN "issue"
             ELSE IF request[q].op = "use" THEN "bearer" ELSE "collect")
  /\ UNCHANGED <<tokens, redis, jar, ended, out, overlapped, faults>>

\* A refresh token that is not in the store is a reuse to rotate_refresh_token.
CheckOwner(q) ==
  /\ At(q, {"use", "refresh"}, "owner")
  /\ GoTo(q, IF request[q].old \in store THEN "drop"
             ELSE IF request[q].op = "use" THEN "bearer" ELSE "collect")
  /\ UNCHANGED <<tokens, redis, jar, ended, out, overlapped, faults>>

\* delete_refresh_token
Drop(q) ==
  /\ At(q, {"use", "refresh"}, "drop")
  /\ store' = store \ {request[q].old}
  /\ GoTo(q, "block")
  /\ UNCHANGED <<tokens, blockedA, blockedR, jar, ended, out, overlapped, faults>>

\* add_jti_to_blocklist, for the refresh token
Block(q) ==
  /\ At(q, {"use", "refresh"}, "block")
  /\ blockedR' = blockedR \cup {request[q].old}
  /\ GoTo(q, "issue")
  /\ UNCHANGED <<tokens, store, blockedA, jar, ended, out, overlapped, faults>>

\* The next pair, exchanged for the one presented.
NewPair(q) ==
  /\ At(q, {"login", "use", "refresh"}, "issue")
  /\ issued < MaxPairs
  /\ issued' = issued + 1
  /\ parent' = [parent EXCEPT ![issued + 1] = request[q].old]
  /\ access' = [access EXCEPT ![issued + 1] = "live"]
  /\ refresh' = [refresh EXCEPT ![issued + 1] = "long"]
  /\ request' = [request EXCEPT ![q].new = issued + 1,
                                ![q].pc = IF request[q].op = "use" THEN "handle" ELSE "reply"]
  /\ UNCHANGED <<blockedA, blockedR, jar, ended, out, overlapped, faults>>

\* Mutant of Issue: no token is stored.
IssueUnstored(q) == NewPair(q) /\ UNCHANGED store

\* generate_tokens
Issue(q) == NewPair(q) /\ store' = store \cup {issued + 1}

\* CookieTokenBearer, for the token the route asks for
Bearer(q) ==
  /\ At(q, {"use", "refresh", "logout"}, "bearer")
  /\ LET p == request[q].old IN
     \/ /\ request[q].op = "use" /\ AccessGood(p) /\ GoTo(q, "handle")
     \/ /\ request[q].op = "logout" /\ AccessGood(p) /\ GoTo(q, "blockAccess")
     \/ /\ request[q].op = "refresh" /\ RefreshGood(p) /\ GoTo(q, "owner")
     \/ /\ ~(IF request[q].op = "refresh" THEN RefreshGood(p) ELSE AccessGood(p))
        /\ Done(q)
  /\ UNCHANGED <<tokens, redis, jar, ended, out, overlapped, faults>>

\* The handler of the route runs and answers.
Handle(q) ==
  /\ At(q, {"use"}, "handle")
  /\ request' = [request EXCEPT ![q].runs = @ + 1, ![q].pc = "reply"]
  /\ UNCHANGED <<tokens, redis, jar, ended, out, overlapped, faults>>

\* add_jti_to_blocklist, for the access token
BlockAccess(q) ==
  /\ At(q, {"logout"}, "blockAccess")
  /\ blockedA' = blockedA \cup {request[q].old}
  /\ GoTo(q, "collect")
  /\ UNCHANGED <<tokens, store, blockedR, jar, ended, out, overlapped, faults>>

Collected(q, S) ==
  /\ At(q, {"refresh", "logout"}, "collect")
  /\ request' = [request EXCEPT ![q].found = S, ![q].upto = issued, ![q].pc = "erase"]
  /\ UNCHANGED <<tokens, redis, jar, ended, out, overlapped, faults>>

\* Mutants of Collect: the caller's own token is left out; no other is taken.
CollectOthers(q) == Collected(q, store \ {request[q].old})
CollectOwn(q) == Collected(q, store \cap {request[q].old})

\* revoke_all_user_refresh_tokens scans the store, then deletes what it found.
\* A token stored after the scan went by is not found.
Collect(q) == Collected(q, store)

Erase(q) ==
  /\ At(q, {"refresh", "logout"}, "erase")
  /\ store' = store \ request[q].found
  /\ ended' = IF ended < request[q].upto THEN request[q].upto ELSE ended
  /\ IF request[q].op = "logout"
       THEN out' = out \cup {request[q].old} /\ GoTo(q, "reply")
       ELSE UNCHANGED out /\ Done(q)
  /\ UNCHANGED <<tokens, blockedA, blockedR, jar, overlapped, faults>>

\* The answer reaches the browser, with the cookies it sets or clears.
Reply(q) ==
  /\ At(q, {"login", "use", "refresh", "logout"}, "reply")
  /\ jar' = [jar EXCEPT ![request[q].who] =
       IF request[q].op = "logout" THEN 0
       ELSE IF request[q].new # 0 THEN request[q].new ELSE @]
  /\ Done(q)
  /\ UNCHANGED <<tokens, redis, ended, out, overlapped, faults>>

-----------------------------------------------------------------------------
(* Time: tokens of one kind live equally long, an access token far shorter *)

ExpireAccess(p) ==
  /\ p \in Issued /\ access[p] = "live"
  /\ \A o \in 1..(p - 1) : access[o] = "over"
  /\ access' = [access EXCEPT ![p] = "over"]
  /\ UNCHANGED <<issued, parent, refresh, redis, jar, request, ended, out, overlapped, faults>>

\* "short" is under REFRESH_MIN_TTL_SECONDS: the middleware leaves it alone.
AgeRefresh(p) ==
  /\ p \in Issued /\ access[p] = "over" /\ refresh[p] # "over"
  /\ \A o \in 1..(p - 1) : refresh[o] = "over" \/ (refresh[o] = "short" /\ refresh[p] = "long")
  /\ refresh' = [refresh EXCEPT ![p] = IF @ = "long" THEN "short" ELSE "over"]
  /\ UNCHANGED <<issued, parent, access, redis, jar, request, ended, out, overlapped, faults>>

-----------------------------------------------------------------------------
(* Faults                                                                  *)

Fault(kind) ==
  /\ kind \in Faults
  /\ SumFunctionOnSet(faults, Faults) < MaxFaults
  /\ faults' = [faults EXCEPT ![kind] = @ + 1]

Happened(kind) == kind \in Faults /\ faults[kind] > 0

\* A call to Redis raises.  The middleware goes on to the next check, or, once
\* it began to exchange the pair, to the route with the old cookies; a logout
\* clears the cookies all the same; anything else ends in an error.
RedisError(q) ==
  /\ Fault("redisError")
  /\ request[q].pc \notin {"done", "handle", "reply"}
  /\ IF request[q].op = "use" /\ request[q].pc = "access"
       THEN GoTo(q, NextIfAccessBad(q))
     ELSE IF request[q].op = "use" /\ request[q].pc \in {"drop", "block", "issue"}
       THEN GoTo(q, "bearer")
     ELSE IF request[q].op = "logout" /\ request[q].pc # "bearer"
       THEN GoTo(q, "reply")
     ELSE Done(q)
  /\ UNCHANGED <<tokens, redis, jar, ended, out, overlapped>>

\* Redis restarts empty.
RedisLoss ==
  /\ Fault("redisLoss")
  /\ store' = {} /\ blockedA' = {} /\ blockedR' = {}
  /\ UNCHANGED <<tokens, jar, request, ended, out, overlapped>>

\* The handler raises what no handler of exceptions below the middleware takes.
\* Dispatch calls the route inside a try twice. Over a good access token it takes
\* the exception for one of Redis, and goes on as if the token were bad. After an
\* exchange it takes it for an error of its own, calls the route again, which
\* finds the new token in request.state, and sets no cookie.
HandlerError(q) ==
  /\ Fault("handlerError")
  /\ At(q, {"use"}, "handle")
  /\ \/ /\ request[q].passed
        /\ request' = [request EXCEPT ![q].runs = @ + 1, ![q].passed = FALSE,
                                      ![q].pc = NextIfAccessBad(q)]
     \/ /\ request[q].new # 0
        /\ request' = [request EXCEPT ![q].runs = @ + 1, ![q].new = 0]
     \/ /\ ~request[q].passed /\ request[q].new = 0
        /\ Done(q)
  /\ UNCHANGED <<tokens, redis, jar, ended, out, overlapped>>

LostReply(q) ==
  /\ Fault("lostReply")
  /\ request[q].pc = "reply"
  /\ Done(q)
  /\ UNCHANGED <<tokens, redis, jar, ended, out, overlapped>>

Step(q) ==
  \/ CheckAccess(q) \/ CheckBlocklist(q) \/ CheckOwner(q) \/ Drop(q) \/ Block(q)
  \/ Issue(q) \/ Bearer(q) \/ Handle(q) \/ BlockAccess(q) \/ Collect(q) \/ Erase(q)
  \/ Reply(q)

Next ==
  \/ \E q \in Requests :
       \/ \E b \in Browsers :
            StartLogin(q, b) \/ \E op \in {"use", "refresh", "logout"} : Start(q, b, op)
       \/ Step(q) \/ RedisError(q) \/ HandlerError(q) \/ LostReply(q)
  \/ \E p \in Pairs : ExpireAccess(p) \/ AgeRefresh(p)
  \/ RedisLoss

Spec == Init /\ [][Next]_vars

-----------------------------------------------------------------------------
(* Properties                                                              *)

Exchanged(p) == \E c \in Issued : parent[c] = p

\* The pair of the login a pair goes back to.
Root[p \in Pairs] == IF parent[p] = 0 THEN p ELSE Root[parent[p]]

\* A refresh token that is blocklisted is not in the store, whatever fails
\* between deleting the one key and writing the other.
BlockedIsNotStored == blockedR \cap store = {}

\* Once a pair was issued in exchange for another, the other is not in the
\* store and cannot be exchanged by a request that looks for it from then on.
ExchangedIsNotStored == \A p \in store : ~Exchanged(p)

\* After a logout that did all its work, a request that presents the pair
\* logged out never reaches a handler: its access token is blocklisted and its
\* refresh token is gone, however other requests exchange it meanwhile and
\* whatever fails, unless Redis lost its keys.
LoggedOutStaysOut ==
  \/ Happened("redisLoss")
  \/ \A q \in Requests : request[q].late => request[q].runs = 0 /\ request[q].pc # "handle"

\* Without faults, a browser whose requests are all answered holds a refresh
\* token that the store still knows, unless that token itself was revoked,
\* however its requests overlapped.
BrowserKeepsSession ==
  \/ \E kind \in Faults : Happened(kind)
  \/ \A b \in Browsers :
       LET p == jar[b] IN
       (p # 0 /\ \A q \in Requests : request[q].who # b) =>
         p <= ended \/ p \in store

\* "Verify the refresh JTI is in our store (wasn't already rotated)",
\* middleware.py:112: a refresh token is exchanged for one pair, whatever fails,
\* as long as no two requests overlap.
ExchangedOnce ==
  overlapped \/ \A c, d \in Issued : parent[c] = parent[d] /\ parent[c] # 0 => c = d

\* "Delete every active refresh token belonging to `username`.  Called on
\* explicit logout and on refresh-token reuse detection", redis_client.py:137:
\* after a revocation none of the sessions that were there goes on, as long as
\* no two requests overlap.
SessionsEnd == overlapped \/ \A p \in store : Root[p] > ended

\* A request with a valid access token is "pass[ed] through untouched",
\* middleware.py:7, and one whose rotation failed goes to "the normal dependency
\* chain", middleware.py:168: whatever its handler does, it runs once.
HandledOnce == \A q \in Requests : request[q].runs <= 1

\* "its JTI is no longer in the refresh store, meaning it was already rotated",
\* test_auth_routes.py:218: all sessions are revoked over a refresh token
\* only after it was exchanged or revoked before, unless two requests
\* overlapped or Redis lost keys or failed half way through an exchange.
NoFalseAlarm ==
  [][\/ overlapped \/ Happened("redisError") \/ Happened("redisLoss")
     \/ \A q \in Requests :
          At(q, {"refresh"}, "owner") /\ request'[q].pc = "collect" =>
            Exchanged(request[q].old) \/ request[q].old <= ended]_vars
=============================================================================
