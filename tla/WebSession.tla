----------------------------- MODULE WebSession -----------------------------
(***************************************************************************)
(* One request of the web application, from the filter to the filter's     *)
(* finally block, on the threads of Jetty's pool: the request context in a *)
(* ThreadLocal, the cookie interceptor, the login form, the exception      *)
(* resolver and the rendering of the view.  The sessions live in           *)
(* LocalCache, which this module composes, expire task included.           *)
(*                                                                         *)
(* The database of accounts is outside the server and somebody may change  *)
(* it at any time.                                                         *)
(***************************************************************************)
EXTENDS Integers, Sequences

CONSTANTS
    Threads,      \* the threads of the pool
    Sweeper,      \* the thread that runs LocalCacheExpireTask
    Users,        \* the rows of system_user
    Stranger,     \* a cookie value that is no token of this server
    Pages,        \* what is asked for: of "index", "login", "submit" and "other"
    Changes,      \* to what the status of an account may be changed
    LoginExpire,  \* LOCAL_CACHE_KEY_LOGIN_EXPIRE
    MaxRequests,  \* bound on the number of requests
    MaxNow,       \* bound on the clock
    Nil           \* Java's null

Statuses == {"normal", "disable"}

ASSUME SessionAssumption ==
    /\ Pages \subseteq {"index", "login", "submit", "other"}
    /\ Changes \subseteq Statuses
    /\ LoginExpire \in Nat \ {0}
    /\ MaxRequests \in Nat
    /\ Stranger \notin 1..MaxRequests
    /\ Sweeper \notin Threads

SystemUser == [user : Users, status : Statuses]

\* A random UUID has not been drawn before and will not be again: the token of
\* a login is the number of its request.
Tokens == 1..MaxRequests
Cookies == Tokens \union {Stranger}

VARIABLES
    \* LocalCache
    now, map, readers, writer, queue, pc, key, item, answer, todo, removed,
    \* the server
    stage,      \* where each thread is with its request
    request,    \* the request it serves, or Nil
    ctx,        \* the AuthContext in its ThreadLocal, or Nil
    outcome,    \* the exception it has thrown or the view it has chosen, or Nil
    loaded,     \* the SystemUser its login has read from the database, or Nil
    token,      \* the token its login has drawn, or Nil
    requests,   \* the number of requests so far
    scheduled,  \* whether main has scheduled the expire task
    \* the outside
    accounts,   \* the status column of system_user
    jar,        \* the tokens that browsers hold
    \* history
    barred,     \* barred[t]: the users disabled ever since t's request arrived
    sessions    \* sessions[k]: what was stored for k when k was stored, or Nil

cacheVars == <<now, map, readers, writer, queue, pc, key, item, answer, todo, removed>>
threadVars == <<stage, request, ctx, outcome, loaded, token>>
webVars == <<stage, request, ctx, outcome, loaded, token, requests, scheduled, accounts, jar>>
history == <<barred, sessions>>
vars == <<cacheVars, webVars, history>>

Cache == INSTANCE LocalCache WITH
    Keys <- Cookies, Values <- SystemUser, Ttls <- {LoginExpire}, BackSteps <- {}

Exceptions == {"NotLoginException", "UserDisableException", "Exception"}
Views == {"index", "login", "login timeout", "login disabled", "login failed",
          "redirect", "error", "not found"}

Request ==
    [number : 1..MaxRequests, page : Pages,
     cookie : Cookies \union {Nil}, login : Users \union {Nil}]

AuthContext == [requestId : 1..MaxRequests, userInfo : SystemUser \union {Nil}]

ASSUME NullAssumption ==
    Nil \notin Threads \union {Sweeper} \union Users \union Cookies \union SystemUser
                \union Cache!LocalCacheObject \union Request \union AuthContext

TypeOK ==
    /\ Cache!TypeOK
    /\ stage \in [Threads -> {"idle", "cookie", "lookup", "query", "issue", "store",
                              "resolve", "render", "finally"}]
    /\ request \in [Threads -> Request \union {Nil}]
    /\ ctx \in [Threads -> AuthContext \union {Nil}]
    /\ outcome \in [Threads -> Exceptions \union Views \union {Nil}]
    /\ loaded \in [Threads -> SystemUser \union {Nil}]
    /\ token \in [Threads -> Tokens \union {Nil}]
    /\ requests \in 0..MaxRequests
    /\ scheduled \in BOOLEAN
    /\ accounts \in [Users -> Statuses]
    /\ jar \subseteq Tokens
    /\ barred \in [Threads -> SUBSET Users]
    /\ sessions \in [Cookies -> Cache!LocalCacheObject \union {Nil}]

Init ==
    /\ Cache!Init
    /\ stage = [t \in Threads |-> "idle"]
    /\ request = [t \in Threads |-> Nil]
    /\ ctx = [t \in Threads |-> Nil]
    /\ outcome = [t \in Threads |-> Nil]
    /\ loaded = [t \in Threads |-> Nil]
    /\ token = [t \in Threads |-> Nil]
    /\ requests = 0
    /\ scheduled = FALSE
    /\ accounts \in [Users -> Statuses]
    /\ jar = {}
    /\ barred = [t \in Threads |-> {}]
    /\ sessions = [k \in Cookies |-> Nil]

-----------------------------------------------------------------------------
Goto(t, from, to) ==
    /\ stage[t] = from
    /\ stage' = [stage EXCEPT ![t] = to]

Throw(t, from, exception) ==
    /\ Goto(t, from, "resolve")
    /\ outcome' = [outcome EXCEPT ![t] = exception]

Show(t, from, view) ==
    /\ Goto(t, from, "render")
    /\ outcome' = [outcome EXCEPT ![t] = view]

-----------------------------------------------------------------------------
(* SystemFilter, until chain.doFilter hands the request to its handler *)

\* A browser sends a cookie it has, none, or one of another server.  The login
\* form names an account, or no account matches name and password.
Arriving ==
    {[number |-> requests + 1, page |-> p, cookie |-> c, login |-> u]
        : p \in Pages, c \in jar \union {Stranger, Nil}, u \in Users \union {Nil}}

\* Only the index looks at the cookie and only the form has an account.
WellFormed(r) ==
    /\ r.page # "index" => r.cookie = Nil
    /\ r.page # "submit" => r.login = Nil

\* AuthContextHolder.init() keeps a context that is already there.
InitContext(t) ==
    ctx' = [ctx EXCEPT ![t] = IF @ = Nil
                              THEN [requestId |-> requests + 1, userInfo |-> Nil]
                              ELSE @]

\* Only "/" goes through the cookie interceptor.
Dispatch(t, page) ==
    CASE page = "index"  -> Goto(t, "idle", "cookie") /\ UNCHANGED outcome
      [] page = "submit" -> Goto(t, "idle", "query") /\ UNCHANGED outcome
      [] page = "login"  -> Show(t, "idle", "login")
      [] page = "other"  -> Show(t, "idle", "not found")

Accept(t, r) ==
    /\ WellFormed(r)
    /\ requests < MaxRequests
    /\ requests' = requests + 1
    /\ request' = [request EXCEPT ![t] = r]
    /\ InitContext(t)
    /\ Dispatch(t, r.page)
    /\ barred' = [barred EXCEPT ![t] = {u \in Users : accounts[u] = "disable"}]
    /\ UNCHANGED <<cacheVars, loaded, token, scheduled, accounts, jar, sessions>>

-----------------------------------------------------------------------------
(* SystemCookieInterceptor.preHandle *)

CookieMissing(t) ==
    /\ Throw(t, "cookie", "NotLoginException")
    /\ request[t].cookie = Nil
    /\ UNCHANGED <<cacheVars, request, ctx, loaded, token, requests, scheduled,
                   accounts, jar, history>>

\* UserService.queryUserByToken calls LocalCacheService.get.
CookieLookup(t) ==
    /\ Goto(t, "cookie", "lookup")
    /\ request[t].cookie # Nil
    /\ Cache!GetCall(t, request[t].cookie)
    /\ UNCHANGED <<request, ctx, outcome, loaded, token, requests, scheduled,
                   accounts, jar, history>>

\* The get has returned.
Authenticate(t) ==
    /\ stage[t] = "lookup" /\ pc[t] = "idle"
    /\ CASE answer[t] = Nil ->
              Throw(t, "lookup", "NotLoginException") /\ UNCHANGED ctx
         [] answer[t] # Nil /\ answer[t].status = "disable" ->
              Throw(t, "lookup", "UserDisableException") /\ UNCHANGED ctx
         [] OTHER ->
              /\ Show(t, "lookup", "index")
              /\ ctx' = [ctx EXCEPT ![t].userInfo = answer[t]]
    /\ UNCHANGED <<cacheVars, request, loaded, token, requests, scheduled,
                   accounts, jar, history>>

-----------------------------------------------------------------------------
(* IndexViewController.loginForUser and UserService.userLogin *)

\* findByLoginNameAndPassword.
QueryAccount(t) ==
    LET u == request[t].login
        rejected == u = Nil \/ (u # Nil /\ accounts[u] = "disable")
    IN  /\ stage[t] = "query"
        /\ IF rejected
           THEN Show(t, "query", "login failed") /\ UNCHANGED loaded
           ELSE /\ Goto(t, "query", "issue")
                /\ loaded' = [loaded EXCEPT ![t] = [user |-> u, status |-> accounts[u]]]
                /\ UNCHANGED outcome
        /\ UNCHANGED <<cacheVars, request, ctx, token, requests, scheduled,
                       accounts, jar, history>>

\* The database cannot be reached.
QueryFails(t) ==
    /\ Throw(t, "query", "Exception")
    /\ UNCHANGED <<cacheVars, request, ctx, loaded, token, requests, scheduled,
                   accounts, jar, history>>

\* Mutant of IssueToken: the first number that the cache does not hold.
IssueTokenFree(t) ==
    LET n == CHOOSE k \in Tokens : map[k] = Nil /\ \A j \in 1..k - 1 : map[j] # Nil
    IN  /\ Goto(t, "issue", "store")
        /\ token' = [token EXCEPT ![t] = n]
        /\ Cache!SetCall(t, n, loaded[t], LoginExpire)
        /\ loaded' = [loaded EXCEPT ![t] = Nil]
        /\ UNCHANGED <<request, ctx, outcome, requests, scheduled, accounts, jar, history>>

\* A fresh token, then LocalCacheService.set with what the database said.
IssueToken(t) ==
    /\ Goto(t, "issue", "store")
    /\ token' = [token EXCEPT ![t] = request[t].number]
    /\ Cache!SetCall(t, request[t].number, loaded[t], LoginExpire)
    /\ loaded' = [loaded EXCEPT ![t] = Nil]
    /\ UNCHANGED <<request, ctx, outcome, requests, scheduled, accounts, jar, history>>

\* The set has returned; the cookie is added to the response.
LoggedIn(t) ==
    /\ pc[t] = "idle"
    /\ Show(t, "store", "redirect")
    /\ UNCHANGED <<cacheVars, request, ctx, loaded, token, requests, scheduled,
                   accounts, jar, history>>

-----------------------------------------------------------------------------
(* DispatcherServlet: exception resolution and rendering *)

\* Mutant of ErrorPage: RestExceptionHandler comes first, which answers without
\* a view.
ErrorPageEmpty(exception) ==
    IF exception = "NotLoginException" THEN "redirect" ELSE "empty"

\* SystemExceptionHandler answers every exception; RestExceptionHandler, behind
\* it, is never asked.
ErrorPage(exception) ==
    CASE exception = "NotLoginException"    -> "login timeout"
      [] exception = "UserDisableException" -> "login disabled"
      [] OTHER                              -> "error"

Resolve(t) ==
    /\ Show(t, "resolve", ErrorPage(outcome[t]))
    /\ UNCHANGED <<cacheVars, request, ctx, loaded, token, requests, scheduled,
                   accounts, jar, history>>

\* A rendered response may reach the browser at once, with its cookie.
Render(t) ==
    /\ Goto(t, "render", "finally")
    /\ jar' = IF token[t] = Nil THEN jar ELSE jar \union {token[t]}
    /\ UNCHANGED <<cacheVars, request, ctx, outcome, loaded, token, requests,
                   scheduled, accounts, history>>

\* The view cannot be rendered or the browser has gone: the exception passes
\* through the filter.
RenderFails(t) ==
    /\ Goto(t, "render", "finally")
    /\ outcome' = [outcome EXCEPT ![t] = "Exception"]
    /\ UNCHANGED <<cacheVars, request, ctx, loaded, token, requests, scheduled,
                   accounts, jar, history>>

\* Mutant of Finish: the context is not destroyed.
FinishKeepingContext(t) ==
    /\ Goto(t, "finally", "idle")
    /\ request' = [request EXCEPT ![t] = Nil]
    /\ outcome' = [outcome EXCEPT ![t] = Nil]
    /\ token' = [token EXCEPT ![t] = Nil]
    /\ barred' = [barred EXCEPT ![t] = {}]
    /\ UNCHANGED <<cacheVars, ctx, loaded, requests, scheduled, accounts, jar, sessions>>

\* The filter's finally block: AuthContextHolder.destroy().
Finish(t) ==
    /\ Goto(t, "finally", "idle")
    /\ ctx' = [ctx EXCEPT ![t] = Nil]
    /\ request' = [request EXCEPT ![t] = Nil]
    /\ outcome' = [outcome EXCEPT ![t] = Nil]
    /\ token' = [token EXCEPT ![t] = Nil]
    /\ barred' = [barred EXCEPT ![t] = {}]
    /\ UNCHANGED <<cacheVars, loaded, requests, scheduled, accounts, jar, sessions>>

-----------------------------------------------------------------------------
(* The cache, the expire task and the outside *)

\* A put is recorded in the history.
CacheStep(a) ==
    /\ Cache!Enqueue(a) \/ Cache!Acquire(a) \/ Cache!Proceed(a)
    /\ sessions' = IF pc[a] = "set.put"
                   THEN [sessions EXCEPT ![key[a]] = item[a]]
                   ELSE sessions
    /\ UNCHANGED <<webVars, barred>>

\* main, once the server accepts requests.
Schedule ==
    /\ ~scheduled
    /\ scheduled' = TRUE
    /\ UNCHANGED <<cacheVars, threadVars, requests, accounts, jar, history>>

Sweep ==
    /\ scheduled
    /\ Cache!Sweep
    /\ UNCHANGED <<webVars, history>>

Tick ==
    /\ Cache!Tick
    /\ UNCHANGED <<webVars, history>>

\* Somebody changes the status of an account.
SetStatus(u, s) ==
    /\ accounts[u] # s
    /\ accounts' = [accounts EXCEPT ![u] = s]
    /\ barred' = IF s = "normal" THEN [t \in Threads |-> barred[t] \ {u}] ELSE barred
    /\ UNCHANGED <<cacheVars, threadVars, requests, scheduled, jar, sessions>>

-----------------------------------------------------------------------------
Serve(t) ==
    \/ CookieMissing(t) \/ CookieLookup(t) \/ Authenticate(t)
    \/ QueryAccount(t) \/ QueryFails(t) \/ IssueToken(t) \/ LoggedIn(t)
    \/ Resolve(t) \/ Render(t) \/ RenderFails(t) \/ Finish(t)

Next ==
    \/ \E t \in Threads, r \in Arriving : Accept(t, r)
    \/ \E t \in Threads : Serve(t)
    \/ \E a \in Cache!Agents : CacheStep(a)
    \/ Schedule
    \/ Sweep
    \/ Tick
    \/ \E u \in Users, s \in Changes : SetStatus(u, s)

Spec == Init /\ [][Next]_vars

(***************************************************************************)
(* Fairness: a thread that serves a request runs on, and so do main and    *)
(* the expire task; the lock of the cache as in LocalCache.                *)
(***************************************************************************)
FairSpec ==
    /\ Spec
    /\ \A t \in Threads : WF_vars(Serve(t))
    /\ \A a \in Cache!Agents :
         WF_vars(CacheStep(a)) /\ SF_vars(Cache!Queued(a) /\ CacheStep(a))
    /\ WF_vars(Schedule) /\ WF_vars(Sweep)

-----------------------------------------------------------------------------
(* Properties *)

\* The context of a request is its own, also on a thread that has served other
\* requests: it is there from the filter's first line to its last, it carries
\* this request's id, and the user in it is the one who opened the session of
\* the cookie that came with this request.
ContextIsOwn ==
    \A t \in Threads :
      /\ stage[t] = "idle" <=> ctx[t] = Nil
      /\ stage[t] # "idle" => ctx[t].requestId = request[t].number
      /\ stage[t] # "idle" /\ ctx[t].userInfo # Nil =>
           /\ request[t].cookie \in Tokens
           /\ sessions[request[t].cookie] # Nil
           /\ sessions[request[t].cookie].value = ctx[t].userInfo

\* The expire task never takes a session out of the cache before the date
\* promised at login has passed.
LiveSessionIsKept ==
    \A k \in Tokens :
      sessions[k] # Nil /\ sessions[k].expire >= now => map[k] = sessions[k]

\* To the requests the cache is a store of sessions that are opened once and
\* never removed: purging cannot be observed.
Asked(t) == IF pc[t] \in Cache!GetPc THEN key[t] ELSE Nil

Store == INSTANCE SessionStore WITH
    Tokens <- Cookies,
    Accounts <- SystemUser,
    asked <- [t \in Threads |-> Asked(t)]

ImplementsSessionStore == Store!Spec

\* Every request is answered, whichever exception it meets on the way and
\* however many threads wait for the lock of the cache.
RequestIsAnswered ==
    \A t \in Threads : stage[t] # "idle" ~> stage[t] = "idle"

\* A user who is disabled is rejected, as the interceptor says it does: the
\* index is not shown to a user whose account has been disabled for as long as
\* the request has been running.
DisabledUserIsRejected ==
    \A t \in Threads :
      stage[t] = "render" /\ outcome[t] = "index" => ctx[t].userInfo.user \notin barred[t]
=============================================================================
