------------------------------ MODULE HTTPClient ------------------------------
(***************************************************************************)
(* The HTTP client (internal/net/http.go): requests in flight together     *)
(* that share one cookie jar and one cache, scripts that set cookies, and  *)
(* restarts.                                                               *)
(*                                                                         *)
(* A request looks the cache up when it starts and stores cookies and its  *)
(* response when it ends, whatever happened meanwhile.  Time is a clock    *)
(* that starts at Start, so that Past is a date already gone.  A request   *)
(* refused before it is sent (bad URL, filter) changes nothing and has no  *)
(* action; so has a file URL.  A response sets at most one cookie: Store   *)
(* treats each of several in turn, under one lock.                         *)
(***************************************************************************)
EXTENDS CookieJar, ResponseCache

CONSTANTS Req, Idle, Unkept,
          Sizes, Lifetimes,  \* sizes and freshness lifetimes of responses
          MaxClock,          \* bound: the last tick of the clock
          MaxRestarts        \* bound: runs of the browser after the first

Past  == 1
Start == 2

ASSUME HTTPClientAssumption ==
    /\ Sizes \subseteq Nat /\ Lifetimes \subseteq Nat
    /\ MaxClock \in Nat /\ MaxClock >= Start /\ MaxRestarts \in Nat

VARIABLES
    inFlight,   \* the URL under which each request's response may be kept;
                \* Unkept for a stream or a POST, whose response is not
    clock,
    restarts

vars == <<jar, inFlight, clock, restarts, cacheVars>>

Kind == {"get", "stream", "post"}
Expiries == {Session, Past} \cup Start..(MaxClock - 1)

TypeOK ==
    /\ JarTypeOK(Expiries)
    /\ CacheTypeOK(Sizes, {t + l : t \in Start..MaxClock, l \in Lifetimes \ {0}})
    /\ inFlight \in [Req -> Url \cup {Idle, Unkept}]
    /\ clock \in Start..MaxClock /\ restarts \in 0..MaxRestarts

Init ==
    /\ jar = <<>>
    /\ inFlight = [r \in Req |-> Idle]
    /\ clock = Start /\ restarts = 0
    /\ CacheInit
-----------------------------------------------------------------------------
(* A GET for a URL the cache holds fresh ends there; any other request is   *)
(* sent.  A POST does not ask the cache.                                    *)
Send(r, kind, u) ==
    /\ inFlight[r] = Idle
    /\ kind = "post" \/ ~Fresh(u, clock)
    /\ inFlight' = [inFlight EXCEPT ![r] = IF kind = "get" THEN u ELSE Unkept]
    /\ IF kind = "post" THEN UNCHANGED cacheVars ELSE Get(u, clock)
    /\ UNCHANGED <<jar, clock, restarts>>

Done(r) == inFlight[r] # Idle /\ inFlight' = [inFlight EXCEPT ![r] = Idle]

(* The response comes with a cookie of the host that answered, which after  *)
(* redirects may be any: it is stored, and the response is not.             *)
ReceiveCookie(r, c) ==
    /\ Done(r)
    /\ Store(c, clock)
    /\ UNCHANGED <<cacheVars, clock, restarts>>

(* The response comes without a cookie: a GET read to its end may be kept,  *)
(* under the URL asked for.  Every other end of a request (a failure, a     *)
(* timeout, a body past its limit, a response not to be kept) is one with   *)
(* lifetime 0.                                                              *)
Receive(r, size, lifetime) ==
    /\ Done(r)
    /\ \/ inFlight[r] # Unkept /\ Keep(inFlight[r], size, lifetime, clock)
       \/ inFlight[r] = Unkept /\ lifetime = 0 /\ UNCHANGED cacheVars
    /\ UNCHANGED <<jar, clock, restarts>>

SetFromScript(c) ==
    /\ SetCookieFromDocument(c, clock)
    /\ UNCHANGED <<inFlight, cacheVars, clock, restarts>>

ClearCookies ==
    /\ Clear
    /\ UNCHANGED <<inFlight, cacheVars, clock, restarts>>

Tick ==
    /\ clock < MaxClock /\ clock' = clock + 1
    /\ UNCHANGED <<jar, inFlight, cacheVars, restarts>>

(* Close saves the jar and the next run loads it; requests and cache go.    *)
Reopen ==
    /\ restarts < MaxRestarts /\ restarts' = restarts + 1
    /\ SaveAndLoad(clock)
    /\ inFlight' = [r \in Req |-> Idle]
    /\ entries' = <<>> /\ order' = <<>> /\ bytes' = 0
    /\ UNCHANGED clock

Cookies == UNION {Settable(h, Expiries) : h \in Host}

Next ==
    \/ \E r \in Req, kind \in Kind, u \in Url : Send(r, kind, u)
    \/ \E r \in Req, c \in Cookies : ReceiveCookie(r, c)
    \/ \E r \in Req, size \in Sizes, lifetime \in Lifetimes : Receive(r, size, lifetime)
    \/ \E c \in Cookies : SetFromScript(c)
    \/ ClearCookies
    \/ Tick
    \/ Reopen

Spec == Init /\ [][Next]_vars
-----------------------------------------------------------------------------
(* A script cannot overwrite an HttpOnly cookie, whichever host stored it   *)
(* and in whichever run (cookie.go:220-222, 255-262): no step of a script   *)
(* leaves a cookie it can read under the identity of one it cannot.         *)
HttpOnlyKept ==
    \A c \in Cookies : \A d \in Range(jar), e \in Range(Scripted(jar, c, clock)) :
        Same(d, e) /\ d.httpOnly => e.httpOnly

(* The newest set must survive (test/net/cookie_test.go:178): a session     *)
(* cookie a host sets now is in the jar afterwards, however full the jar    *)
(* is and however often the cookie was overwritten.                         *)
NewestStays ==
    \A c \in {d \in Cookies : d.exp = Session} : \E d \in Range(Put(jar, c, clock)) : d = c

(* test/net/cookie_test.go:138-144, "cookie survived Max-Age=0 deletion":   *)
(* when a host deletes a cookie it may set, the cookie is gone.             *)
DeletedIsGone ==
    \A c \in {d \in Cookies : d.exp = Past} :
        \A d \in Range(Put(jar, c, clock)) : ~Same(c, d)
=============================================================================
