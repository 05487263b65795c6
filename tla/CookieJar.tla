------------------------------ MODULE CookieJar ------------------------------
(***************************************************************************)
(* The cookie jar (internal/net/cookie.go) and the file that carries it    *)
(* from one run of the browser to the next.                                *)
(*                                                                         *)
(* The map of entries is a sequence in the order of the entries' seq, the  *)
(* longest stored first; "by" is the host part of an entry's key.  Name    *)
(* stands for a name and a path.  A cookie's domain is the host that set   *)
(* it or the one parent domain all hosts share; an expiry of Session means *)
(* none.  Values, the Secure and SameSite flags and the reads (HeaderFor,  *)
(* CookiesForDocument, AllCookies) are left out: no step depends on them.  *)
(***************************************************************************)
EXTENDS Subsequence, SequencesExt

CONSTANTS Host, Parent, Name,
          MaxPerHost,   \* MaxCookiesPerHost
          MaxTotal      \* MaxTotalCookies

ASSUME CookieJarAssumption ==
    /\ Parent \notin Host
    /\ MaxPerHost \in Nat \ {0} /\ MaxTotal \in Nat \ {0}

VARIABLE jar   \* CookieJar.entries, in the order of seq

Session == 0
Domain == Host \cup {Parent}

Same(c, d)      == c.name = d.name /\ c.domain = d.domain
Expired(c, now) == c.exp # Session /\ c.exp < now
HeldBy(s, h)    == {i \in DOMAIN s : s[i].by = h}

-----------------------------------------------------------------------------
(* Eviction.  Entry i goes before entry j when it expires and j does not,   *)
(* when it expires sooner, or when it was stored longer ago.                *)
GoesBefore(s, i, j) ==
    \/ s[i].exp # Session /\ s[j].exp = Session
    \/ s[i].exp # Session /\ s[j].exp # Session /\ s[i].exp < s[j].exp
    \/ s[i].exp = s[j].exp /\ i < j

(* What is left of s without its first n victims. *)
Without(s, n) ==
    At(s, {i \in DOMAIN s : Cardinality({j \in DOMAIN s : GoesBefore(s, j, i)}) >= n})

(* Faulty variant: a host may hold one cookie too many. *)
WithinOneMore(s, hosts) ==
    /\ \A h \in hosts : Cardinality(HeldBy(s, h)) <= MaxPerHost + 1
    /\ Len(s) <= MaxTotal

Within(s, hosts) ==
    /\ \A h \in hosts : Cardinality(HeldBy(s, h)) <= MaxPerHost
    /\ Len(s) <= MaxTotal

(* Expired entries first; then victims of every host until the jar and the  *)
(* hosts named are within their limits.                                     *)
Evict(s, hosts, now) ==
    LET live      == At(s, {i \in DOMAIN s : ~Expired(s[i], now)})
        Enough(n) == Within(Without(live, n), hosts)
    IN  Without(live, CHOOSE n \in 0..Len(live) :
                        Enough(n) /\ (n > 0 => ~Enough(n - 1)))
-----------------------------------------------------------------------------
(* Storing.  A cookie in the past only deletes the entry of its own key.    *)

(* Faulty variant: the new entry replaces only the one of its own key. *)
ReplaceOwn(s, c) == Append(At(s, {i \in DOMAIN s : ~(Same(c, s[i]) /\ s[i].by = c.by)}), c)

(* Faulty variant: an overwritten entry keeps its place in the order. *)
ReplaceInPlace(s, c) ==
    LET old == {i \in DOMAIN s : Same(c, s[i])}
    IN  IF old = {} THEN Append(s, c)
        ELSE [s EXCEPT ![CHOOSE i \in old : TRUE] = c]

Replace(s, c) == Append(At(s, {i \in DOMAIN s : ~Same(c, s[i])}), c)

Put(s, c, now) ==
    IF Expired(c, now)
    THEN At(s, {i \in DOMAIN s : ~(Same(c, s[i]) /\ s[i].by = c.by)})
    ELSE Evict(Replace(s, c), {c.by}, now)

(* What host h may set: cookies for itself and for the parent domain.       *)
Settable(h, expiries) ==
    [name : Name, domain : {h, Parent}, httpOnly : BOOLEAN, exp : expiries, by : {h}]

Store(c, now) == jar' = Put(jar, c, now)

(* Faulty variant: only the entry of the script's own key is looked at.     *)
ShieldedByKey(s, c) == \E i \in DOMAIN s : Same(c, s[i]) /\ s[i].by = c.by /\ s[i].httpOnly

Shielded(s, c) == \E i \in DOMAIN s : Same(c, s[i]) /\ s[i].httpOnly

(* SetCookieFromDocument: a script sets c, never HttpOnly.                  *)
Scripted(s, c, now) ==
    IF Shielded(s, c) THEN s ELSE Put(s, [c EXCEPT !.httpOnly = FALSE], now)

SetCookieFromDocument(c, now) == jar' = Scripted(jar, c, now)

Clear == jar # <<>> /\ jar' = <<>>
-----------------------------------------------------------------------------
(* The file.  Save, at Close, writes what outlives the session, in any      *)
(* order; Load keys every entry by its domain, numbers it anew and evicts.  *)
Persistent(now) == {c \in Range(jar) : c.exp # Session /\ ~Expired(c, now)}

Loaded(cookies, now) ==
    LET live == {[c EXCEPT !.by = c.domain] : c \in cookies}
    IN  {Evict(s, {c.domain : c \in live}, now) : s \in SetToSeqs(live)}

SaveAndLoad(now) == jar' \in Loaded(Persistent(now), now)
-----------------------------------------------------------------------------
JarTypeOK(expiries) ==
    LET Cookie == [name : Name, domain : Domain, httpOnly : BOOLEAN,
                   exp : expiries, by : Domain]
    IN  jar \in Seq(Cookie)

(* A name, a path and a domain identify a cookie whatever host stored it    *)
(* first, in this run or an earlier one (cookie.go:98-105): a request never *)
(* sends two.                                                               *)
OneCookieEach == \A i, j \in DOMAIN jar : Same(jar[i], jar[j]) => i = j

(* The jar is bounded per host and in total after every call, a Load whose  *)
(* file holds more than a host may keep included (cookie.go:393-401).       *)
JarWithinLimits ==
    /\ \A h \in Domain : Cardinality(HeldBy(jar, h)) <= MaxPerHost
    /\ Len(jar) <= MaxTotal
=============================================================================
