---------------------------- MODULE CacheControl ----------------------------
(***************************************************************************)
(* cacheTTLFromHeader of cimd.go: how long a client's metadata document is *)
(* cached, from the directives of its Cache-Control header.  A directive   *)
(* is kept as what the code makes of it; the case, the blanks and the      *)
(* commas of the header are left out.                                      *)
(***************************************************************************)
EXTENDS Integers, Sequences

CONSTANTS
    DefaultTTL,     \* cimdDefaultCacheTTL, in seconds
    MaxTTL,         \* cimdMaxCacheTTL, in seconds
    Ages,           \* the numbers n of max-age=n directives
    MaxDirectives   \* bound: directives of a header

ASSUME CacheControlAssumption ==
    /\ MaxTTL \in Nat /\ DefaultTTL \in 0 .. MaxTTL
    /\ Ages \subseteq Int
    /\ MaxDirectives \in Nat

VARIABLES
    header,     \* the directives, in their order
    read,       \* how many of them the loop has read
    loop        \* has the function returned, and what; else the maxAge so far

vars == <<header, read, loop>>

\* no-store and no-cache; max-age=n; max-age with anything else; the rest.
Directives ==
    [kind : {"no-store", "no-cache", "malformed", "other"}] \union [kind : {"max-age"}, n : Ages]

noStore(d) == d.kind \in {"no-store", "no-cache"}

Headers == UNION {[1 .. n -> Directives] : n \in 0 .. MaxDirectives}

running(maxAge) == [returned |-> FALSE, ttl |-> maxAge]
return(ttl)     == [returned |-> TRUE, ttl |-> ttl]

\* A header that is empty goes the same way: there is nothing to read.
Init ==
    /\ header \in Headers
    /\ read = 0
    /\ loop = running(-1)

\* Fault: a max-age that is out of range is one more malformed directive.
SkipOutOfRange(d) ==
    IF noStore(d) THEN return(0)
    ELSE IF d.kind # "max-age" \/ d.n <= 0 \/ d.n > MaxTTL THEN loop
    ELSE running(d.n)

\* The body of the loop.
directive(d) ==
    IF noStore(d) THEN return(0)
    ELSE IF d.kind # "max-age" THEN loop
    ELSE IF d.n <= 0 THEN return(0)
    ELSE IF d.n > MaxTTL THEN return(MaxTTL)
    ELSE running(d.n)

\* One turn of the loop.
Turn ==
    /\ ~loop.returned /\ read < Len(header)
    /\ read' = read + 1
    /\ loop' = directive(header[read + 1])
    /\ UNCHANGED header

\* Fault: a header that says nothing of caching leaves maxAge as it was.
NoDefault(maxAge) == maxAge

\* What follows the loop.
afterLoop(maxAge) ==
    IF maxAge < 0 THEN DefaultTTL ELSE IF maxAge > MaxTTL THEN MaxTTL ELSE maxAge

End ==
    /\ ~loop.returned /\ read = Len(header)
    /\ loop' = return(afterLoop(loop.ttl))
    /\ UNCHANGED <<header, read>>

Next == Turn \/ End

Spec == Init /\ [][Next]_vars
-----------------------------------------------------------------------------
\* The shape of the state.  A time to live is never negative and never beyond
\* the cap, as the caches that keep entries for it rely on (cacheTTLFromHeader).
TypeOK ==
    /\ header \in Headers
    /\ read \in 0 .. Len(header)
    /\ loop.returned \in BOOLEAN
    /\ loop.returned => loop.ttl \in 0 .. MaxTTL

\* The directives that decide on their own.
Decisive(d) == noStore(d) \/ (d.kind = "max-age" /\ d.n \notin 1 .. MaxTTL)

\* The loop computes what this says of any header: the first decisive
\* directive gives nothing or the cap; without one, the last max-age gives its
\* number; without any, the default (cacheTTLFromHeader).
FirstDecisiveRules == loop.returned =>
    LET decisive == {i \in DOMAIN header : Decisive(header[i])}
        ages == {i \in DOMAIN header : header[i].kind = "max-age"}
    IN  /\ \A i \in decisive : (\A j \in decisive : i <= j) =>
              loop.ttl = IF noStore(header[i]) \/ header[i].n <= 0 THEN 0 ELSE MaxTTL
        /\ decisive = {} => \A i \in ages : (\A j \in ages : j <= i) => loop.ttl = header[i].n
        /\ decisive = {} /\ ages = {} => loop.ttl = DefaultTTL

\* cimd_test.go, TestCacheTTLFromHeader: "no-store wins".
NoStoreWins ==
    loop.returned /\ (\E i \in DOMAIN header : noStore(header[i])) => loop.ttl = 0
=============================================================================
