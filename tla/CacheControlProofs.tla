------------------------- MODULE CacheControlProofs -------------------------
(***************************************************************************)
(* cacheTTLFromHeader for headers of every length and every time to live.  *)
(***************************************************************************)
EXTENDS CacheControl, TLAPS

\* The loop has read nothing decisive, and has the number of the last max-age.
ReadSoFar(maxAge) ==
    /\ \A i \in 1 .. read : ~Decisive(header[i])
    /\ \/ maxAge = -1 /\ \A i \in 1 .. read : header[i].kind # "max-age"
       \/ \E i \in 1 .. read :
            /\ header[i].kind = "max-age" /\ maxAge = header[i].n
            /\ \A j \in i + 1 .. read : header[j].kind # "max-age"

\* The inductive invariant.
IInv ==
    /\ TypeOK
    /\ ~loop.returned => ReadSoFar(loop.ttl)
    /\ FirstDecisiveRules
-----------------------------------------------------------------------------
\* A header is a list of directives.
LEMMA HeaderIsList ==
    ASSUME NEW h \in Headers
    PROVE  /\ Len(h) \in Nat /\ DOMAIN h = 1 .. Len(h)
           /\ \A i \in 1 .. Len(h) : h[i] \in Directives
<1>1. PICK n \in 0 .. MaxDirectives : h \in [1 .. n -> Directives]
  BY DEF Headers
<1>2. h \in Seq(Directives) /\ Len(h) = n
  BY <1>1, CacheControlAssumption
<1> QED
  BY <1>1, <1>2

\* A max-age has a number; one that does not decide is within the cap.
LEMMA DirectiveKinds ==
    ASSUME NEW d \in Directives
    PROVE  /\ MaxTTL \in Nat /\ DefaultTTL \in 0 .. MaxTTL
           /\ d.kind = "max-age" => d.n \in Int /\ ~noStore(d)
           /\ d.kind = "max-age" /\ ~Decisive(d) => d.n \in 1 .. MaxTTL
           /\ Decisive(d) => noStore(d) \/ d.kind = "max-age"
  BY CacheControlAssumption DEF Directives, noStore, Decisive

\* The directive that is read decides, replaces maxAge, or is passed over.
LEMMA DirectiveFacts ==
    ASSUME NEW d \in Directives, ~loop.returned
    PROVE  /\ Decisive(d) =>
                directive(d) = return(IF noStore(d) \/ d.n <= 0 THEN 0 ELSE MaxTTL)
           /\ ~Decisive(d) /\ d.kind = "max-age" => directive(d) = running(d.n)
           /\ ~Decisive(d) /\ d.kind # "max-age" => directive(d) = loop
<1>1. CASE noStore(d)
  BY <1>1, DirectiveKinds DEF directive, Decisive, return
<1>2. CASE ~noStore(d) /\ d.kind # "max-age"
  BY <1>2 DEF directive, Decisive
<1>3. CASE ~noStore(d) /\ d.kind = "max-age"
  <2>1. d.n \in Int /\ MaxTTL \in Nat
    BY <1>3, DirectiveKinds
  <2>2. CASE d.n <= 0
    <3>1. Decisive(d) /\ directive(d) = return(0)
      BY <1>3, <2>1, <2>2 DEF directive, Decisive
    <3> QED
      BY <2>2, <3>1
  <2>3. CASE d.n > MaxTTL
    <3>1. Decisive(d) /\ directive(d) = return(MaxTTL)
      BY <1>3, <2>1, <2>3 DEF directive, Decisive
    <3> QED
      BY <1>3, <2>1, <2>3, <3>1
  <2>4. CASE d.n \in 1 .. MaxTTL
    BY <1>3, <2>1, <2>4 DEF directive, Decisive
  <2> QED
    BY <2>1, <2>2, <2>3, <2>4
<1> QED
  BY <1>1, <1>2, <1>3
-----------------------------------------------------------------------------
\* A turn that decides: what it returns is what the first decisive directive says.
LEMMA DecisiveTurn ==
    ASSUME IInv, Turn, Decisive(header[read + 1])
    PROVE  IInv'
<1> DEFINE d == header[read + 1]
           ttl == IF noStore(d) \/ d.n <= 0 THEN 0 ELSE MaxTTL
<1>1. /\ header \in Headers /\ ~loop.returned /\ read \in Nat /\ read < Len(header)
      /\ \A i \in 1 .. read : ~Decisive(header[i])
      /\ read' = read + 1 /\ header' = header
  BY HeaderIsList DEF IInv, TypeOK, ReadSoFar, Turn
<1>2. DOMAIN header = 1 .. Len(header) /\ Len(header) \in Nat /\ read + 1 \in 1 .. Len(header)
  BY <1>1, HeaderIsList
<1>3. d \in Directives
  BY <1>1, <1>2, HeaderIsList
<1>4. loop' = return(ttl)
  BY <1>1, <1>3, DirectiveFacts DEF Turn
<1>5. loop'.returned = TRUE /\ loop'.ttl = ttl
  BY <1>4 DEF return
<1>6. TypeOK'
  <2>1. (header \in Headers)'
    BY <1>1 DEF Headers, Directives
  <2>2. (read \in 0 .. Len(header))'
    BY <1>1, <1>2
  <2>3. ttl \in 0 .. MaxTTL
    BY CacheControlAssumption
  <2> QED
    BY <1>5, <2>1, <2>2, <2>3 DEF TypeOK
<1>7. FirstDecisiveRules'
  <2> DEFINE D == {i \in DOMAIN header : Decisive(header[i])}
  <2>1. read + 1 \in D /\ \A i \in D : read + 1 <= i
    BY <1>1, <1>2
  <2>2. ASSUME NEW i \in D, \A j \in D : i <= j
        PROVE  i = read + 1
    BY <1>1, <1>2, <2>1, <2>2
  <2> QED
    BY <1>1, <1>5, <2>1, <2>2 DEF FirstDecisiveRules
<1> QED
  BY <1>5, <1>6, <1>7 DEF IInv

\* A turn that does not keeps the number of the last max-age.
LEMMA OtherTurn ==
    ASSUME IInv, Turn, ~Decisive(header[read + 1])
    PROVE  IInv'
<1> DEFINE d == header[read + 1]
<1>1. /\ header \in Headers /\ ~loop.returned /\ read \in Nat /\ read < Len(header)
      /\ ReadSoFar(loop.ttl)
      /\ read' = read + 1 /\ header' = header
  BY HeaderIsList DEF IInv, TypeOK, Turn
<1>2. DOMAIN header = 1 .. Len(header) /\ Len(header) \in Nat /\ read + 1 \in 1 .. Len(header)
  BY <1>1, HeaderIsList
<1>3. d \in Directives
  BY <1>1, <1>2, HeaderIsList
<1>4. loop' = IF d.kind = "max-age" THEN running(d.n) ELSE loop
  BY <1>1, <1>3, DirectiveFacts DEF Turn
<1>5. loop'.returned = FALSE /\ loop'.ttl = IF d.kind = "max-age" THEN d.n ELSE loop.ttl
  BY <1>1, <1>4 DEF running, IInv, TypeOK
<1>6. TypeOK'
  <2>1. (header \in Headers)'
    BY <1>1 DEF Headers, Directives
  <2>2. (read \in 0 .. Len(header))'
    BY <1>1, <1>2
  <2> QED
    BY <1>5, <2>1, <2>2 DEF TypeOK
<1>7. ReadSoFar(loop.ttl)'
  <2>1. \A i \in 1 .. read + 1 : ~Decisive(header[i])
    BY <1>1, <1>2 DEF ReadSoFar
  <2>2. CASE d.kind = "max-age"
    BY <1>1, <1>2, <1>5, <2>1, <2>2 DEF ReadSoFar, Decisive, noStore
  <2>3. CASE d.kind # "max-age"
    BY <1>1, <1>2, <1>5, <2>1, <2>3 DEF ReadSoFar, Decisive, noStore
  <2> QED
    BY <2>2, <2>3
<1> QED
  BY <1>5, <1>6, <1>7 DEF IInv, FirstDecisiveRules

\* The end of the loop: there was nothing decisive, and the last max-age is known.
LEMMA EndKeeps ==
    ASSUME IInv, End
    PROVE  IInv'
<1>1. /\ header \in Headers /\ ~loop.returned /\ read = Len(header)
      /\ ReadSoFar(loop.ttl)
      /\ read' = read /\ header' = header
      /\ loop' = return(afterLoop(loop.ttl))
  BY DEF IInv, TypeOK, End
<1>2. /\ DOMAIN header = 1 .. Len(header) /\ Len(header) \in Nat
      /\ \A i \in DOMAIN header : header[i] \in Directives
  BY <1>1, HeaderIsList
<1>3. loop'.returned = TRUE /\ loop'.ttl = afterLoop(loop.ttl)
  BY <1>1 DEF return
<1>4. \A i \in DOMAIN header : ~Decisive(header[i])
  BY <1>1, <1>2 DEF ReadSoFar
<1>5. MaxTTL \in Nat /\ DefaultTTL \in 0 .. MaxTTL
  BY CacheControlAssumption
<1>6. (header \in Headers /\ read \in 0 .. Len(header))'
  BY <1>1, <1>2 DEF Headers, Directives
<1>7. CASE loop.ttl = -1 /\ \A i \in 1 .. read : header[i].kind # "max-age"
  <2>1. loop'.ttl = DefaultTTL
    BY <1>3, <1>7 DEF afterLoop
  <2>2. FirstDecisiveRules'
    BY <1>1, <1>2, <1>3, <1>4, <1>7, <2>1 DEF FirstDecisiveRules
  <2>3. loop'.ttl \in 0 .. MaxTTL
    BY <1>5, <2>1
  <2> QED
    BY <1>3, <1>6, <2>2, <2>3 DEF IInv, TypeOK
<1>8. ASSUME NEW i \in 1 .. read, header[i].kind = "max-age", loop.ttl = header[i].n,
             \A j \in i + 1 .. read : header[j].kind # "max-age"
      PROVE  IInv'
  <2>1. header[i].n \in 1 .. MaxTTL
    BY <1>1, <1>2, <1>4, <1>8, DirectiveKinds
  <2>2. loop'.ttl = header[i].n
    BY <1>3, <1>5, <1>8, <2>1 DEF afterLoop
  <2>3. ASSUME NEW k \in DOMAIN header, header[k].kind = "max-age",
               \A j \in {l \in DOMAIN header : header[l].kind = "max-age"} : j <= k
        PROVE  k = i
    BY <1>1, <1>2, <1>8, <2>3
  <2>4. FirstDecisiveRules'
    BY <1>1, <1>2, <1>3, <1>4, <1>8, <2>2, <2>3 DEF FirstDecisiveRules
  <2>5. loop'.ttl \in 0 .. MaxTTL
    BY <1>5, <2>1, <2>2
  <2> QED
    BY <1>3, <1>6, <2>4, <2>5 DEF IInv, TypeOK
<1> QED
  BY <1>1, <1>7, <1>8 DEF ReadSoFar

\* The invariant holds initially.
LEMMA InitIInv == Init => IInv
<1> SUFFICES ASSUME Init
             PROVE  IInv
  OBVIOUS
<1>1. header \in Headers /\ read = 0 /\ loop.returned = FALSE /\ loop.ttl = -1
  BY DEF Init, running
<1>2. Len(header) \in Nat
  BY <1>1, HeaderIsList
<1>3. read \in 0 .. Len(header)
  BY <1>1, <1>2
<1>4. TypeOK
  BY <1>1, <1>3 DEF TypeOK
<1>5. ReadSoFar(loop.ttl)
  BY <1>1 DEF ReadSoFar
<1> QED
  BY <1>1, <1>4, <1>5 DEF IInv, FirstDecisiveRules

\* Every step keeps the invariant.
LEMMA NextIInv == IInv /\ [Next]_vars => IInv'
<1> SUFFICES ASSUME IInv, [Next]_vars
             PROVE  IInv'
  OBVIOUS
<1>1. CASE Turn
  BY <1>1, DecisiveTurn, OtherTurn
<1>2. CASE End
  BY <1>2, EndKeeps
<1>3. CASE UNCHANGED vars
  BY <1>3 DEF vars, IInv, TypeOK, ReadSoFar, FirstDecisiveRules
<1> QED
  BY <1>1, <1>2, <1>3 DEF Next

\* The loop knows what it has read of the header (cacheTTLFromHeader).
THEOREM Inductive == Spec => []IInv
  BY InitIInv, NextIInv, PTL DEF Spec

\* Whatever the header says, the time to live is between nothing and the cap:
\* the assumption that the caches make of it (cacheTTLFromHeader).
THEOREM TypeCorrect == Spec => []TypeOK
<1>1. IInv => TypeOK
  BY DEF IInv
<1> QED
  BY <1>1, Inductive, PTL

\* The first decisive directive rules, else the last max-age, else the default,
\* for headers of every length (cacheTTLFromHeader).
THEOREM FirstDecisiveRulesHolds == Spec => []FirstDecisiveRules
<1>1. IInv => FirstDecisiveRules
  BY DEF IInv
<1> QED
  BY <1>1, Inductive, PTL
=============================================================================
