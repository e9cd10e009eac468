-------------------------- MODULE RoutedCallProofs --------------------------
(***************************************************************************)
(* Proofs about RoutedCall: the names that validation lets through and the *)
(* path that is made of them, then RoutedInv, which is inductive, for any  *)
(* callers, names, services, auth chains, errors, token life and policy.   *)
(***************************************************************************)
EXTENDS RoutedCall, FiniteSetTheorems, SequenceTheorems, TLAPS

Plain(s) == \A i \in 1..Len(s) : s[i] # "/"

\* validKeyPattern and ValidateServiceType let no slash through.
LEMMA ValidIsPlain ==
  ASSUME NEW s \in Seq(Chars), ValidateServiceType(s) \/ ValidateSelfID(s)
  PROVE  Plain(s)
<1>1. Range(s) \subseteq KeyChars
  BY DEF ValidateServiceType, ValidateSelfID, MatchesKeyPattern
<1>2. \A i \in 1..Len(s) : s[i] \in Range(s)
  BY DEF Range
<1>3. "/" \notin KeyChars
  BY DEF KeyChars, Letters
<1> QED
  BY <1>1, <1>2, <1>3 DEF Plain

\* generateRuntimeID brings no slash in.
LEMMA RuntimeIDIsPlain ==
  ASSUME NEW s \in Seq(Chars), ValidateSelfID(s), NEW x \in HexDigits
  PROVE  RuntimeID(s, x) \in Seq(Chars) /\ Plain(RuntimeID(s, x))
<1>1. Lower(s) \in Seq(Chars) /\ Len(Lower(s)) = Len(s)
  <2>1. DOMAIN s = 1..Len(s) /\ Len(s) \in Nat
    OBVIOUS
  <2>2. \A i \in 1..Len(s) : (IF s[i] = "A" THEN "a" ELSE s[i]) \in Chars
    <3>1. \A i \in 1..Len(s) : s[i] \in Chars
      OBVIOUS
    <3>2. "a" \in Chars
      BY DEF Chars, KeyChars, Letters
    <3> QED
      BY <3>1, <3>2
  <2>3. Lower(s) \in [1..Len(s) -> Chars]
    BY <2>1, <2>2 DEF Lower
  <2>4. Lower(s) \in Seq(Chars)
    BY <2>1, <2>3, SeqDef
  <2> QED
    BY <2>1, <2>3, <2>4
<1>2. \A i \in 1..Len(s) : Lower(s)[i] # "/"
  BY ValidIsPlain DEF Lower, Plain
<1>3. x \in Chars /\ "-" \in Chars /\ x # "/"
  BY DEF HexDigits, Chars, KeyChars, Letters
<1>4. /\ <<"-", x>> \in Seq(Chars) /\ Len(<<"-", x>>) = 2
      /\ <<"-", x>>[1] = "-" /\ <<"-", x>>[2] = x
  BY <1>3
<1> QED
  BY <1>1, <1>2, <1>3, <1>4 DEF RuntimeID, Plain

LEMMA ProviderIsPlain == ProviderID \in Seq(Chars) /\ Plain(ProviderID)
BY RuntimeIDIsPlain, NamesAssumption, RoutedCallAssumption DEF ProviderID

\* The least slash of a path is the one that strings.SplitN finds first.
LEMMA FirstSlash ==
  ASSUME NEW p \in Seq(Chars), NEW k \in 1..Len(p), p[k] = "/",
         \A i \in 1..(k - 1) : p[i] # "/"
  PROVE  First(p) = k
<1>1. k \in SlashesOf(p)
  BY DEF SlashesOf
<1>2. \A j \in SlashesOf(p) : j \in 1..Len(p) /\ k <= j
  BY DEF SlashesOf
<1>3. \A i \in SlashesOf(p) : (\A j \in SlashesOf(p) : i <= j) => i = k
  BY <1>1, <1>2
<1> QED
  BY <1>1, <1>2, <1>3 DEF First

\* ServeHTTP takes from the path the provider that DiscoverService put in it.
LEMMA PathNamesProvider ==
  ASSUME NEW t \in Seq(Chars), NEW d \in Seq(Chars), Plain(t), Plain(d)
  PROVE  HasThreeParts(ServicePath(t, d)) /\ PartTwo(ServicePath(t, d)) = d
<1> DEFINE p == ServicePath(t, d)
           m == Len(t)
           k == Len(d)
           rest == SubSeq(p, m + 2, Len(p))
<1>1. m \in Nat /\ k \in Nat
  OBVIOUS
<1>2. /\ p \in Seq(Chars) /\ Len(p) = m + k + 3
      /\ \A i \in 1..m : p[i] = t[i]
      /\ p[m + 1] = "/"
      /\ \A i \in 1..k : p[m + 1 + i] = d[i]
      /\ p[m + k + 2] = "/"
  <2> DEFINE q == t \o <<"/">>
             r == q \o d
  <2>0. "/" \in Chars /\ "m" \in Chars
    BY DEF Chars
  <2>1. /\ q \in Seq(Chars) /\ Len(q) = m + 1
        /\ \A i \in 1..m : q[i] = t[i]
        /\ q[m + 1] = "/"
    BY <2>0
  <2> HIDE DEF q
  <2>2. /\ r \in Seq(Chars) /\ Len(r) = m + 1 + k
        /\ \A i \in 1..(m + 1) : r[i] = q[i]
        /\ \A i \in 1..k : r[m + 1 + i] = d[i]
    <3>1. r \in Seq(Chars) /\ Len(r) = Len(q) + Len(d)
      BY <2>1
    <3>2. \A i \in 1..Len(q) : r[i] = q[i]
      BY <2>1
    <3>3. \A i \in 1..Len(d) : r[Len(q) + i] = d[i]
      BY <2>1
    <3> HIDE DEF r
    <3> QED
      BY <1>1, <2>1, <3>1, <3>2, <3>3
  <2> HIDE DEF r
  <2>3. p = r \o <<"/", "m">>
    BY DEF ServicePath, q, r
  <2>4. /\ p \in Seq(Chars) /\ Len(p) = m + k + 3
        /\ \A i \in 1..(m + 1 + k) : p[i] = r[i]
        /\ p[m + k + 2] = "/"
    BY <1>1, <2>0, <2>2, <2>3
  <2> QED
    BY <1>1, <2>1, <2>2, <2>4
<1> HIDE DEF p, m, k
<1>3. First(p) = m + 1
  <2>1. \A i \in 1..((m + 1) - 1) : p[i] # "/"
    BY <1>1, <1>2 DEF Plain, m
  <2> QED
    BY <1>1, <1>2, <2>1, FirstSlash
<1>4. /\ rest \in Seq(Chars) /\ Len(rest) = k + 2
      /\ \A i \in 1..(k + 2) : rest[i] = p[m + 1 + i]
  BY <1>1, <1>2
<1> HIDE DEF rest
<1>5. First(rest) = k + 1
  <2>1. \A i \in 1..((k + 1) - 1) : rest[i] # "/"
    <3>1. \A i \in 1..k : d[i] # "/"
      BY DEF Plain, k
    <3>2. \A i \in 1..k : rest[i] = d[i]
      BY <1>1, <1>2, <1>4
    <3> QED
      BY <1>1, <3>1, <3>2
  <2>2. rest[k + 1] = "/"
    BY <1>1, <1>2, <1>4
  <2>3. k + 1 \in 1..Len(rest)
    BY <1>1, <1>4
  <2> QED
    BY <1>4, <2>1, <2>2, <2>3, FirstSlash
<1>6. SubSeq(rest, 1, k) = d
  <2>1. /\ SubSeq(rest, 1, k) \in Seq(Chars) /\ Len(SubSeq(rest, 1, k)) = k
        /\ \A i \in 1..k : SubSeq(rest, 1, k)[i] = rest[i]
    BY <1>1, <1>4
  <2>2. \A i \in 1..k : SubSeq(rest, 1, k)[i] = d[i]
    BY <1>1, <1>2, <1>4, <2>1
  <2> QED
    BY <2>1, <2>2 DEF k
<1>7. PartTwo(p) = d
  <2>1. SubSeq(p, First(p) + 1, Len(p)) = rest
    BY <1>1, <1>3 DEF rest
  <2>2. First(rest) - 1 = k
    BY <1>1, <1>5
  <2>3. PartTwo(p) = SubSeq(rest, 1, First(rest) - 1)
    BY <2>1 DEF PartTwo
  <2> QED
    BY <1>6, <2>2, <2>3
<1>8. HasThreeParts(p)
  <2> DEFINE Two == {m + 1, m + k + 2}
  <2>1. Two \subseteq SlashesOf(p)
    BY <1>1, <1>2 DEF SlashesOf
  <2>2. IsFiniteSet(SlashesOf(p))
    <3>1. SlashesOf(p) \subseteq 1..Len(p)
      BY <1>2 DEF SlashesOf
    <3>2. IsFiniteSet(1..Len(p))
      BY <1>1, <1>2, FS_Interval
    <3> QED
      BY <3>1, <3>2, FS_Subset
  <2>3. Cardinality(Two) = 2
    <3>1. IsFiniteSet({m + 1}) /\ Cardinality({m + 1}) = 1
      BY FS_Singleton
    <3>2. m + k + 2 \notin {m + 1}
      BY <1>1
    <3>3. Cardinality({m + 1} \cup {m + k + 2}) = 1 + 1
      BY <3>1, <3>2, FS_AddElement
    <3>4. Two = {m + 1} \cup {m + k + 2}
      OBVIOUS
    <3> QED
      BY <3>3, <3>4
  <2>4. Cardinality(Two) <= Cardinality(SlashesOf(p))
    BY <2>1, <2>2, FS_Subset
  <2> HIDE DEF Two
  <2>5. Cardinality(SlashesOf(p)) \in Nat
    BY <2>2, FS_CardinalityType
  <2> QED
    BY <2>3, <2>4, <2>5 DEF HasThreeParts
<1> QED
  BY <1>7, <1>8 DEF p

-----------------------------------------------------------------------------
(* The invariant.                                                          *)

LEMMA RoutedInit == Init => RoutedInv
<1> SUFFICES ASSUME Init PROVE RoutedInv
  OBVIOUS
<1>0. "ok" # None
  BY NoneAssumption DEF Codes
<1>1. NoCall \in CallState
  <2>1. <<>> \in Seq(Chars)
    OBVIOUS
  <2> QED
    BY <2>1, RoutedCallAssumption DEF NoCall, CallState
<1>2. call \in [Calling -> CallState]
  BY <1>1 DEF Init
<1>3. TypeOK
  BY <1>2 DEF Init, TypeOK
<1>4. \A c \in Calling : Accounted(call[c]) /\ Begun(call[c])
  BY <1>0 DEF Init, NoCall, Accounted, Begun
<1> QED
  BY <1>3, <1>4 DEF Init, RoutedInv

\* ValidateToken may remove an expired entry; no live one.
Cleaned == tokens' = tokens \/ \E i \in RuntimeIDs : LazyCleanup(i)

LEMMA CleanedEntries ==
  ASSUME RoutedInv, Cleaned
  PROVE  /\ tokens' \in [RuntimeIDs -> Entry \cup {None}]
         /\ \A id \in RuntimeIDs :
                \/ tokens'[id] = tokens[id]
                \/ /\ tokens'[id] = None
                   /\ tokens[id] # None => tokens[id].left = 0
BY DEF RoutedInv, TypeOK, Cleaned, LazyCleanup, Expired

\* A step that changes one call, and the tokens by cleaning up at most, keeps
\* the invariant if the new call is sound by itself.
LEMMA CallChanges ==
  ASSUME RoutedInv, NEW c \in Calling, NEW k \in CallState, Update(c, k),
         Accounted(k), Begun(k), Cleaned,
         UNCHANGED <<cred, used, clashed, providerVars>>
  PROVE  RoutedInv'
<1>1. call' \in [Calling -> CallState]
  BY DEF RoutedInv, TypeOK, Update
<1>2. TypeOK'
  BY <1>1, CleanedEntries DEF RoutedInv, TypeOK, providerVars
<1>3. \A d \in Calling : call'[d] = IF d = c THEN k ELSE call[d]
  BY DEF RoutedInv, TypeOK, Update
<1> DEFINE Then(id, t, a) ==
             /\ t \in Tokens /\ t[2] <= used'[t[1]]
             /\ (tokens'[id] # None /\ tokens'[id].token = t)
                   => tokens'[id].left + a = TTL
             /\ \/ id \in clashed' \/ a = TTL
                \/ tokens'[id] # None /\ tokens'[id].token = t
<1>4. ASSUME NEW j, j.id \in RuntimeIDs, j.age \in 0..TTL, Tracked(j)
      PROVE  Then(j.id, j.token, j.age)
  <2>1. \/ tokens'[j.id] = tokens[j.id]
        \/ tokens'[j.id] = None /\ (Holds(j) => j.age = TTL)
    BY <1>4, CleanedEntries, RoutedCallAssumption
    DEF Tracked, Holds, RoutedInv, TypeOK, Entry
  <2> QED
    BY <1>4, <2>1 DEF Tracked, Holds
<1>5. ASSUME NEW d \in Calling PROVE (Accounted(call[d]) /\ Begun(call[d]))'
  <2> DEFINE j == IF d = c THEN k ELSE call[d]
  <2>1. j \in CallState /\ Accounted(j) /\ Begun(j) /\ call'[d] = j
    BY <1>3 DEF RoutedInv, TypeOK
  <2> HIDE DEF j
  <2>2. j.pc # "idle" => Then(j.id, j.token, j.age)
    BY <1>4, <2>1 DEF Begun, CallState
  <2> QED
    BY <2>1, <2>2 DEF Accounted, Begun, Tracked, Holds
<1>6. ASSUME NEW d \in Callers, cred[d] # None PROVE Tracked(cred[d])'
  <2>1. /\ cred[d].age \in 0..TTL /\ cred[d].id \in RuntimeIDs
        /\ Tracked(cred[d])
    BY <1>6 DEF RoutedInv, TypeOK, Credentials
  <2>2. Then(cred[d].id, cred[d].token, cred[d].age)
    BY <1>4, <2>1
  <2> QED
    BY <2>2 DEF Tracked, Holds
<1>7. /\ (\A r \in services : ValidateServiceType(r.type))'
      /\ (\A id \in RuntimeIDs : tokens[id] # None =>
              tokens[id].token[2] <= used[tokens[id].token[1]])'
  BY CleanedEntries DEF RoutedInv, providerVars
<1> QED
  BY <1>2, <1>5, <1>6, <1>7 DEF RoutedInv

\* After Call the request of a call stays as it is.
SameRequest(j, k) ==
    /\ j.pc # "idle"
    /\ k.id = j.id /\ k.token = j.token /\ k.age = j.age
    /\ k.type = j.type /\ k.path = j.path /\ k.to = j.to

\* A step of a call that keeps its request, its successes and losses and does
\* not come to or from a success.
LEMMA CallMovesOn ==
  ASSUME RoutedInv, NEW c \in Calling, NEW k \in CallState, Update(c, k),
         SameRequest(call[c], k), Accounted(k), Cleaned,
         UNCHANGED <<cred, used, clashed, providerVars>>
  PROVE  RoutedInv'
<1>1. Begun(k)
  BY DEF RoutedInv, Begun, SameRequest, Tracked, Holds
<1> QED
  BY <1>1, CallChanges

\* The steps of the caller and of the retry interceptor.
LEMMA CallerSteps ==
  ASSUME RoutedInv, NEW c \in Calling,
         Cancel(c) \/ Attempt(c) \/ Retry(c) \/ BackoffEnds(c)
  PROVE  RoutedInv'
<1>0. /\ call[c] \in CallState /\ Accounted(call[c])
      /\ Cleaned /\ UNCHANGED <<cred, used, clashed, providerVars>>
      /\ call[c].pc # "idle"
  BY DEF RoutedInv, TypeOK, Cancel, Attempt, Retry, BackoffEnds, Cleaned,
         hostVars
<1>1. CASE Cancel(c)
  <2> DEFINE k == [call[c] EXCEPT !.done = TRUE]
  <2>1. k \in CallState /\ SameRequest(call[c], k) /\ Accounted(k)
    <3>1. k \in CallState
      BY <1>0 DEF CallState
    <3>2. SameRequest(call[c], k)
      BY <1>0 DEF CallState, SameRequest
    <3>3. Accounted(k)
      BY <1>0 DEF CallState, Accounted
    <3> QED
      BY <3>1, <3>2, <3>3
  <2> QED
    BY <1>0, <1>1, <2>1, CallMovesOn DEF Cancel
<1>2. CASE Attempt(c)
  <2>0. call[c].pc = "attempt" /\ call[c].code # "ok"
    BY <1>0, <1>2 DEF Attempt, Accounted
  <2>1. CASE ContextDone(c)
    <3> DEFINE k == [call[c] EXCEPT !.pc = "end",
                                    !.code = IF call[c].last # None
                                             THEN call[c].last
                                             ELSE "canceled"]
    <3>1. k \in CallState /\ SameRequest(call[c], k) /\ Accounted(k)
      <4>1. k \in CallState
        <5> DEFINE code == IF call[c].last # None THEN call[c].last
                                                 ELSE "canceled"
        <5>1. code \in Codes \cup {None}
          BY <1>0 DEF CallState, Codes
        <5> HIDE DEF code
        <5>2. [call[c] EXCEPT !.pc = "end", !.code = code] \in CallState
          BY <1>0, <5>1 DEF CallState
        <5> QED
          BY <5>2 DEF code
      <4>2. SameRequest(call[c], k)
        BY <1>0, <2>0 DEF CallState, SameRequest
      <4>3. Accounted(k)
        BY <1>0, <2>0 DEF CallState, Accounted
      <4> QED
        BY <4>1, <4>2, <4>3
    <3> QED
      BY <1>0, <1>2, <2>1, <3>1, CallMovesOn DEF Attempt
  <2>2. CASE ~ContextDone(c)
    <3> DEFINE k == [call[c] EXCEPT !.pc = "validate"]
    <3>1. k \in CallState /\ SameRequest(call[c], k) /\ Accounted(k)
      <4>1. k \in CallState
        BY <1>0, <2>0 DEF CallState
      <4>2. SameRequest(call[c], k)
        BY <1>0, <2>0 DEF CallState, SameRequest
      <4>3. Accounted(k)
        BY <1>0, <2>0 DEF CallState, Accounted
      <4> QED
        BY <4>1, <4>2, <4>3
    <3> QED
      BY <1>0, <1>2, <2>2, <3>1, CallMovesOn DEF Attempt
  <2> QED
    BY <2>1, <2>2
<1>3. CASE Retry(c)
  <2>1. CASE call[c].code = "ok" \/ ~IsRetryable(call[c].code) \/ LastAttempt(c)
    <3> DEFINE k == [call[c] EXCEPT !.pc = "end"]
    <3>1. k \in CallState /\ SameRequest(call[c], k) /\ Accounted(k)
      <4>1. k \in CallState
        BY <1>0 DEF CallState
      <4>2. SameRequest(call[c], k)
        BY <1>0 DEF CallState, SameRequest
      <4>3. Accounted(k)
        BY <1>0 DEF CallState, Accounted
      <4> QED
        BY <4>1, <4>2, <4>3
    <3> QED
      BY <1>0, <1>3, <2>1, <3>1, CallMovesOn DEF Retry
  <2>2. CASE ~(call[c].code = "ok" \/ ~IsRetryable(call[c].code)
                 \/ LastAttempt(c))
    <3> PICK d \in calculateBackoff(call[c].n) :
               Update(c, [call[c] EXCEPT !.pc = "backoff", !.wait = d,
                                         !.last = call[c].code])
      BY <1>3, <2>2 DEF Retry
    <3> DEFINE k == [call[c] EXCEPT !.pc = "backoff", !.wait = d,
                                    !.last = call[c].code]
    <3>1. d \in Nat
      BY DEF calculateBackoff
    <3>2. k \in CallState /\ SameRequest(call[c], k) /\ Accounted(k)
      <4>1. k \in CallState
        BY <1>0, <2>2, <3>1 DEF CallState
      <4>2. SameRequest(call[c], k)
        BY <1>0, <2>2, <3>1 DEF CallState, SameRequest
      <4>3. Accounted(k)
        BY <1>0, <2>2, <3>1 DEF CallState, Accounted
      <4> QED
        BY <4>1, <4>2, <4>3
    <3> QED
      BY <1>0, <3>2, CallMovesOn
  <2> QED
    BY <2>1, <2>2
<1>4. CASE BackoffEnds(c)
  <2>0. call[c].pc = "backoff" /\ call[c].code # "ok"
    BY <1>0, <1>4 DEF BackoffEnds, Accounted
  <2>1. CASE Update(c, [call[c] EXCEPT !.pc = "attempt", !.n = @ + 1])
    <3> DEFINE k == [call[c] EXCEPT !.pc = "attempt", !.n = @ + 1]
    <3>1. k \in CallState /\ SameRequest(call[c], k) /\ Accounted(k)
      <4>1. k \in CallState
        <5>1. call[c].n + 1 \in Nat
          BY <1>0 DEF CallState
        <5> DEFINE n == call[c].n + 1
        <5> HIDE DEF n
        <5>2. [call[c] EXCEPT !.pc = "attempt", !.n = n] \in CallState
          BY <1>0, <5>1 DEF CallState, n
        <5> QED
          BY <5>2 DEF n
      <4>2. SameRequest(call[c], k)
        BY <1>0, <2>0 DEF CallState, SameRequest
      <4>3. Accounted(k)
        BY <1>0, <2>0 DEF CallState, Accounted
      <4> QED
        BY <4>1, <4>2, <4>3
    <3> QED
      BY <1>0, <2>1, <3>1, CallMovesOn
  <2>2. CASE Update(c, [call[c] EXCEPT !.pc = "end", !.code = call[c].last])
    <3> DEFINE k == [call[c] EXCEPT !.pc = "end", !.code = call[c].last]
    <3>1. k \in CallState /\ SameRequest(call[c], k) /\ Accounted(k)
      <4>1. k \in CallState
        BY <1>0, <2>0 DEF CallState
      <4>2. SameRequest(call[c], k)
        BY <1>0, <2>0 DEF CallState, SameRequest
      <4>3. Accounted(k)
        BY <1>0, <2>0 DEF CallState, Accounted
      <4> QED
        BY <4>1, <4>2, <4>3
    <3> QED
      BY <1>0, <2>2, <3>1, CallMovesOn
  <2> QED
    BY <1>4, <2>1, <2>2 DEF BackoffEnds
<1> QED
  BY <1>1, <1>2, <1>3, <1>4

\* An answer without the provider's, an error.
LEMMA RepliesKeep ==
  ASSUME RoutedInv, NEW c \in Calling, NEW code \in Codes, code # "ok",
         call[c].pc # "idle", call[c].code # "ok", Reply(c, code), Cleaned,
         UNCHANGED <<cred, used, clashed, providerVars>>
  PROVE  RoutedInv'
<1> DEFINE k == [call[c] EXCEPT !.pc = "reply", !.code = code]
<1>1. call[c] \in CallState /\ Accounted(call[c])
  BY DEF RoutedInv, TypeOK
<1>2. k \in CallState
  BY <1>1 DEF CallState
<1>3. SameRequest(call[c], k) /\ Accounted(k)
  BY <1>1 DEF CallState, SameRequest, Accounted
<1> QED
  BY <1>2, <1>3, CallMovesOn DEF Reply

\* An attempt given up, which may lose a success.
LEMMA GivingUpKeeps ==
  ASSUME RoutedInv, NEW c \in Calling, NEW code \in Codes, code # "ok",
         call[c].pc # "idle", GiveUpOn(c, code),
         UNCHANGED <<hostVars, providerVars>>
  PROVE  RoutedInv'
<1> DEFINE l == IF call[c].code = "ok" THEN call[c].lost + 1 ELSE call[c].lost
           k == [call[c] EXCEPT !.pc = "reply", !.code = code, !.lost = l]
<1>1. call[c] \in CallState /\ Accounted(call[c])
  BY DEF RoutedInv, TypeOK
<1>2. l \in Nat /\ call[c].good = l
  BY <1>1 DEF CallState, Accounted
<1>3. Update(c, k)
  BY DEF GiveUpOn
<1> HIDE DEF l
<1>4. k \in CallState
  BY <1>1, <1>2 DEF CallState
<1>5. SameRequest(call[c], k) /\ Accounted(k)
  BY <1>1, <1>2 DEF CallState, SameRequest, Accounted
<1> QED
  BY <1>3, <1>4, <1>5, CallMovesOn DEF Cleaned, hostVars

\* ComposeAuthServer after a failure.
LEMMA TryingNextKeeps ==
  ASSUME RoutedInv, NEW c \in Calling, NEW code \in Codes, code # "ok",
         call[c].pc = "auth", TryNext(c, code),
         UNCHANGED <<hostVars, providerVars>>
  PROVE  RoutedInv'
<1>1. call[c] \in CallState /\ Accounted(call[c]) /\ call[c].code # "ok"
  BY DEF RoutedInv, TypeOK, Accounted
<1>2. CASE call[c].auth < Len(chain)
  <2> DEFINE n == call[c].auth + 1
             k == [call[c] EXCEPT !.auth = n, !.code = code]
  <2>1. Update(c, k)
    BY <1>2 DEF TryNext
  <2>2. n \in Nat
    BY <1>1 DEF CallState
  <2> HIDE DEF n
  <2>3. k \in CallState
    BY <1>1, <2>2 DEF CallState
  <2>4. SameRequest(call[c], k) /\ Accounted(k)
    BY <1>1 DEF CallState, SameRequest, Accounted
  <2> QED
    BY <2>1, <2>3, <2>4, CallMovesOn DEF Cleaned, hostVars
<1>3. CASE ~(call[c].auth < Len(chain))
  <2> DEFINE k == [call[c] EXCEPT !.pc = "answer", !.code = code]
  <2>1. k \in CallState
    BY <1>1 DEF CallState
  <2>2. SameRequest(call[c], k) /\ Accounted(k)
    BY <1>1 DEF CallState, SameRequest, Accounted
  <2> QED
    BY <1>3, <2>1, <2>2, CallMovesOn DEF TryNext, Cleaned, hostVars
<1> QED
  BY <1>2, <1>3

\* ServeHTTP.
LEMMA RouterSteps ==
  ASSUME RoutedInv, NEW c \in Calling,
         RouterValidate(c) \/ RouterLookup(c) \/ RouterForward(c)
  PROVE  RoutedInv'
<1>0. /\ call[c] \in CallState /\ Accounted(call[c])
      /\ call[c].pc # "idle" /\ call[c].code # "ok"
      /\ UNCHANGED <<cred, used, clashed, providerVars>>
  BY DEF RoutedInv, TypeOK, RouterValidate, RouterLookup, RouterForward,
         Accounted, hostVars
<1>1. "internal" \in Codes /\ "unauthenticated" \in Codes
      /\ "unimplemented" \in Codes /\ "unavailable" \in Codes
  BY DEF Codes
<1>2. CASE RouterValidate(c)
  <2>0. call[c].id \in RuntimeIDs
    BY <1>0 DEF RoutedInv, Begun
  <2>1. Cleaned
    BY <1>2, <2>0 DEF RouterValidate, Cleaned
  <2>2. CASE Update(c, [call[c] EXCEPT !.pc = "lookup"])
    <3> DEFINE k == [call[c] EXCEPT !.pc = "lookup"]
    <3>1. k \in CallState
      BY <1>0 DEF CallState
    <3>2. SameRequest(call[c], k) /\ Accounted(k)
      BY <1>0 DEF CallState, SameRequest, Accounted
    <3> QED
      BY <1>0, <2>1, <2>2, <3>1, <3>2, CallMovesOn
  <2>3. CASE Reply(c, "internal") \/ Reply(c, "unauthenticated")
    BY <1>0, <1>1, <2>1, <2>3, RepliesKeep
  <2> QED
    BY <1>2, <2>2, <2>3 DEF RouterValidate
<1>3. CASE RouterLookup(c)
  <2>1. Cleaned
    BY <1>3 DEF RouterLookup, Cleaned, hostVars
  <2>2. CASE Reply(c, "unimplemented")
    BY <1>0, <1>1, <2>1, <2>2, RepliesKeep
  <2>3. ASSUME NEW r \in services,
               Update(c, [call[c] EXCEPT !.pc = "forward", !.found = r])
        PROVE  RoutedInv'
    <3> DEFINE k == [call[c] EXCEPT !.pc = "forward", !.found = r]
    <3>1. k \in CallState
      BY <1>0 DEF CallState, RoutedInv, TypeOK
    <3>2. SameRequest(call[c], k) /\ Accounted(k)
      BY <1>0 DEF CallState, SameRequest, Accounted
    <3> QED
      BY <1>0, <2>1, <2>3, <3>1, <3>2, CallMovesOn
  <2> QED
    BY <1>3, <2>2, <2>3 DEF RouterLookup, RegistrationOf
<1>4. CASE RouterForward(c)
  <2>1. Cleaned
    BY <1>4 DEF RouterForward, Cleaned, hostVars
  <2>2. CASE Reply(c, "unavailable") \/ Reply(c, "unimplemented")
    BY <1>0, <1>1, <2>1, <2>2, RepliesKeep
  <2>3. CASE Update(c, [call[c] EXCEPT !.pc = "auth", !.auth = 1,
                                       !.code = "unauthenticated"])
    <3> DEFINE k == [call[c] EXCEPT !.pc = "auth", !.auth = 1,
                                    !.code = "unauthenticated"]
    <3>1. k \in CallState
      BY <1>0, <1>1 DEF CallState
    <3>2. SameRequest(call[c], k) /\ Accounted(k)
      BY <1>0 DEF CallState, SameRequest, Accounted
    <3> QED
      BY <1>0, <2>1, <2>3, <3>1, <3>2, CallMovesOn
  <2> QED
    BY <1>4, <2>2, <2>3 DEF RouterForward
<1> QED
  BY <1>2, <1>3, <1>4

\* The proxy and the provider's interceptors.
LEMMA ProviderSteps ==
  ASSUME RoutedInv, NEW c \in Calling,
         \/ ProxyFails(c) \/ AuthRefuses(c) \/ HandlerSucceeds(c)
         \/ \E e \in Errors : HandlerFails(c, e)
         \/ Answer(c) \/ AttemptCancelled(c)
  PROVE  RoutedInv'
<1>0. /\ call[c] \in CallState /\ Accounted(call[c])
      /\ call[c].pc # "idle"
      /\ UNCHANGED <<hostVars, providerVars>>
  BY DEF RoutedInv, TypeOK, ProxyFails, AuthRefuses, HandlerSucceeds,
         HandlerFails, Accepted, Answer, AttemptCancelled
<1>1. CASE ProxyFails(c)
  BY <1>0, <1>1, GivingUpKeeps DEF ProxyFails, Codes
<1>2. CASE AttemptCancelled(c)
  BY <1>0, <1>2, GivingUpKeeps DEF AttemptCancelled, Codes
<1>3. CASE AuthRefuses(c)
  BY <1>0, <1>3, TryingNextKeeps DEF AuthRefuses, Codes
<1>4. ASSUME NEW e \in Errors, HandlerFails(c, e) PROVE RoutedInv'
  <2>1. e \in Codes /\ e # "ok"
    BY RoutedCallAssumption DEF Codes
  <2> QED
    BY <1>0, <1>4, <2>1, TryingNextKeeps DEF HandlerFails, Accepted
<1>5. CASE HandlerSucceeds(c)
  <2> DEFINE n == call[c].good + 1
             k == [call[c] EXCEPT !.pc = "answer", !.code = "ok", !.good = n]
  <2>1. call[c].code # "ok" /\ call[c].good = call[c].lost /\ n \in Nat
    BY <1>0, <1>5 DEF HandlerSucceeds, Accepted, Accounted, CallState
  <2>2. Update(c, k)
    BY <1>0, <1>5 DEF HandlerSucceeds, StopAtSuccess, CallState
  <2>3. k \in CallState
    <3> HIDE DEF n
    <3> QED
      BY <1>0, <2>1 DEF CallState, Codes
  <2>4. SameRequest(call[c], k) /\ Accounted(k)
    BY <1>0, <2>1 DEF CallState, SameRequest, Accounted
  <2> QED
    BY <1>0, <2>2, <2>3, <2>4, CallMovesOn DEF Cleaned, hostVars
<1>6. CASE Answer(c)
  <2> DEFINE k == [call[c] EXCEPT !.pc = "reply"]
  <2>1. k \in CallState
    BY <1>0 DEF CallState
  <2>2. SameRequest(call[c], k) /\ Accounted(k)
    BY <1>0 DEF CallState, SameRequest, Accounted
  <2> QED
    BY <1>0, <1>6, <2>1, <2>2, CallMovesOn DEF Answer, Cleaned, hostVars
<1> QED
  BY <1>1, <1>2, <1>3, <1>4, <1>5, <1>6

\* A call begins with the credentials of the caller and the path of a
\* registered service.
LEMMA CallBegins ==
  ASSUME RoutedInv, NEW c \in Calling, NEW r \in services, Call(c, r)
  PROVE  RoutedInv'
<1> DEFINE path == ServicePath(r.type, ProviderID)
           k == [NoCall EXCEPT !.pc = "attempt", !.n = 1, !.path = path,
                               !.to = ProviderID, !.type = r.type,
                               !.id = cred[c].id, !.token = cred[c].token,
                               !.age = cred[c].age]
<1>1. /\ r.type \in ServiceNames /\ ValidateServiceType(r.type)
      /\ r.type \in Seq(Chars)
  BY NamesAssumption DEF RoutedInv, TypeOK, Service
<1>2. path \in Seq(Chars)
  <2>1. "/" \in Chars /\ "m" \in Chars
    BY DEF Chars
  <2>2. r.type \o <<"/">> \in Seq(Chars)
    BY <1>1, <2>1
  <2>3. r.type \o <<"/">> \o ProviderID \in Seq(Chars)
    BY <2>2, ProviderIsPlain
  <2> QED
    BY <2>1, <2>3 DEF ServicePath
<1>3. /\ cred[c].id \in RuntimeIDs /\ cred[c].token \in Tokens
      /\ cred[c].age \in 0..TTL /\ Tracked(cred[c])
  BY RoutedCallAssumption DEF Call, RoutedInv, TypeOK, Credentials
<1>4. Update(c, k) /\ UNCHANGED <<hostVars, providerVars>>
  BY DEF Call
<1> HIDE DEF path
<1>5. k \in CallState
  <2>1. NoCall \in CallState
    <3>1. <<>> \in Seq(Chars)
      OBVIOUS
    <3> QED
      BY <3>1, RoutedCallAssumption DEF NoCall, CallState
  <2> QED
    BY <1>1, <1>2, <1>3, <2>1 DEF CallState
<1>6. Accounted(k)
  BY NoneAssumption DEF NoCall, Accounted, Codes
<1>7. Begun(k)
  <2>1. Tracked(k)
    BY <1>3 DEF NoCall, Tracked, Holds
  <2> QED
    BY <1>1, <1>3, <2>1 DEF NoCall, Begun, path
<1> QED
  BY <1>4, <1>5, <1>6, <1>7, CallChanges DEF Cleaned, hostVars

\* Handshake: the new token is nobody else's, and whoever had the runtime ID
\* before is marked.
LEMMA HandshakeStep ==
  ASSUME RoutedInv, NEW c \in Callers, NEW s \in SelfIDs, NEW x \in IDSuffixes,
         Handshake(c, s, x)
  PROVE  RoutedInv'
<1> DEFINE id == RuntimeID(s, x)
           t == <<c, used[c] + 1>>
<1>1. /\ tokens' = [tokens EXCEPT ![id] = [token |-> t, left |-> TTL]]
      /\ cred' = [cred EXCEPT ![c] = [id |-> id, token |-> t, age |-> 0]]
      /\ used' = [used EXCEPT ![c] = used[c] + 1]
      /\ UNCHANGED <<services, routable, endpoint, chain, call>>
  BY DEF Handshake, providerVars
<1>2. /\ clashed \subseteq clashed' /\ clashed' \subseteq clashed \cup {id}
      /\ tokens[id] # None => id \in clashed'
  BY DEF Handshake
<1>3. id \in RuntimeIDs
  BY DEF Handshake, RuntimeIDs
<1>4. used[c] \in Nat /\ t \in Tokens /\ t[1] = c /\ t[2] = used[c] + 1
  BY DEF RoutedInv, TypeOK, Tokens
<1> HIDE DEF id, t
<1>5. TypeOK'
  <2>1. [token |-> t, left |-> TTL] \in Entry
    BY <1>4, RoutedCallAssumption DEF Entry
  <2>2. [id |-> id, token |-> t, age |-> 0] \in Credentials
    BY <1>3, <1>4, RoutedCallAssumption DEF Credentials
  <2> QED
    BY <1>1, <1>2, <1>3, <1>4, <2>1, <2>2 DEF RoutedInv, TypeOK
<1>6. /\ tokens'[id] = [token |-> t, left |-> TTL] /\ tokens'[id] # None
      /\ \A i \in RuntimeIDs : i # id => tokens'[i] = tokens[i]
      /\ \A d \in Callers : used'[d] \in Nat /\ used[d] \in Nat
                              /\ used[d] <= used'[d]
      /\ used'[c] = used[c] + 1
  <2>1. [token |-> t, left |-> TTL] \in Entry
    BY <1>4, RoutedCallAssumption DEF Entry
  <2> QED
    BY <1>1, <1>3, <1>4, <2>1, NoneAssumption DEF RoutedInv, TypeOK
<1> DEFINE Then(i, u, a) ==
             /\ u \in Tokens /\ u[2] <= used'[u[1]]
             /\ (tokens'[i] # None /\ tokens'[i].token = u)
                   => tokens'[i].left + a = TTL
             /\ \/ i \in clashed' \/ a = TTL
                \/ tokens'[i] # None /\ tokens'[i].token = u
<1>7. ASSUME NEW j, j.id \in RuntimeIDs, j.age \in 0..TTL, Tracked(j)
      PROVE  Then(j.id, j.token, j.age)
  <2>1. /\ j.token \in Tokens /\ j.token[2] <= used[j.token[1]]
        /\ j.token[1] \in Callers /\ j.token[2] \in Nat
    BY <1>7 DEF Tracked, Tokens
  <2>2. j.token # t
    BY <1>4, <2>1 DEF RoutedInv, TypeOK
  <2>3. j.token[2] <= used'[j.token[1]]
    BY <1>6, <2>1
  <2>4. CASE j.id = id
    BY <1>2, <1>6, <1>7, <2>1, <2>2, <2>3, <2>4 DEF Tracked, Holds
  <2>5. CASE j.id # id
    BY <1>2, <1>6, <1>7, <2>1, <2>3, <2>5 DEF Tracked, Holds
  <2> QED
    BY <2>4, <2>5
<1>8. ASSUME NEW d \in Calling PROVE (Accounted(call[d]) /\ Begun(call[d]))'
  <2>1. call[d] \in CallState /\ Accounted(call[d]) /\ Begun(call[d])
    BY DEF RoutedInv, TypeOK
  <2>2. call[d].pc # "idle"
           => Then(call[d].id, call[d].token, call[d].age)
    BY <1>7, <2>1 DEF Begun, CallState
  <2> QED
    BY <1>1, <2>1, <2>2 DEF Accounted, Begun, Tracked, Holds
<1>9. ASSUME NEW d \in Callers, cred'[d] # None PROVE Tracked(cred[d])'
  <2>1. CASE d = c
    <3>1. cred'[d] = [id |-> id, token |-> t, age |-> 0]
      BY <1>1, <2>1 DEF RoutedInv, TypeOK
    <3> QED
      BY <1>4, <1>6, <3>1, RoutedCallAssumption DEF Tracked, Holds
  <2>2. CASE d # c
    <3>1. cred'[d] = cred[d] /\ cred[d] # None
      BY <1>1, <1>9, <2>2 DEF RoutedInv, TypeOK
    <3>2. /\ cred[d].age \in 0..TTL /\ cred[d].id \in RuntimeIDs
          /\ Tracked(cred[d])
      BY <3>1 DEF RoutedInv, TypeOK, Credentials
    <3>3. Then(cred[d].id, cred[d].token, cred[d].age)
      BY <1>7, <3>2
    <3> QED
      BY <3>1, <3>3 DEF Tracked, Holds
  <2> QED
    BY <2>1, <2>2
<1>10. ASSUME NEW i \in RuntimeIDs, tokens'[i] # None
       PROVE  tokens'[i].token[2] <= used'[tokens'[i].token[1]]
  <2>1. CASE i = id
    BY <1>4, <1>6, <2>1
  <2>2. CASE i # id
    <3>1. /\ tokens[i].token \in Tokens
          /\ tokens[i].token[2] <= used[tokens[i].token[1]]
      BY <1>6, <1>10, <2>2 DEF RoutedInv, TypeOK, Entry
    <3>2. tokens[i].token[1] \in Callers /\ tokens[i].token[2] \in Nat
      BY <3>1 DEF Tokens
    <3> QED
      BY <1>6, <2>2, <3>1, <3>2
  <2> QED
    BY <2>1, <2>2
<1> QED
  BY <1>1, <1>5, <1>8, <1>9, <1>10 DEF RoutedInv

\* Tick: the entry loses what the credentials gain in age.
LEMMA TickStep ==
  ASSUME RoutedInv, Tick
  PROVE  RoutedInv'
<1>1. UNCHANGED <<used, clashed, services, routable, endpoint, chain>>
  BY DEF Tick, providerVars
<1>2. \A n \in 0..TTL : Less(n) \in 0..TTL /\ Older(n) \in 0..TTL
  BY RoutedCallAssumption DEF Less, Older
<1>3. ASSUME NEW i \in RuntimeIDs
      PROVE  /\ tokens'[i] \in Entry \cup {None}
             /\ tokens'[i] # None <=> tokens[i] # None
             /\ tokens[i] # None =>
                   /\ tokens[i] \in Entry
                   /\ tokens'[i].token = tokens[i].token
                   /\ tokens'[i].left = Less(tokens[i].left)
  <2>1. CASE tokens[i] = None
    BY <2>1 DEF Tick
  <2>2. CASE tokens[i] # None
    <3>1. tokens[i] \in Entry
      BY <2>2 DEF RoutedInv, TypeOK
    <3>2. tokens'[i] = [tokens[i] EXCEPT !.left = Less(tokens[i].left)]
      BY <2>2 DEF Tick
    <3>3. tokens'[i] \in Entry
      BY <1>2, <3>1, <3>2 DEF Entry
    <3> QED
      BY <2>2, <3>1, <3>2, <3>3, NoneAssumption DEF Entry
  <2> QED
    BY <2>1, <2>2
<1>4. ASSUME NEW d \in Callers
      PROVE  /\ cred'[d] \in Credentials \cup {None}
             /\ cred[d] = None => cred'[d] = None
             /\ cred[d] # None =>
                   /\ cred[d] \in Credentials
                   /\ cred'[d].id = cred[d].id
                   /\ cred'[d].token = cred[d].token
                   /\ cred'[d].age = Older(cred[d].age)
  <2>1. CASE cred[d] = None
    BY <2>1 DEF Tick
  <2>2. CASE cred[d] # None
    <3>1. cred[d] \in Credentials
      BY <2>2 DEF RoutedInv, TypeOK
    <3>2. cred'[d] = [cred[d] EXCEPT !.age = Older(cred[d].age)]
      BY <2>2 DEF Tick
    <3> QED
      BY <1>2, <2>2, <3>1, <3>2 DEF Credentials
  <2> QED
    BY <2>1, <2>2
<1>5. ASSUME NEW d \in Calling
      PROVE  /\ call[d] \in CallState /\ call'[d] \in CallState
             /\ call'[d] = [call[d] EXCEPT !.wait = Less(call[d].wait),
                                           !.age = Older(call[d].age)]
  <2>1. call[d] \in CallState
    BY DEF RoutedInv, TypeOK
  <2>2. Less(call[d].wait) \in Nat /\ Older(call[d].age) \in 0..TTL
    BY <1>2, <2>1 DEF CallState, Less
  <2>3. call'[d] = [call[d] EXCEPT !.wait = Less(call[d].wait),
                                   !.age = Older(call[d].age)]
    BY DEF Tick
  <2> QED
    BY <2>1, <2>2, <2>3 DEF CallState
<1>6. TypeOK'
  BY <1>1, <1>3, <1>4, <1>5 DEF RoutedInv, TypeOK, Tick
<1> DEFINE Then(i, u, a) ==
             /\ u \in Tokens /\ u[2] <= used'[u[1]]
             /\ (tokens'[i] # None /\ tokens'[i].token = u)
                   => tokens'[i].left + a = TTL
             /\ \/ i \in clashed' \/ a = TTL
                \/ tokens'[i] # None /\ tokens'[i].token = u
<1>7. ASSUME NEW j, j.id \in RuntimeIDs, j.age \in 0..TTL, Tracked(j)
      PROVE  Then(j.id, j.token, Older(j.age))
  <2>1. CASE Holds(j)
    <3>1. /\ tokens[j.id].left \in 0..TTL
          /\ tokens[j.id].left + j.age = TTL
          /\ tokens'[j.id] # None /\ tokens'[j.id].token = j.token
          /\ tokens'[j.id].left = Less(tokens[j.id].left)
      BY <1>3, <1>7, <2>1 DEF Holds, Tracked, Entry
    <3>2. Less(tokens[j.id].left) + Older(j.age) = TTL
      BY <1>7, <3>1, RoutedCallAssumption DEF Less, Older
    <3> QED
      BY <1>1, <1>7, <3>1, <3>2 DEF Tracked
  <2>2. CASE ~Holds(j)
    <3>1. ~(tokens'[j.id] # None /\ tokens'[j.id].token = j.token)
      BY <1>3, <1>7, <2>2 DEF Holds
    <3>2. j.age = TTL => Older(j.age) = TTL
      BY DEF Older
    <3> QED
      BY <1>1, <1>7, <2>2, <3>1, <3>2 DEF Tracked
  <2> QED
    BY <2>1, <2>2
<1>8. ASSUME NEW d \in Calling PROVE (Accounted(call[d]) /\ Begun(call[d]))'
  <2>1. call[d] \in CallState /\ Accounted(call[d]) /\ Begun(call[d])
    BY DEF RoutedInv, TypeOK
  <2>2. call[d].pc # "idle"
           => Then(call[d].id, call[d].token, Older(call[d].age))
    BY <1>7, <2>1 DEF Begun, CallState
  <2>3. /\ call'[d].pc = call[d].pc /\ call'[d].code = call[d].code
        /\ call'[d].last = call[d].last /\ call'[d].good = call[d].good
        /\ call'[d].lost = call[d].lost /\ call'[d].id = call[d].id
        /\ call'[d].token = call[d].token /\ call'[d].type = call[d].type
        /\ call'[d].path = call[d].path /\ call'[d].to = call[d].to
        /\ call'[d].age = Older(call[d].age)
    <3> DEFINE w == Less(call[d].wait)
               a == Older(call[d].age)
    <3>1. call'[d] = [call[d] EXCEPT !.wait = w, !.age = a]
      BY <1>5
    <3> HIDE DEF w, a
    <3>2. /\ call'[d].pc = call[d].pc /\ call'[d].code = call[d].code
          /\ call'[d].last = call[d].last /\ call'[d].good = call[d].good
          /\ call'[d].lost = call[d].lost /\ call'[d].id = call[d].id
      BY <2>1, <3>1 DEF CallState
    <3>3. /\ call'[d].token = call[d].token /\ call'[d].type = call[d].type
          /\ call'[d].path = call[d].path /\ call'[d].to = call[d].to
          /\ call'[d].age = a
      BY <2>1, <3>1 DEF CallState
    <3> QED
      BY <3>2, <3>3 DEF a
  <2>4. Accounted(call[d])'
    BY <2>1, <2>3 DEF Accounted
  <2> QED
    BY <2>1, <2>2, <2>3, <2>4 DEF Begun, Tracked, Holds
<1>9. ASSUME NEW d \in Callers, cred'[d] # None PROVE Tracked(cred[d])'
  <2>1. /\ cred[d] # None /\ cred[d].age \in 0..TTL
        /\ cred[d].id \in RuntimeIDs /\ Tracked(cred[d])
    BY <1>4, <1>9 DEF RoutedInv, Credentials
  <2>2. Then(cred[d].id, cred[d].token, Older(cred[d].age))
    BY <1>7, <2>1
  <2> QED
    BY <1>4, <2>1, <2>2 DEF Tracked, Holds
<1>10. ASSUME NEW i \in RuntimeIDs, tokens'[i] # None
       PROVE  tokens'[i].token[2] <= used'[tokens'[i].token[1]]
  BY <1>1, <1>3, <1>10 DEF RoutedInv
<1> QED
  BY <1>1, <1>6, <1>8, <1>9, <1>10 DEF RoutedInv

\* The provider's registrations and health, and stuttering.
LEMMA EnvironmentSteps ==
  ASSUME RoutedInv,
         \/ \E type \in ServiceNames, b \in BOOLEAN : RegisterService(type, b)
         \/ \E r \in services : UnregisterService(r)
         \/ ReportHealth \/ RegisterPluginEndpoint
         \/ UNCHANGED vars
  PROVE  RoutedInv'
<1>1. UNCHANGED <<tokens, cred, used, clashed, call>>
  BY DEF RegisterService, UnregisterService, ReportHealth,
         RegisterPluginEndpoint, vars, hostVars
<1>2. /\ services' \subseteq Service
      /\ \A r \in services' : ValidateServiceType(r.type)
      /\ routable' \in BOOLEAN /\ endpoint' \in BOOLEAN
  <2>0. /\ services \subseteq Service
        /\ \A r \in services : ValidateServiceType(r.type)
        /\ routable \in BOOLEAN /\ endpoint \in BOOLEAN
    BY DEF RoutedInv, TypeOK
  <2>1. ASSUME NEW type \in ServiceNames, NEW b \in BOOLEAN,
               RegisterService(type, b)
        PROVE  /\ services' \subseteq Service
               /\ \A r \in services' : ValidateServiceType(r.type)
               /\ routable' \in BOOLEAN /\ endpoint' \in BOOLEAN
    <3>1. [type |-> type, baseURL |-> b] \in Service
      BY DEF Service
    <3>2. [type |-> type, baseURL |-> b].type = type
      OBVIOUS
    <3> QED
      BY <2>0, <2>1, <3>1, <3>2 DEF RegisterService
  <2>2. CASE \E r \in services : UnregisterService(r)
    BY <2>0, <2>2 DEF UnregisterService
  <2>3. CASE ReportHealth \/ RegisterPluginEndpoint \/ UNCHANGED vars
    BY <2>0, <2>3 DEF ReportHealth, RegisterPluginEndpoint, vars
  <2> QED
    BY <2>1, <2>2, <2>3
<1>3. TypeOK'
  BY <1>1, <1>2 DEF RoutedInv, TypeOK
<1>4. ASSUME NEW d \in Calling PROVE (Accounted(call[d]) /\ Begun(call[d]))'
  BY <1>1 DEF RoutedInv, Accounted, Begun, Tracked, Holds
<1>5. ASSUME NEW d \in Callers, cred'[d] # None PROVE Tracked(cred[d])'
  BY <1>1, <1>5 DEF RoutedInv, Tracked, Holds
<1> QED
  BY <1>1, <1>2, <1>3, <1>4, <1>5 DEF RoutedInv

THEOREM RoutedInvariance == Spec => []RoutedInv
<1>1. RoutedInv /\ [Next]_vars => RoutedInv'
  BY HandshakeStep, TickStep, EnvironmentSteps, CallBegins, CallerSteps,
     RouterSteps, ProviderSteps DEF Next, CallStep
<1> QED
  BY RoutedInit, <1>1, PTL DEF Spec

\* The retries and the composed auth providers repeat a success only if its
\* answer was lost.
THEOREM SucceedsOnceTheorem == Spec => []SucceedsOnceUnlessLost
<1>1. RoutedInv => SucceedsOnceUnlessLost
  <2> SUFFICES ASSUME RoutedInv, NEW c \in Calling
               PROVE  call[c].good <= 1 + call[c].lost
    BY DEF SucceedsOnceUnlessLost
  <2>1. /\ call[c].lost \in Nat
        /\ call[c].good = IF call[c].code = "ok" THEN call[c].lost + 1
                                                 ELSE call[c].lost
    BY DEF RoutedInv, TypeOK, CallState, Accounted
  <2> QED
    BY <2>1
<1> QED
  BY RoutedInvariance, <1>1, PTL

\* No names that validation lets through move the boundaries of the path.
THEOREM NamedProviderTheorem == Spec => []NamedProviderReached
<1>1. RoutedInv => NamedProviderReached
  BY PathNamesProvider, ProviderIsPlain, ValidIsPlain, NamesAssumption
  DEF RoutedInv, Begun, NamedProviderReached
<1> QED
  BY RoutedInvariance, <1>1, PTL

\* A caller is let through while its token lives, and only then.
THEOREM AdmittedTheorem == Spec => AdmittedWhileTokenLives
<1> DEFINE A == \A c \in Calling :
           call[c].pc = "validate" /\ ~call[c].done =>
             /\ call'[c].pc = "lookup" => call[c].age < TTL
             /\ call'[c].pc = "reply" => \/ call[c].age = TTL
                                         \/ call[c].id \in clashed
<1>1. RoutedInv /\ NamedProviderReached /\ [Next]_vars => [A]_vars
  <2> SUFFICES ASSUME RoutedInv, NamedProviderReached, Next,
                      NEW c \in Calling, call[c].pc = "validate",
                      ~call[c].done
               PROVE  /\ call'[c].pc = "lookup" => call[c].age < TTL
                      /\ call'[c].pc = "reply" => \/ call[c].age = TTL
                                                  \/ call[c].id \in clashed
    OBVIOUS
  <2>0. /\ call \in [Calling -> CallState] /\ Tracked(call[c])
        /\ call[c].id \in RuntimeIDs
    BY DEF RoutedInv, TypeOK, Begun
  <2>1. CASE RouterValidate(c)
    <3>1. HasThreeParts(call[c].path)
      BY DEF NamedProviderReached
    <3>2. CASE Valid(call[c].id, call[c].token)
      <4>1. call'[c].pc = "lookup"
        BY <2>0, <2>1, <3>1, <3>2 DEF RouterValidate, Update, CallState
      <4>2. /\ tokens[call[c].id] \in Entry /\ tokens[call[c].id].left # 0
            /\ tokens[call[c].id].left + call[c].age = TTL
        BY <2>0, <3>2
        DEF Valid, Expired, Tracked, Holds, RoutedInv, TypeOK
      <4> QED
        BY <2>0, <4>1, <4>2, RoutedCallAssumption DEF Entry, CallState
    <3>3. CASE ~Valid(call[c].id, call[c].token)
      <4>1. call'[c].pc = "reply"
        BY <2>0, <2>1, <3>1, <3>3 DEF RouterValidate, Reply, Update, CallState
      <4>2. Holds(call[c]) => tokens[call[c].id].left = 0
        BY <3>3 DEF Valid, Expired, Holds
      <4>3. Holds(call[c]) => call[c].age = TTL
        BY <2>0, <4>2, RoutedCallAssumption DEF Tracked, CallState
      <4> QED
        BY <2>0, <4>1, <4>3 DEF Tracked
    <3> QED
      BY <3>2, <3>3
  <2>2. CASE ~RouterValidate(c)
    <3>1. call'[c].pc = "validate"
      <4>1. CASE Tick
        BY <2>0, <4>1 DEF Tick, CallState
      <4>2. CASE \/ \E d \in Callers, s \in SelfIDs, x \in IDSuffixes :
                        Handshake(d, s, x)
                 \/ \E type \in ServiceNames, b \in BOOLEAN :
                        RegisterService(type, b)
                 \/ \E r \in services : UnregisterService(r)
                 \/ ReportHealth \/ RegisterPluginEndpoint
        BY <4>2 DEF Handshake, RegisterService, UnregisterService,
                    ReportHealth, RegisterPluginEndpoint
      <4>3. ASSUME NEW d \in Calling,
                   \/ \E r \in services : Call(d, r)
                   \/ Cancel(d) \/ CallStep(d)
            PROVE  call'[c].pc = "validate"
        <5>1. CASE d = c
          <6>1. Cancel(c)
            BY <2>2, <4>3, <5>1
            DEF Call, CallStep, Attempt, RouterLookup, RouterForward,
                ProxyFails, AuthRefuses, HandlerFails, HandlerSucceeds,
                Accepted, Answer, AttemptCancelled, Retry, BackoffEnds
          <6> QED
            BY <2>0, <6>1 DEF Cancel, Update, CallState
        <5>2. CASE d # c
          <6>1. \E k : Update(d, k)
            BY <4>3
            DEF Call, Cancel, CallStep, Attempt, RouterValidate, RouterLookup,
                RouterForward, ProxyFails, AuthRefuses, HandlerFails,
                HandlerSucceeds, Answer, AttemptCancelled, Retry, BackoffEnds,
                Reply, GiveUpOn, TryNext
          <6> QED
            BY <2>0, <5>2, <6>1 DEF Update
        <5> QED
          BY <5>1, <5>2
      <4> QED
        BY <4>1, <4>2, <4>3 DEF Next
    <3> QED
      BY <3>1
  <2> QED
    BY <2>1, <2>2
<1> QED
  BY RoutedInvariance, NamedProviderTheorem, <1>1, PTL
  DEF Spec, AdmittedWhileTokenLives
=============================================================================
