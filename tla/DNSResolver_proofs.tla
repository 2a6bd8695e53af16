------------------------ MODULE DNSResolver_proofs ------------------------
(***************************************************************************)
(* Proofs about DNSResolver for any list of names, any sets of calls, any  *)
(* intervals and any bound on the clock.                                   *)
(***************************************************************************)
EXTENDS DNSResolver, TLAPS

(* A call that has not returned is at one of the names; it has asked at     *)
(* most once per attempt, and failed before it tries again.                 *)
CallInOrder(c) ==
    /\ pc[c] # "done" => at[c] <= Len(NameServers)
    /\ pc[c] = "idle" => resolved[c] = <<>> /\ asked[c] = 0
    /\ pc[c] \in {"asking", "answered"} => asked[c] <= attempt[c] + 1
    /\ pc[c] \notin {"asking", "answered"} => asked[c] <= attempt[c]
    /\ begun[c] <= now

CallsInOrder == \A c \in Callers : CallInOrder(c)

(* A lookup in progress began at most MaxLookup ago, and its answer is not  *)
(* older than its beginning.                                                *)
LookupsAreShort ==
    \A c \in Callers :
        /\ pc[c] \in {"asking", "answered"} => timer[c] <= now /\ now <= timer[c] + MaxLookup
        /\ pc[c] = "answered" => timer[c] <= answer[c].asOf

(* So an entry of the cache was at most MaxLookup old when it was stored. *)
EntriesAreRecent ==
    \A n \in Names : cache[n] # NoEntry =>
        /\ cache[n].resolveTime <= now
        /\ cache[n].resolveTime <= cache[n].asOf + MaxLookup

(* What the cache holds was stored since the last ClearCache. *)
StoredSinceRefresh ==
    \A c \in Refreshers, n \in Names :
        pc[c] # "idle" /\ cache[n] # NoEntry => begun[c] <= cache[n].resolveTime

IInv ==
    /\ TypeOK
    /\ CallsInOrder
    /\ LookupsAreShort
    /\ EntriesAreRecent
    /\ StoredSinceRefresh
    /\ RefreshIsRecent

---------------------------------------------------------------------------
(* The constants *)

(* The intervals are naturals, and every position in the list has a name. *)
LEMMA ConstantTypes ==
    /\ MaxRetries \in Nat /\ RetryInterval \in Nat /\ RefreshInterval \in Nat
    /\ MaxLookup \in Nat /\ MaxTime \in Nat
    /\ Refreshers \subseteq Callers
    /\ Len(NameServers) \in Nat \ {0}
    /\ \A i \in 1..Len(NameServers) : NameServers[i] \in Names
<1>1. NameServers \in Seq(Names) /\ NameServers # <<>>
  BY ResolverAssumption
<1> QED
  BY <1>1, ResolverAssumption

-----------------------------------------------------------------------------
(* How a call moves on *)

(* What a call keeps of itself, and what it leaves of the others. *)
OthersStay(c) ==
    \A d \in Callers \ {c} :
        /\ pc'[d] = pc[d] /\ at'[d] = at[d]
        /\ attempt'[d] = attempt[d] /\ timer'[d] = timer[d]
        /\ asked'[d] = asked[d]

CallTypes ==
    /\ pc \in [Callers -> {"idle", "resolving", "asking", "answered", "sleeping", "done"}]
    /\ at \in [Callers -> 1..(Len(NameServers) + 1)]
    /\ attempt \in [Callers -> 0..MaxRetries]
    /\ timer \in [Callers -> Nat]
    /\ asked \in [Callers -> 0..(MaxRetries + 1)]

Advances(c) ==
    /\ pc'[c] \in {"resolving", "done"}
    /\ pc'[c] = "resolving" => at'[c] <= Len(NameServers)
    /\ asked'[c] = 0 /\ attempt'[c] = 0

Sleeps(c) ==
    /\ pc'[c] = "sleeping" /\ at'[c] = at[c] /\ attempt'[c] = attempt[c] + 1
    /\ asked'[c] = asked[c]

(* An answer that may be used: not too old, and for a RefreshDNS not from   *)
(* before the lookups it may have met.                                      *)
Usable(c, asOf) ==
    /\ asOf \in Times
    /\ now - asOf <= RefreshInterval + MaxLookup
    /\ c \in Refreshers => asOf >= begun[c] - MaxLookup

Settles(c) ==
    /\ CallTypes' /\ OthersStay(c) /\ (Advances(c) \/ Sleeps(c))
    /\ now' = now /\ answer' = answer /\ begun' = begun
    /\ \/ resolved' = resolved
       \/ \E a \in Times :
             Usable(c, a) /\ resolved' = [resolved EXCEPT ![c] = Append(@, a)]

(* Without asking the DNS, or with its answer, which is now in the cache. *)
SettlesUnasked(c) == Settles(c) /\ cache' = cache /\ pc[c] = "resolving"

SettlesAnswered(c) ==
    /\ Settles(c) /\ pc[c] = "answered"
    /\ \E e \in Entries :
          /\ cache' = [cache EXCEPT ![Name(c)] = e]
          /\ e.resolveTime = now /\ now <= e.asOf + MaxLookup

(* Going on to the next name keeps the call in order. *)
LEMMA NextNameMoves ==
    ASSUME IInv, NEW c \in Callers, pc[c] \in {"resolving", "answered"}, NextName(c)
    PROVE  CallTypes' /\ OthersStay(c) /\ Advances(c)
<1>1. CallTypes
  BY DEF IInv, TypeOK, CallTypes
<1>2. at[c] <= Len(NameServers)
  BY DEF IInv, CallsInOrder, CallInOrder
<1>3. pc' \in [Callers -> {"idle", "resolving", "asking", "answered", "sleeping", "done"}]
  BY <1>1 DEF CallTypes, NextName
<1>4. at' \in [Callers -> 1..(Len(NameServers) + 1)]
  BY <1>1, <1>2, ConstantTypes DEF CallTypes, NextName
<1>5. /\ attempt' \in [Callers -> 0..MaxRetries]
      /\ asked' \in [Callers -> 0..(MaxRetries + 1)]
  BY <1>1, ConstantTypes DEF CallTypes, NextName
<1>6. timer' \in [Callers -> Nat]
  BY <1>1 DEF CallTypes, NextName
<1>7. OthersStay(c)
  BY <1>1 DEF CallTypes, NextName, OthersStay
<1>8. Advances(c)
  BY <1>1, <1>2, ConstantTypes DEF CallTypes, NextName, Advances
<1> QED
  BY <1>3, <1>4, <1>5, <1>6, <1>7, <1>8 DEF CallTypes

(* Retrying the same name does, too. *)
LEMMA RetryMoves ==
    ASSUME IInv, NEW c \in Callers, pc[c] \in {"resolving", "answered"}, Retry(c)
    PROVE  CallTypes' /\ OthersStay(c) /\ Sleeps(c)
<1>1. CallTypes /\ now \in Times
  BY DEF IInv, TypeOK, CallTypes
<1>2. pc' \in [Callers -> {"idle", "resolving", "asking", "answered", "sleeping", "done"}]
  BY <1>1 DEF CallTypes, Retry
<1>3. attempt' \in [Callers -> 0..MaxRetries]
  BY <1>1, ConstantTypes DEF CallTypes, Retry
<1>4. timer' \in [Callers -> Nat]
  <2>1. attempt[c] + 1 \in Nat
    BY <1>1 DEF CallTypes
  <2>2. (attempt[c] + 1) * RetryInterval \in Nat
    BY ONLY <2>1, ConstantTypes
  <2>3. now + (attempt[c] + 1) * RetryInterval \in Nat
    BY <1>1, <2>2 DEF Times
  <2> QED
    BY <1>1, <2>3 DEF CallTypes, Retry
<1>6. asked' \in [Callers -> 0..(MaxRetries + 1)]
  BY <1>1 DEF CallTypes, Retry
<1>7. at' \in [Callers -> 1..(Len(NameServers) + 1)]
  BY <1>1 DEF CallTypes, Retry
<1>8. OthersStay(c)
  BY <1>1 DEF CallTypes, Retry, OthersStay
<1>9. Sleeps(c)
  BY <1>1 DEF CallTypes, Retry, Sleeps
<1> QED
  BY <1>2, <1>3, <1>4, <1>6, <1>7, <1>8, <1>9 DEF CallTypes

(* So does failing, which adds no answer. *)
LEMMA FailMoves ==
    ASSUME IInv, NEW c \in Callers, pc[c] \in {"resolving", "answered"}, Fail(c)
    PROVE  /\ CallTypes' /\ OthersStay(c) /\ (Advances(c) \/ Sleeps(c))
           /\ resolved' = resolved
<1>1. CASE Retry(c)
  BY <1>1, RetryMoves DEF Fail
<1>2. CASE GiveUp(c)
  BY <1>2, NextNameMoves DEF GiveUp, Fail
<1> QED
  BY <1>1, <1>2 DEF Fail

(* A name that is rejected, taken as it is or served from the cache: the    *)
(* cache is not written, and what is served from it is recent enough.       *)
LEMMA SettlesWithoutLookup ==
    ASSUME IInv, NEW c \in Callers, RejectMalformed(c) \/ TakeAddress(c) \/ ServeCached(c)
    PROVE  SettlesUnasked(c)
<1>1. pc[c] = "resolving" /\ cache' = cache /\ now' = now /\ answer' = answer /\ begun' = begun
  BY DEF RejectMalformed, TakeAddress, ServeCached, Resolving
<1>2. CASE Fail(c)
  BY <1>1, <1>2, FailMoves DEF Settles, SettlesUnasked
<1>3. CASE \E a \in Times : Usable(c, a) /\ Succeed(c, a)
  <2>1. PICK a \in Times : Usable(c, a) /\ Succeed(c, a)
    BY <1>3
  <2>2. CallTypes' /\ OthersStay(c) /\ Advances(c)
    BY <1>1, <2>1, NextNameMoves DEF Succeed
  <2> QED
    BY <1>1, <2>1, <2>2 DEF Settles, Succeed, SettlesUnasked
<1>4. CASE TakeAddress(c)
  <2>1. now \in Times /\ Usable(c, now)
    BY ConstantTypes DEF IInv, TypeOK, Times, Usable, CallsInOrder, CallInOrder
  <2> QED
    BY <1>3, <1>4, <2>1 DEF TakeAddress
<1>5. CASE ServeCached(c) /\ cache[Name(c)].ok
  <2> DEFINE n == Name(c)
  <2>1. n \in Names
    BY <1>1, ConstantTypes DEF IInv, TypeOK, CallsInOrder, CallInOrder, Name
  <2>2. cache[n] # NoEntry /\ now - cache[n].resolveTime <= RefreshInterval
    BY <1>5 DEF ServeCached, Fresh
  <2>3. cache[n] \in Entries
    BY <2>1, <2>2 DEF IInv, TypeOK
  <2>4. cache[n].resolveTime <= cache[n].asOf + MaxLookup
    BY <2>1, <2>2 DEF IInv, EntriesAreRecent
  <2>5. c \in Refreshers => begun[c] <= cache[n].resolveTime
    BY <1>1, <2>1, <2>2 DEF IInv, StoredSinceRefresh
  <2>6. cache[n].asOf \in Times /\ cache[n].resolveTime \in Times
    BY <2>3 DEF Entries
  <2>7. now \in Times /\ begun[c] \in Times
    BY DEF IInv, TypeOK
  <2> HIDE DEF n
  <2>8. Usable(c, cache[n].asOf)
    <3>1. now - cache[n].asOf <= RefreshInterval + MaxLookup
      <4>1. /\ now \in Int /\ cache[n].resolveTime \in Int /\ cache[n].asOf \in Int
            /\ RefreshInterval \in Int /\ MaxLookup \in Int
        BY <2>6, <2>7, ConstantTypes DEF Times
      <4> QED
        BY ONLY <2>2, <2>4, <4>1
    <3>2. c \in Refreshers => cache[n].asOf >= begun[c] - MaxLookup
      BY <2>4, <2>5, <2>6, <2>7, ConstantTypes DEF Times
    <3> QED
      BY <2>6, <3>1, <3>2 DEF Usable
  <2> USE DEF n
  <2> QED
    BY <1>3, <1>5, <2>8 DEF ServeCached, Usable
<1> QED
  BY <1>2, <1>4, <1>5 DEF RejectMalformed, ServeCached

(* A lookup that is over: the cache has its answer, recent and stored now. *)
LEMMA SettlesAfterLookup ==
    ASSUME IInv, NEW c \in Callers, Store(c)
    PROVE  SettlesAnswered(c)
<1>1. pc[c] = "answered" /\ now' = now /\ answer' = answer /\ begun' = begun
  BY DEF Store
<1>2. answer[c] \in [ok : BOOLEAN, asOf : Times] /\ now \in Times /\ begun[c] \in Times
  BY DEF IInv, TypeOK
<1>3. now <= answer[c].asOf + MaxLookup
  BY <1>1, <1>2, ConstantTypes DEF IInv, TypeOK, LookupsAreShort, Times
<1>4. Usable(c, answer[c].asOf)
  BY <1>2, <1>3, ConstantTypes DEF Usable, IInv, CallsInOrder, CallInOrder, Times
<1>5. Settles(c)
  <2>1. CASE answer[c].ok
    <3>1. Succeed(c, answer[c].asOf)
      BY <2>1 DEF Store
    <3>2. CallTypes' /\ OthersStay(c) /\ Advances(c)
      BY <1>1, <3>1, NextNameMoves DEF Succeed
    <3>3. answer[c].asOf \in Times
      BY <1>2
    <3> QED
      BY <1>1, <1>4, <3>1, <3>2, <3>3 DEF Settles, Succeed
  <2>2. CASE ~answer[c].ok
    BY <1>1, <2>2, FailMoves DEF Settles, Store
  <2> QED
    BY <2>1, <2>2
<1>6. \E e \in Entries :
         /\ cache' = [cache EXCEPT ![Name(c)] = e]
         /\ e.resolveTime = now /\ now <= e.asOf + MaxLookup
  <2> DEFINE e == [ok |-> answer[c].ok, asOf |-> answer[c].asOf, resolveTime |-> now]
  <2>1. e \in Entries
    BY <1>2 DEF Entries
  <2>2. cache' = [cache EXCEPT ![Name(c)] = e]
    BY DEF Store
  <2>3. e.resolveTime = now /\ now <= e.asOf + MaxLookup
    BY <1>3
  <2> QED
    BY <2>1, <2>2, <2>3
<1> QED
  BY <1>1, <1>5, <1>6 DEF SettlesAnswered

-----------------------------------------------------------------------------
(* The invariant is inductive *)

(* Every step keeps the types. *)
LEMMA TypeStep == IInv /\ [Next]_vars => TypeOK'
<1> SUFFICES ASSUME IInv, [Next]_vars PROVE TypeOK'
  OBVIOUS
<1>1. ASSUME NEW c \in Callers, Begin(c) PROVE TypeOK'
  BY IInv, <1>1, ConstantTypes DEF Begin, IInv, TypeOK, Times, CallsInOrder,
     CallInOrder, Name, Entries, callVars, historyVars
<1>2. ASSUME NEW c \in Callers, Refresh(c) PROVE TypeOK'
  BY <1>2 DEF Refresh, IInv, TypeOK
<1>3. ASSUME NEW c \in Callers, SettlesUnasked(c) PROVE TypeOK'
  <2>1. CallTypes' /\ now' = now /\ answer' = answer /\ begun' = begun
    BY <1>3 DEF SettlesUnasked, Settles
  <2>2. resolved' \in [Callers -> Seq(Times)]
    <3>1. resolved \in [Callers -> Seq(Times)]
      BY IInv DEF IInv, TypeOK
    <3>2. ASSUME NEW a \in Times, resolved' = [resolved EXCEPT ![c] = Append(@, a)]
          PROVE  resolved' \in [Callers -> Seq(Times)]
      BY <3>1, <3>2
    <3> QED
      BY <1>3, <3>1, <3>2 DEF SettlesUnasked, Settles
  <2>3. cache' \in [Names -> Entries \cup {NoEntry}]
    BY IInv, <1>3 DEF IInv, TypeOK, SettlesUnasked
  <2> QED
    BY IInv, <2>1, <2>2, <2>3 DEF IInv, TypeOK, CallTypes
<1>4. ASSUME NEW c \in Callers, Ask(c) PROVE TypeOK'
  <2>1. asked[c] <= attempt[c]
    BY <1>4 DEF IInv, CallsInOrder, CallInOrder, Ask, Resolving
  <2>2. asked' \in [Callers -> 0..(MaxRetries + 1)]
    BY IInv, <1>4, <2>1, ConstantTypes DEF Ask, IInv, TypeOK
  <2>3. pc' \in [Callers -> {"idle", "resolving", "asking", "answered", "sleeping", "done"}]
    BY IInv, <1>4 DEF Ask, IInv, TypeOK
  <2>4. timer' \in [Callers -> Nat]
    BY IInv, <1>4, ConstantTypes DEF Ask, IInv, TypeOK, Times
  <2> QED
    BY IInv, <1>4, <2>2, <2>3, <2>4 DEF Ask, IInv, TypeOK
<1>5. ASSUME NEW c \in Callers, DNSAnswers(c) PROVE TypeOK'
  <2>1. pc' \in [Callers -> {"idle", "resolving", "asking", "answered", "sleeping", "done"}]
    BY IInv, <1>5 DEF DNSAnswers, IInv, TypeOK
  <2>2. answer' \in [Callers -> [ok : BOOLEAN, asOf : Times]]
    BY IInv, <1>5 DEF DNSAnswers, IInv, TypeOK
  <2> QED
    BY IInv, <1>5, <2>1, <2>2 DEF DNSAnswers, IInv, TypeOK, historyVars
<1>6. ASSUME NEW c \in Callers, SettlesAnswered(c) PROVE TypeOK'
  <2>1. CallTypes' /\ now' = now /\ answer' = answer /\ begun' = begun
    BY <1>6 DEF SettlesAnswered, Settles
  <2>2. resolved' \in [Callers -> Seq(Times)]
    <3>1. resolved \in [Callers -> Seq(Times)]
      BY IInv DEF IInv, TypeOK
    <3>2. ASSUME NEW a \in Times, resolved' = [resolved EXCEPT ![c] = Append(@, a)]
          PROVE  resolved' \in [Callers -> Seq(Times)]
      BY <3>1, <3>2
    <3> QED
      BY <1>6, <3>1, <3>2 DEF SettlesAnswered, Settles
  <2>3. cache' \in [Names -> Entries \cup {NoEntry}]
    BY IInv, <1>6 DEF IInv, TypeOK, SettlesAnswered
  <2> QED
    BY IInv, <2>1, <2>2, <2>3 DEF IInv, TypeOK, CallTypes
<1>7. ASSUME NEW c \in Callers, Wake(c) PROVE TypeOK'
  BY <1>7 DEF Wake, IInv, TypeOK, historyVars
<1>8. CASE Tick
  BY <1>8, ConstantTypes DEF Tick, IInv, TypeOK, Times, callVars, historyVars
<1>9. CASE UNCHANGED vars
  BY <1>9 DEF vars, IInv, TypeOK, callVars, historyVars
<1> QED
  BY <1>1, <1>2, <1>3, <1>4, <1>5, <1>6, <1>7, <1>8, <1>9, SettlesWithoutLookup,
     SettlesAfterLookup DEF Next, ResolveName

(* Calls go through the names in order, one attempt after the other. *)
LEMMA OrderStep == IInv /\ [Next]_vars => CallsInOrder'
<1> SUFFICES ASSUME IInv, [Next]_vars PROVE CallsInOrder'
  OBVIOUS
<1>1. ASSUME NEW c \in Callers, Begin(c) PROVE CallsInOrder'
  BY IInv, <1>1, ConstantTypes DEF Begin, IInv, TypeOK, Times, CallsInOrder,
     CallInOrder, callVars, historyVars
<1>2. ASSUME NEW c \in Callers, Refresh(c) PROVE CallsInOrder'
  BY <1>2 DEF Refresh, IInv, TypeOK, Times, CallsInOrder, CallInOrder
<1>3. ASSUME NEW c \in Callers, SettlesUnasked(c) PROVE CallsInOrder'
  <2> SUFFICES ASSUME NEW d \in Callers PROVE CallInOrder(d)'
    BY DEF CallsInOrder
  <2>1. CallInOrder(d) /\ now' = now /\ begun' = begun
    BY IInv, <1>3 DEF IInv, CallsInOrder, SettlesUnasked, Settles
  <2>2. CASE d = c
    <3>1. attempt[c] \in Nat /\ asked[c] \in Nat /\ now \in Nat
      BY IInv, ConstantTypes DEF IInv, TypeOK, Times
    <3>2. pc[c] \in {"resolving", "answered"} /\ (Advances(c) \/ Sleeps(c))
      BY <1>3 DEF SettlesUnasked, Settles
    <3> QED
      BY <2>1, <2>2, <3>1, <3>2 DEF CallInOrder, Advances, Sleeps
  <2>3. CASE d # c
    <3>1. OthersStay(c) /\ resolved'[d] = resolved[d]
      BY IInv, <1>3, <2>3 DEF SettlesUnasked, Settles, IInv, TypeOK
    <3> QED
      BY <2>1, <2>3, <3>1 DEF OthersStay, CallInOrder
  <2> QED
    BY <2>2, <2>3
<1>4. ASSUME NEW c \in Callers, Ask(c) PROVE CallsInOrder'
  <2> SUFFICES ASSUME NEW d \in Callers PROVE CallInOrder(d)'
    BY DEF CallsInOrder
  <2>1. CallInOrder(d) /\ asked[d] \in Nat /\ attempt[d] \in Nat
    BY IInv, ConstantTypes DEF IInv, CallsInOrder, TypeOK
  <2>2. CASE d = c
    BY <1>4, <2>1, <2>2 DEF Ask, Resolving, IInv, TypeOK, CallInOrder
  <2>3. CASE d # c
    BY IInv, <1>4, <2>1, <2>3 DEF Ask, IInv, TypeOK, CallInOrder
  <2> QED
    BY <2>2, <2>3
<1>5. ASSUME NEW c \in Callers, DNSAnswers(c) PROVE CallsInOrder'
  BY <1>5 DEF DNSAnswers, IInv, CallsInOrder, CallInOrder, historyVars
<1>6. ASSUME NEW c \in Callers, SettlesAnswered(c) PROVE CallsInOrder'
  <2> SUFFICES ASSUME NEW d \in Callers PROVE CallInOrder(d)'
    BY DEF CallsInOrder
  <2>1. CallInOrder(d) /\ now' = now /\ begun' = begun
    BY IInv, <1>6 DEF IInv, CallsInOrder, SettlesAnswered, Settles
  <2>2. CASE d = c
    <3>1. attempt[c] \in Nat /\ asked[c] \in Nat /\ now \in Nat
      BY IInv, ConstantTypes DEF IInv, TypeOK, Times
    <3>2. pc[c] \in {"resolving", "answered"} /\ (Advances(c) \/ Sleeps(c))
      BY <1>6 DEF SettlesAnswered, Settles
    <3> QED
      BY <2>1, <2>2, <3>1, <3>2 DEF CallInOrder, Advances, Sleeps
  <2>3. CASE d # c
    <3>1. OthersStay(c) /\ resolved'[d] = resolved[d]
      BY IInv, <1>6, <2>3 DEF SettlesAnswered, Settles, IInv, TypeOK
    <3> QED
      BY <2>1, <2>3, <3>1 DEF OthersStay, CallInOrder
  <2> QED
    BY <2>2, <2>3
<1>7. ASSUME NEW c \in Callers, Wake(c) PROVE CallsInOrder'
  BY <1>7 DEF Wake, IInv, CallsInOrder, CallInOrder, historyVars
<1>8. CASE Tick
  BY <1>8 DEF Tick, IInv, TypeOK, Times, CallsInOrder, CallInOrder, callVars,
     historyVars
<1>9. CASE UNCHANGED vars
  BY <1>9 DEF vars, IInv, CallsInOrder, CallInOrder, callVars, historyVars
<1> QED
  BY <1>1, <1>2, <1>3, <1>4, <1>5, <1>6, <1>7, <1>8, <1>9, SettlesWithoutLookup,
     SettlesAfterLookup DEF Next, ResolveName

(* Time does not pass over a lookup that has taken MaxLookup. *)
LEMMA LookupStep == IInv /\ [Next]_vars => LookupsAreShort'
<1> SUFFICES ASSUME IInv, [Next]_vars PROVE LookupsAreShort'
  OBVIOUS
<1>1. ASSUME NEW c \in Callers, Begin(c) PROVE LookupsAreShort'
  BY IInv, <1>1, ConstantTypes DEF Begin, IInv, TypeOK, Times, LookupsAreShort,
     callVars, historyVars
<1>2. ASSUME NEW c \in Callers, Refresh(c) PROVE LookupsAreShort'
  BY <1>2 DEF Refresh, IInv, LookupsAreShort
<1>3. ASSUME NEW c \in Callers, SettlesUnasked(c) PROVE LookupsAreShort'
  BY <1>3 DEF SettlesUnasked, Settles, OthersStay, Advances, Sleeps, IInv,
     LookupsAreShort
<1>4. ASSUME NEW c \in Callers, Ask(c) PROVE LookupsAreShort'
  BY <1>4, ConstantTypes DEF Ask, IInv, TypeOK, Times, LookupsAreShort
<1>5. ASSUME NEW c \in Callers, DNSAnswers(c) PROVE LookupsAreShort'
  BY <1>5 DEF DNSAnswers, IInv, TypeOK, LookupsAreShort
<1>6. ASSUME NEW c \in Callers, SettlesAnswered(c) PROVE LookupsAreShort'
  BY <1>6 DEF SettlesAnswered, Settles, OthersStay, Advances, Sleeps, IInv,
     LookupsAreShort
<1>7. ASSUME NEW c \in Callers, Wake(c) PROVE LookupsAreShort'
  BY <1>7 DEF Wake, IInv, LookupsAreShort
<1>8. CASE Tick
  BY IInv, <1>8, ConstantTypes DEF Tick, IInv, TypeOK, Times, LookupsAreShort, callVars
<1>9. CASE UNCHANGED vars
  BY <1>9 DEF vars, IInv, LookupsAreShort, callVars
<1> QED
  BY <1>1, <1>2, <1>3, <1>4, <1>5, <1>6, <1>7, <1>8, <1>9, SettlesWithoutLookup,
     SettlesAfterLookup DEF Next, ResolveName

(* What is stored is as recent as the lookup it comes from. *)
LEMMA EntriesStep == IInv /\ [Next]_vars => EntriesAreRecent'
<1> SUFFICES ASSUME IInv, [Next]_vars PROVE EntriesAreRecent'
  OBVIOUS
<1>1. ASSUME NEW c \in Callers, Begin(c) PROVE EntriesAreRecent'
  BY IInv, <1>1, ConstantTypes DEF Begin, IInv, TypeOK, Times, LookupsAreShort,
     EntriesAreRecent, Entries, callVars, historyVars
<1>2. ASSUME NEW c \in Callers, Refresh(c) PROVE EntriesAreRecent'
  BY <1>2 DEF Refresh, EntriesAreRecent
<1>3. ASSUME NEW c \in Callers, SettlesUnasked(c) PROVE EntriesAreRecent'
  BY <1>3 DEF SettlesUnasked, Settles, IInv, EntriesAreRecent
<1>4. ASSUME NEW c \in Callers, Ask(c) PROVE EntriesAreRecent'
  BY <1>4 DEF Ask, IInv, EntriesAreRecent
<1>5. ASSUME NEW c \in Callers, DNSAnswers(c) PROVE EntriesAreRecent'
  BY <1>5 DEF DNSAnswers, IInv, EntriesAreRecent
<1>6. ASSUME NEW c \in Callers, SettlesAnswered(c) PROVE EntriesAreRecent'
  BY <1>6 DEF SettlesAnswered, Settles, IInv, TypeOK, Times, EntriesAreRecent
<1>7. ASSUME NEW c \in Callers, Wake(c) PROVE EntriesAreRecent'
  BY <1>7 DEF Wake, IInv, EntriesAreRecent
<1>8. CASE Tick
  BY <1>8 DEF Tick, IInv, TypeOK, Times, EntriesAreRecent, Entries
<1>9. CASE UNCHANGED vars
  BY <1>9 DEF vars, IInv, EntriesAreRecent
<1> QED
  BY <1>1, <1>2, <1>3, <1>4, <1>5, <1>6, <1>7, <1>8, <1>9, SettlesWithoutLookup,
     SettlesAfterLookup DEF Next, ResolveName

(* ClearCache leaves nothing from before. *)
LEMMA SinceStep == IInv /\ [Next]_vars => StoredSinceRefresh'
<1> SUFFICES ASSUME IInv, [Next]_vars PROVE StoredSinceRefresh'
  OBVIOUS
<1>1. ASSUME NEW c \in Callers, Begin(c) PROVE StoredSinceRefresh'
  BY IInv, <1>1, ConstantTypes DEF Begin, IInv, TypeOK, Times, CallsInOrder,
     CallInOrder, StoredSinceRefresh, Entries, callVars, historyVars
<1>2. ASSUME NEW c \in Callers, Refresh(c) PROVE StoredSinceRefresh'
  BY <1>2 DEF Refresh, StoredSinceRefresh
<1>3. ASSUME NEW c \in Callers, SettlesUnasked(c) PROVE StoredSinceRefresh'
  BY <1>3, ConstantTypes DEF SettlesUnasked, Settles, OthersStay, IInv,
     StoredSinceRefresh
<1>4. ASSUME NEW c \in Callers, Ask(c) PROVE StoredSinceRefresh'
  <2>1. \A d \in Callers : pc'[d] # "idle" => pc[d] # "idle"
    BY IInv, <1>4 DEF Ask, Resolving, IInv, TypeOK
  <2>2. cache' = cache /\ begun' = begun
    BY <1>4 DEF Ask
  <2> QED
    BY IInv, <2>1, <2>2, ConstantTypes DEF IInv, StoredSinceRefresh
<1>5. ASSUME NEW c \in Callers, DNSAnswers(c) PROVE StoredSinceRefresh'
  BY <1>5 DEF DNSAnswers, IInv, StoredSinceRefresh, historyVars
<1>6. ASSUME NEW c \in Callers, SettlesAnswered(c) PROVE StoredSinceRefresh'
  <2>1. PICK e \in Entries : cache' = [cache EXCEPT ![Name(c)] = e] /\ e.resolveTime = now
    BY <1>6 DEF SettlesAnswered
  <2>2. \A d \in Callers : pc'[d] # "idle" => pc[d] # "idle"
    BY <1>6 DEF SettlesAnswered, Settles, OthersStay
  <2>3. begun' = begun /\ cache \in [Names -> Entries \cup {NoEntry}]
    BY IInv, <1>6 DEF IInv, TypeOK, SettlesAnswered, Settles
  <2>4. \A d \in Callers : begun[d] <= now
    BY IInv DEF IInv, CallsInOrder, CallInOrder
  <2>5. \A n \in Names : cache'[n] = cache[n] \/ cache'[n].resolveTime = now
    BY <2>1, <2>3
  <2> QED
    BY IInv, <2>2, <2>3, <2>4, <2>5, ConstantTypes DEF IInv, StoredSinceRefresh
<1>7. ASSUME NEW c \in Callers, Wake(c) PROVE StoredSinceRefresh'
  BY <1>7 DEF Wake, IInv, StoredSinceRefresh, historyVars
<1>8. CASE Tick
  BY <1>8 DEF Tick, IInv, StoredSinceRefresh, callVars, historyVars
<1>9. CASE UNCHANGED vars
  BY <1>9 DEF vars, IInv, StoredSinceRefresh, callVars, historyVars
<1> QED
  BY <1>1, <1>2, <1>3, <1>4, <1>5, <1>6, <1>7, <1>8, <1>9, SettlesWithoutLookup,
     SettlesAfterLookup DEF Next, ResolveName

(* RefreshDNS gets nothing older than the lookups it may have met. *)
LEMMA RecentStep == IInv /\ [Next]_vars => RefreshIsRecent'
<1> SUFFICES ASSUME IInv, [Next]_vars PROVE RefreshIsRecent'
  OBVIOUS
<1>1. ASSUME NEW c \in Callers, Begin(c) PROVE RefreshIsRecent'
  BY IInv, <1>1, ConstantTypes DEF Begin, IInv, TypeOK, Times, CallsInOrder,
     CallInOrder, RefreshIsRecent, Name, callVars, historyVars
<1>2. ASSUME NEW c \in Callers, Refresh(c) PROVE RefreshIsRecent'
  <2>1. \A d \in Callers : d # c => begun'[d] = begun[d]
    BY IInv, <1>2 DEF Refresh, IInv, TypeOK
  <2>2. resolved' = resolved /\ resolved[c] = <<>>
    BY IInv, <1>2 DEF Refresh, IInv, CallsInOrder, CallInOrder
  <2> QED
    BY IInv, <2>1, <2>2, ConstantTypes DEF IInv, RefreshIsRecent
<1>3. ASSUME NEW c \in Callers, SettlesUnasked(c) PROVE RefreshIsRecent'
  <2>1. begun' = begun /\ resolved \in [Callers -> Seq(Times)]
    BY IInv, <1>3 DEF SettlesUnasked, Settles, IInv, TypeOK
  <2>2. CASE resolved' = resolved
    BY IInv, <2>1, <2>2 DEF IInv, RefreshIsRecent
  <2>3. ASSUME NEW a \in Times, Usable(c, a), resolved' = [resolved EXCEPT ![c] = Append(@, a)]
        PROVE  RefreshIsRecent'
    <3> SUFFICES ASSUME NEW d \in Refreshers, NEW i \in DOMAIN resolved'[d]
                 PROVE  resolved'[d][i] >= begun[d] - MaxLookup
      BY <2>1 DEF RefreshIsRecent
    <3>1. d \in Callers
      BY ConstantTypes
    <3>2. CASE d # c
      BY IInv, <2>1, <2>3, <3>1, <3>2 DEF IInv, RefreshIsRecent
    <3>3. CASE d = c
      <4>1. resolved'[d] = Append(resolved[d], a) /\ resolved[d] \in Seq(Times)
        BY <2>1, <2>3, <3>1, <3>3
      <4>2. i \in 1..(Len(resolved[d]) + 1)
        BY <4>1
      <4>3. CASE i = Len(resolved[d]) + 1
        BY <2>3, <3>3, <4>1, <4>3 DEF Usable
      <4>4. CASE i \in 1..Len(resolved[d])
        <5>1. i \in DOMAIN resolved[d] /\ resolved'[d][i] = resolved[d][i]
          BY <4>1, <4>4
        <5> QED
          BY IInv, <5>1 DEF IInv, RefreshIsRecent
      <4> QED
        BY <4>1, <4>2, <4>3, <4>4
    <3> QED
      BY <3>2, <3>3
  <2> QED
    BY <1>3, <2>2, <2>3 DEF SettlesUnasked, Settles
<1>4. ASSUME NEW c \in Callers, Ask(c) PROVE RefreshIsRecent'
  BY <1>4 DEF Ask, IInv, RefreshIsRecent
<1>5. ASSUME NEW c \in Callers, DNSAnswers(c) PROVE RefreshIsRecent'
  BY <1>5 DEF DNSAnswers, IInv, RefreshIsRecent, historyVars
<1>6. ASSUME NEW c \in Callers, SettlesAnswered(c) PROVE RefreshIsRecent'
  <2>1. begun' = begun /\ resolved \in [Callers -> Seq(Times)]
    BY IInv, <1>6 DEF SettlesAnswered, Settles, IInv, TypeOK
  <2>2. CASE resolved' = resolved
    BY IInv, <2>1, <2>2 DEF IInv, RefreshIsRecent
  <2>3. ASSUME NEW a \in Times, Usable(c, a), resolved' = [resolved EXCEPT ![c] = Append(@, a)]
        PROVE  RefreshIsRecent'
    <3> SUFFICES ASSUME NEW d \in Refreshers, NEW i \in DOMAIN resolved'[d]
                 PROVE  resolved'[d][i] >= begun[d] - MaxLookup
      BY <2>1 DEF RefreshIsRecent
    <3>1. d \in Callers
      BY ConstantTypes
    <3>2. CASE d # c
      BY IInv, <2>1, <2>3, <3>1, <3>2 DEF IInv, RefreshIsRecent
    <3>3. CASE d = c
      <4>1. resolved'[d] = Append(resolved[d], a) /\ resolved[d] \in Seq(Times)
        BY <2>1, <2>3, <3>1, <3>3
      <4>2. i \in 1..(Len(resolved[d]) + 1)
        BY <4>1
      <4>3. CASE i = Len(resolved[d]) + 1
        BY <2>3, <3>3, <4>1, <4>3 DEF Usable
      <4>4. CASE i \in 1..Len(resolved[d])
        <5>1. i \in DOMAIN resolved[d] /\ resolved'[d][i] = resolved[d][i]
          BY <4>1, <4>4
        <5> QED
          BY IInv, <5>1 DEF IInv, RefreshIsRecent
      <4> QED
        BY <4>1, <4>2, <4>3, <4>4
    <3> QED
      BY <3>2, <3>3
  <2> QED
    BY <1>6, <2>2, <2>3 DEF SettlesAnswered, Settles
<1>7. ASSUME NEW c \in Callers, Wake(c) PROVE RefreshIsRecent'
  BY <1>7 DEF Wake, IInv, RefreshIsRecent, historyVars
<1>8. CASE Tick
  BY <1>8 DEF Tick, IInv, RefreshIsRecent, callVars, historyVars
<1>9. CASE UNCHANGED vars
  BY <1>9 DEF vars, IInv, RefreshIsRecent, callVars, historyVars
<1> QED
  BY <1>1, <1>2, <1>3, <1>4, <1>5, <1>6, <1>7, <1>8, <1>9, SettlesWithoutLookup,
     SettlesAfterLookup DEF Next, ResolveName

-----------------------------------------------------------------------------
(* Theorems *)

(* What every reachable state satisfies. *)
THEOREM ResolverInvariant == Spec => []IInv
<1>1. Init => IInv
  BY ConstantTypes
  DEF Init, IInv, TypeOK, Times, CallsInOrder, CallInOrder, LookupsAreShort,
      EntriesAreRecent, StoredSinceRefresh, RefreshIsRecent
<1>2. IInv /\ [Next]_vars => IInv'
  BY TypeStep, OrderStep, LookupStep, EntriesStep, SinceStep, RecentStep DEF IInv
<1> QED
  BY <1>1, <1>2, PTL DEF Spec

(* The variables keep their types: no call runs past the list of names or   *)
(* asks more often than MaxRetries allows.                                  *)
THEOREM ResolverTypeCorrect == Spec => []TypeOK
<1>1. IInv => TypeOK
  BY DEF IInv
<1> QED
  BY <1>1, ResolverInvariant, PTL

(* Whichever way a call gets an answer, it is at most one RefreshInterval   *)
(* and one lookup old when it does.                                         *)
THEOREM ResolverStaleAtMost == Spec => StaleAtMost
<1>1. ASSUME IInv, [Next]_vars, NEW c \in Callers, Len(resolved'[c]) > Len(resolved[c])
      PROVE  now - Last(resolved'[c]) <= RefreshInterval + MaxLookup
  <2>1. resolved \in [Callers -> Seq(Times)]
    BY <1>1 DEF IInv, TypeOK
  <2>2. ASSUME NEW d \in Callers, Settles(d)
        PROVE  now - Last(resolved'[c]) <= RefreshInterval + MaxLookup
    <3>1. resolved' # resolved
      BY <1>1, <2>1
    <3>2. PICK a \in Times :
              Usable(d, a) /\ resolved' = [resolved EXCEPT ![d] = Append(@, a)]
      BY <2>2, <3>1 DEF Settles
    <3>3. c = d
      BY <1>1, <2>1, <3>2
    <3>4. resolved'[c] = Append(resolved[c], a) /\ resolved[c] \in Seq(Times)
      BY <2>1, <3>2, <3>3
    <3>5. Last(resolved'[c]) = a
      BY <3>4 DEF Last
    <3> QED
      BY <3>2, <3>5 DEF Usable
  <2>3. ASSUME resolved' = resolved PROVE FALSE
    BY <1>1, <2>1, <2>3
  <2>4. ASSUME NEW d \in Callers,
               Begin(d) \/ Refresh(d) \/ Ask(d) \/ DNSAnswers(d) \/ Wake(d)
        PROVE  resolved' = resolved
    BY <2>4 DEF Begin, Refresh, Ask, DNSAnswers, Wake
  <2>5. CASE Tick \/ UNCHANGED vars
    BY <2>3, <2>5 DEF Tick, vars, callVars
  <2> QED
    BY <1>1, <2>2, <2>3, <2>4, <2>5, SettlesWithoutLookup, SettlesAfterLookup
    DEF Next, ResolveName, SettlesUnasked, SettlesAnswered
<1>2. IInv /\ [Next]_vars
        => [\A c \in Callers :
              Len(resolved'[c]) > Len(resolved[c])
                => now - Last(resolved'[c]) <= RefreshInterval + MaxLookup]_vars
  BY <1>1
<1> QED
  BY <1>2, ResolverInvariant, PTL DEF Spec, StaleAtMost

(* A RefreshDNS is given nothing older than the lookups it may have met. *)
THEOREM ResolverRefreshIsRecent == Spec => []RefreshIsRecent
<1>1. IInv => RefreshIsRecent
  BY DEF IInv
<1> QED
  BY <1>1, ResolverInvariant, PTL
===========================================================================
