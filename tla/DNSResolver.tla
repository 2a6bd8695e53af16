----------------------------- MODULE DNSResolver -----------------------------
(***************************************************************************)
(* The resolver of one client: ResolveNameServers takes the configured     *)
(* names in turn, asks the DNS for each of them with retries, and shares a *)
(* cache of answers, failures included, with every other call.  RefreshDNS *)
(* clears that cache first.  An answer stands for the time at which the    *)
(* DNS gave it.  Caching is on, as in every configuration of the           *)
(* repository; a goroutine that can run is not held up for a tick.         *)
(***************************************************************************)
EXTENDS Integers, Sequences, SequencesExt

CONSTANTS
    NameServers,        \* the configured names, a sequence
    Kind,               \* of each: "host", "address" or "malformed"
    Callers,            \* calls of ResolveNameServers
    Refreshers,         \* those that RefreshDNS makes
    MaxRetries, RetryInterval, RefreshInterval,     \* DNSConfig
    MaxLookup,          \* assumed: the time a lookup takes at most
    MaxTime             \* bound on the clock

Names == Range(NameServers)

ASSUME ResolverAssumption ==
    /\ NameServers # <<>> /\ NameServers \in Seq(Names)
    /\ Kind \in [Names -> {"host", "address", "malformed"}]
    /\ Refreshers \subseteq Callers
    /\ {MaxRetries, RetryInterval, RefreshInterval, MaxLookup, MaxTime} \subseteq Nat

Times == 0..MaxTime
Entries == [ok : BOOLEAN, asOf : Times, resolveTime : Times]
NoEntry == [ok |-> FALSE, asOf |-> 0, resolveTime |-> -1]

VARIABLES
    now,
    cache,          \* DNSResolver.cache
    pc,             \* where each call is
    at,             \* the position of the name it is resolving
    attempt,        \* i of ResolveWithRetry
    timer,          \* when its lookup began, or when its sleep ends
    answer,         \* what its lookup has got from the DNS
    resolved,       \* the answers it has collected
    begun,          \* history: when it began
    asked           \* history: how often it has asked the DNS for this name

callVars == <<pc, at, attempt, timer, answer, resolved>>
historyVars == <<begun, asked>>
vars == <<now, cache, callVars, historyVars>>

TypeOK ==
    /\ now \in Times
    /\ cache \in [Names -> Entries \cup {NoEntry}]
    /\ pc \in [Callers -> {"idle", "resolving", "asking", "answered", "sleeping", "done"}]
    /\ at \in [Callers -> 1..(Len(NameServers) + 1)]
    /\ attempt \in [Callers -> 0..MaxRetries]
    /\ timer \in [Callers -> Nat]
    /\ answer \in [Callers -> [ok : BOOLEAN, asOf : Times]]
    /\ resolved \in [Callers -> Seq(Times)]
    /\ begun \in [Callers -> Times]
    /\ asked \in [Callers -> 0..(MaxRetries + 1)]

Init ==
    /\ now = 0
    /\ cache = [n \in Names |-> NoEntry]
    /\ pc = [c \in Callers |-> "idle"]
    /\ at = [c \in Callers |-> 1]
    /\ attempt = [c \in Callers |-> 0]
    /\ timer = [c \in Callers |-> 0]
    /\ answer = [c \in Callers |-> [ok |-> FALSE, asOf |-> 0]]
    /\ resolved = [c \in Callers |-> <<>>]
    /\ begun = [c \in Callers |-> 0]
    /\ asked = [c \in Callers |-> 0]

-----------------------------------------------------------------------------
Name(c) == NameServers[at[c]]

Resolving(c, kind) == pc[c] = "resolving" /\ Kind[Name(c)] = kind

(* Slip: an entry is served for one tick too long. *)
FreshTooLong(n) ==
    cache[n] # NoEntry /\ now - cache[n].resolveTime <= RefreshInterval + 1

(* getCachedResult finds an entry that has not expired. *)
Fresh(n) == cache[n] # NoEntry /\ now - cache[n].resolveTime <= RefreshInterval

(* On to the next name, or, after the last, back to the caller. *)
NextName(c) ==
    /\ at' = [at EXCEPT ![c] = @ + 1]
    /\ attempt' = [attempt EXCEPT ![c] = 0]
    /\ pc' = [pc EXCEPT ![c] = IF at[c] = Len(NameServers) THEN "done" ELSE "resolving"]
    /\ asked' = [asked EXCEPT ![c] = 0]
    /\ UNCHANGED timer

Succeed(c, asOf) ==
    /\ NextName(c)
    /\ resolved' = [resolved EXCEPT ![c] = Append(@, asOf)]

(* Slip: one retry too many. *)
RetryAlways(c) ==
    /\ attempt' = [attempt EXCEPT ![c] = @ + 1]
    /\ timer' = [timer EXCEPT ![c] = now + (attempt[c] + 1) * RetryInterval]
    /\ pc' = [pc EXCEPT ![c] = "sleeping"]
    /\ UNCHANGED <<at, asked>>

(* Sleep and try again, a little longer each time, or give this name up. *)
Retry(c) ==
    /\ attempt[c] < MaxRetries
    /\ attempt' = [attempt EXCEPT ![c] = @ + 1]
    /\ timer' = [timer EXCEPT ![c] = now + (attempt[c] + 1) * RetryInterval]
    /\ pc' = [pc EXCEPT ![c] = "sleeping"]
    /\ UNCHANGED <<at, asked>>

GiveUp(c) == attempt[c] = MaxRetries /\ NextName(c)

Fail(c) == (Retry(c) \/ GiveUp(c)) /\ UNCHANGED resolved

-----------------------------------------------------------------------------
(* Slips: operations as a plausible bug would leave them, for the           *)
(* properties to catch.                                                     *)

(* RefreshDNS does not clear the cache. *)
RefreshKeepsCache(c) ==
    /\ c \in Refreshers
    /\ pc[c] = "idle"
    /\ pc' = [pc EXCEPT ![c] = "resolving"]
    /\ begun' = [begun EXCEPT ![c] = now]
    /\ UNCHANGED <<now, cache, at, attempt, timer, answer, resolved, asked>>

-----------------------------------------------------------------------------
(* ResolveNameServers for NewAdminClient: the cache is used as it is.  The   *)
(* one of Register goes the same way, before anybody else has the resolver.  *)
Begin(c) ==
    /\ c \notin Refreshers
    /\ pc[c] = "idle"
    /\ pc' = [pc EXCEPT ![c] = "resolving"]
    /\ begun' = [begun EXCEPT ![c] = now]
    /\ UNCHANGED <<now, cache, at, attempt, timer, answer, resolved, asked>>

(* RefreshDNS: ClearCache, then ResolveNameServers.  The result is not kept. *)
Refresh(c) ==
    /\ c \in Refreshers
    /\ pc[c] = "idle"
    /\ pc' = [pc EXCEPT ![c] = "resolving"]
    /\ begun' = [begun EXCEPT ![c] = now]
    /\ cache' = [n \in Names |-> NoEntry]
    /\ UNCHANGED <<now, at, attempt, timer, answer, resolved, asked>>

(* ResolveName *)

RejectMalformed(c) ==
    /\ Resolving(c, "malformed")
    /\ Fail(c)
    /\ UNCHANGED <<now, cache, answer, begun>>

TakeAddress(c) ==
    /\ Resolving(c, "address")
    /\ Succeed(c, now)
    /\ UNCHANGED <<now, cache, answer, begun>>

ServeCached(c) ==
    /\ Resolving(c, "host")
    /\ Fresh(Name(c))
    /\ IF cache[Name(c)].ok THEN Succeed(c, cache[Name(c)].asOf) ELSE Fail(c)
    /\ UNCHANGED <<now, cache, answer, begun>>

(* doResolve: net.LookupIP is called, ... *)
Ask(c) ==
    /\ Resolving(c, "host")
    /\ ~Fresh(Name(c))
    /\ pc' = [pc EXCEPT ![c] = "asking"]
    /\ timer' = [timer EXCEPT ![c] = now]
    /\ asked' = [asked EXCEPT ![c] = @ + 1]
    /\ UNCHANGED <<now, cache, at, attempt, answer, resolved, begun>>

(* ... the DNS answers, ... *)
DNSAnswers(c) ==
    /\ pc[c] = "asking"
    /\ pc' = [pc EXCEPT ![c] = "answered"]
    /\ \E ok \in BOOLEAN : answer' = [answer EXCEPT ![c] = [ok |-> ok, asOf |-> now]]
    /\ UNCHANGED <<now, cache, at, attempt, timer, resolved, historyVars>>

(* ... and, perhaps later, the answer is here: setCachedResult. *)
Store(c) ==
    /\ pc[c] = "answered"
    /\ cache' = [cache EXCEPT ![Name(c)] =
                    [ok |-> answer[c].ok, asOf |-> answer[c].asOf, resolveTime |-> now]]
    /\ IF answer[c].ok THEN Succeed(c, answer[c].asOf) ELSE Fail(c)
    /\ UNCHANGED <<now, answer, begun>>

Wake(c) ==
    /\ pc[c] = "sleeping"
    /\ now >= timer[c]
    /\ pc' = [pc EXCEPT ![c] = "resolving"]
    /\ UNCHANGED <<now, cache, at, attempt, timer, answer, resolved, historyVars>>

(* Time passes, but not while a goroutine can run. *)
Tick ==
    /\ now < MaxTime
    /\ \A c \in Callers :
         /\ pc[c] # "resolving"
         /\ pc[c] \in {"asking", "answered"} => now < timer[c] + MaxLookup
         /\ pc[c] = "sleeping" => now < timer[c]
    /\ now' = now + 1
    /\ UNCHANGED <<cache, callVars, historyVars>>

-----------------------------------------------------------------------------
ResolveName(c) ==
    \/ RejectMalformed(c) \/ TakeAddress(c) \/ ServeCached(c)
    \/ Ask(c) \/ DNSAnswers(c) \/ Store(c)

Next ==
    \/ Tick
    \/ \E c \in Callers : Begin(c) \/ Refresh(c) \/ ResolveName(c) \/ Wake(c)

Spec == Init /\ [][Next]_vars

-----------------------------------------------------------------------------
(* Properties *)

(* Whatever other calls wrote to the cache, and whenever, an answer is      *)
(* never older when it is used than one RefreshInterval and one lookup.     *)
StaleAtMost ==
    [][\A c \in Callers :
         Len(resolved'[c]) > Len(resolved[c])
           => now - Last(resolved'[c]) <= RefreshInterval + MaxLookup]_vars

(* RefreshDNS may be given an answer from before it cleared the cache, by a *)
(* lookup that was under way then, but none older than that lookup.         *)
RefreshIsRecent ==
    \A c \in Refreshers :
        \A i \in DOMAIN resolved[c] : resolved[c][i] >= begun[c] - MaxLookup

(* What the documentation promises: a host name that is not resolved is     *)
(* retried, so none is given up before the DNS was asked for it again.  The *)
(* code caches the failure, and its retries read it back.                   *)
RetriesAskAgain ==
    [][\A c \in Callers :
         at'[c] # at[c] /\ resolved'[c] = resolved[c] /\ Kind[Name(c)] = "host"
           => asked[c] > 1]_vars
=============================================================================
