----------------------------- MODULE TokenSource -----------------------------
(***************************************************************************)
(* CachingTokenSource around an EndpointTokenSource (token_source.cpp,     *)
(* token_source_json.cpp, token_source_jwt.cpp, token_source_http.cpp).    *)
(* Every fetch() runs on a thread of its own, which holds the mutex of the *)
(* cache while it asks the token server; invalidate() and                  *)
(* cachedResponse() wait for it.  DevelopmentTokenSource is an endpoint    *)
(* with another URL and a header.                                          *)
(*                                                                         *)
(* Optional strings are "absent", "empty" or a value.  A token is its      *)
(* number, the request it was issued for and its claims; seconds are       *)
(* counted in units of the expiry buffer of one minute.                    *)
(***************************************************************************)
EXTENDS Integers, FiniteSets

CONSTANTS
  FetchCalls,        \* the calls of fetch()
  OptionsSet,        \* the TokenRequestOptions that are asked for
  Timeout,           \* the timeout of the endpoint in milliseconds, which may be 0 or negative
  MaxClock,          \* bound on the clock
  MaxInvalidations   \* bound on the calls of invalidate()

OptionFields == {"room_name", "participant_name", "participant_attributes", "agent_name", "agent_deployment"}
AgentFields == {"agent_name", "agent_deployment"}
NoCaller == "nobody"

ASSUME TokenSourceAssumption ==
  /\ NoCaller \notin FetchCalls
  /\ IsFiniteSet(FetchCalls) /\ IsFiniteSet(OptionsSet)
  /\ \A o \in OptionsSet : DOMAIN o = OptionFields
  /\ Timeout \in Int /\ MaxClock \in Nat /\ MaxInvalidations \in Nat

kExpiryBuffer == 1
kDefaultTimeoutMs == 30000
NoToken == [id |-> 0]
NoClaim == -1

VARIABLES
  cache_mutex,       \* the call that holds mutex_
  cached,            \* cached_options_ and cached_details_, as a set of at most one entry
  fetching,          \* per call, its next step
  asked,             \* per call, its snapshot of the options
  outcome,           \* per call, what its future holds
  system_clock,
  tokens,            \* how many tokens the server has issued
  invalidating,      \* is a call of invalidate() waiting?
  invalidations,
  stale,             \* history: per call, the tokens issued before an invalidate() that returned before it
  served_at          \* history: per call, the time at which its token came out of the cache

tokenCache == <<cache_mutex, cached>>
fetchVars == <<fetching, asked, outcome, stale, served_at>>
tokenVars == <<tokenCache, fetchVars, system_clock, tokens, invalidating, invalidations>>

NoOutcome == [kind |-> "none", token |-> NoToken]

TokenInit ==
  /\ cache_mutex = NoCaller /\ cached = {}
  /\ fetching = [c \in FetchCalls |-> "no"]
  /\ asked = [c \in FetchCalls |-> CHOOSE o \in OptionsSet : TRUE]
  /\ outcome = [c \in FetchCalls |-> NoOutcome]
  /\ system_clock = 0
  /\ tokens = 0
  /\ invalidating = FALSE /\ invalidations = 0
  /\ stale = [c \in FetchCalls |-> 0]
  /\ served_at = [c \in FetchCalls |-> -1]

-----------------------------------------------------------------------------
(* The request, its answer, and the token *)

Given(v) == v \notin {"absent", "empty"}

\* buildTokenSourceRequestJson(): empty strings are left out; an agent is described as soon as
\* one of its fields is present, if only by an empty string.
BuildTokenSourceRequestJson(options) ==
  [fields |-> {<<f, options[f]>> : f \in {g \in OptionFields : Given(options[g])}},
   agent |-> \E f \in AgentFields : options[f] # "absent"]

\* Mutant of TokenRequestOptionsEqual: a field is forgotten.
OptionsEqualButDeployment(a, b) == \A f \in OptionFields \ {"agent_deployment"} : a[f] = b[f]

TokenRequestOptionsEqual(a, b) == \A f \in OptionFields : a[f] = b[f]

\* isParticipantTokenValid(): a token that cannot be decoded is not valid, a missing claim does
\* not limit it.
IsParticipantTokenValid(token) ==
  /\ token.decodable
  /\ token.nbf # NoClaim => token.nbf <= system_clock
  /\ token.exp # NoClaim => token.exp > system_clock + kExpiryBuffer

\* readStringField(): the first spelling with a non-empty string.
ReadStringField(spellings) ==
  \E k \in {"snake_case", "camelCase"} : spellings[k] = "value"

\* parseTokenSourceResponseJson() of a body with these two fields, each under two spellings.
ParseTokenSourceResponseJson(body) == ReadStringField(body.server_url) /\ ReadStringField(body.participant_token)

\* tokenSourceHttpRequest(): the transport succeeds and the status is 2xx.
HttpRequestSucceeds(answer) == answer.performed /\ answer.status >= 200 /\ answer.status < 300

Spellings == {[snake_case |-> "absent", camelCase |-> "value"], [snake_case |-> "value", camelCase |-> "empty"],
              [snake_case |-> "empty", camelCase |-> "absent"]}
Bodies == [server_url : Spellings, participant_token : Spellings]
HttpAnswers == [performed : BOOLEAN, status : {199, 200, 299, 300}, body : Bodies]

\* What the payload of a token says; one that is not a JWT with a JSON object says nothing.
Claims ==
  {[decodable |-> TRUE, nbf |-> n, exp |-> e] : n \in {NoClaim, 1}, e \in {NoClaim} \cup 1 .. MaxClock + 1}
    \cup {[decodable |-> FALSE, nbf |-> NoClaim, exp |-> NoClaim]}

\* fetchSync()
FetchSyncSucceeds(answer) == HttpRequestSucceeds(answer) /\ ParseTokenSourceResponseJson(answer.body)

\* Mutant of EffectiveTimeoutMs: the timeout is passed on as it is.
RawTimeoutMs == Timeout

EffectiveTimeoutMs == IF Timeout > 0 THEN Timeout ELSE kDefaultTimeoutMs

-----------------------------------------------------------------------------
(* CachingTokenSource *)

Fetch(c, options) ==
  /\ fetching[c] = "no"
  /\ fetching' = [fetching EXCEPT ![c] = "lock"]
  /\ asked' = [asked EXCEPT ![c] = options]
  /\ UNCHANGED <<tokenCache, outcome, stale, served_at, system_clock, tokens, invalidating, invalidations>>

\* std::async() throws: the future is ready and holds the failure.
FetchNotStarted(c) ==
  /\ fetching[c] = "lock"
  /\ fetching' = [fetching EXCEPT ![c] = "done"]
  /\ outcome' = [outcome EXCEPT ![c] = [kind |-> "failure", token |-> NoToken]]
  /\ UNCHANGED <<tokenCache, asked, stale, served_at, system_clock, tokens, invalidating, invalidations>>

CacheServes(c, entry) ==
  entry \in cached /\ TokenRequestOptionsEqual(entry.options, asked[c]) /\ IsParticipantTokenValid(entry.token)

FetchCached(c) ==
  /\ fetching[c] = "lock" /\ cache_mutex = NoCaller
  /\ \E entry \in cached :
       CacheServes(c, entry) /\ outcome' = [outcome EXCEPT ![c] = [kind |-> "success", token |-> entry.token]]
  /\ fetching' = [fetching EXCEPT ![c] = "done"]
  /\ served_at' = [served_at EXCEPT ![c] = system_clock]
  /\ UNCHANGED <<tokenCache, asked, stale, system_clock, tokens, invalidating, invalidations>>

\* Mutant of FetchInner: the mutex is not kept during the inner fetch.
FetchInnerUnlocked(c) ==
  /\ fetching[c] = "lock" /\ cache_mutex = NoCaller
  /\ ~\E entry \in cached : CacheServes(c, entry)
  /\ fetching' = [fetching EXCEPT ![c] = "inner"]
  /\ UNCHANGED <<tokenCache, asked, outcome, stale, served_at, system_clock, tokens, invalidating, invalidations>>

FetchInner(c) ==
  /\ fetching[c] = "lock" /\ cache_mutex = NoCaller
  /\ ~\E entry \in cached : CacheServes(c, entry)
  /\ cache_mutex' = c
  /\ fetching' = [fetching EXCEPT ![c] = "inner"]
  /\ UNCHANGED <<cached, asked, outcome, stale, served_at, system_clock, tokens, invalidating, invalidations>>

InnerResult(c, kind, token) ==
  /\ fetching[c] = "inner"
  /\ outcome' = [outcome EXCEPT ![c] = [kind |-> kind, token |-> token]]
  /\ fetching' = [fetching EXCEPT ![c] = "store"]
  /\ UNCHANGED <<tokenCache, asked, stale, served_at, system_clock, invalidating, invalidations>>

\* The server's answer to the request that the call sent makes the future of the endpoint ready.
ServerAnswers(c, answer) ==
  IF FetchSyncSucceeds(answer)
  THEN /\ tokens' = tokens + 1
       /\ \E claims \in Claims :
            InnerResult(c, "success", [id |-> tokens + 1, request |-> BuildTokenSourceRequestJson(asked[c]),
                                       decodable |-> claims.decodable, nbf |-> claims.nbf, exp |-> claims.exp])
  ELSE InnerResult(c, "failure", NoToken) /\ UNCHANGED tokens

\* The server does not answer; curl gives up, if it has been given a timeout.
ServerSilent(c) ==
  /\ EffectiveTimeoutMs > 0
  /\ InnerResult(c, "failure", NoToken)
  /\ UNCHANGED tokens

\* A success is cached and returned; a failure, or an exception, is returned.
FetchStore(c) ==
  /\ fetching[c] = "store"
  /\ cache_mutex' = NoCaller
  /\ cached' = IF outcome[c].kind = "success" THEN {[options |-> asked[c], token |-> outcome[c].token]} ELSE cached
  /\ fetching' = [fetching EXCEPT ![c] = "done"]
  /\ UNCHANGED <<asked, outcome, stale, served_at, system_clock, tokens, invalidating, invalidations>>

InvalidateCalled ==
  /\ ~invalidating /\ invalidations < MaxInvalidations
  /\ invalidating' = TRUE /\ invalidations' = invalidations + 1
  /\ UNCHANGED <<tokenCache, fetchVars, system_clock, tokens>>

Invalidate ==
  /\ invalidating /\ cache_mutex = NoCaller
  /\ invalidating' = FALSE
  /\ cached' = {}
  /\ stale' = [c \in FetchCalls |-> IF fetching[c] = "no" THEN tokens ELSE stale[c]]
  /\ UNCHANGED <<cache_mutex, fetching, asked, outcome, served_at, system_clock, tokens, invalidations>>

Tick ==
  /\ system_clock < MaxClock
  /\ system_clock' = system_clock + 1
  /\ UNCHANGED <<tokenCache, fetchVars, tokens, invalidating, invalidations>>

-----------------------------------------------------------------------------
Locking(c) == FetchCached(c) \/ FetchInner(c)

TokenNext ==
  \/ \E c \in FetchCalls :
       \/ \E o \in OptionsSet : Fetch(c, o)
       \/ FetchNotStarted(c) \/ Locking(c) \/ ServerSilent(c) \/ FetchStore(c)
       \/ \E answer \in HttpAnswers : ServerAnswers(c, answer)
  \/ InvalidateCalled \/ Invalidate \/ Tick

\* Threads run on and a mutex is not kept from a thread for ever (with finitely many calls that is
\* weak fairness); the server may be silent.
TokenFairness ==
  /\ \A c \in FetchCalls : WF_tokenVars(Locking(c)) /\ WF_tokenVars(ServerSilent(c)) /\ WF_tokenVars(FetchStore(c))
  /\ WF_tokenVars(Invalidate)

TokenSpec == TokenInit /\ [][TokenNext]_tokenVars

-----------------------------------------------------------------------------
(* Properties *)

\* A token is returned for the request it was issued for, whatever was asked for in between; and
\* a cached one is valid, and stays so for the buffer.
TokensMatchRequests ==
  \A c \in FetchCalls :
    LET t == outcome[c].token IN
    outcome[c].kind = "success" =>
      /\ t.request = BuildTokenSourceRequestJson(asked[c])
      /\ served_at[c] >= 0 /\ t.exp # NoClaim => t.exp > served_at[c] + 1

\* A call of fetch() that begins after invalidate() has returned does not get a token that was
\* issued before that.
InvalidateForcesFetch ==
  \A c \in FetchCalls : outcome[c].kind = "success" => outcome[c].token.id > stale[c]

\* Every future becomes ready and invalidate() returns, also if the token server never answers.
FetchesEnd ==
  /\ \A c \in FetchCalls : fetching[c] = "lock" ~> fetching[c] = "done"
  /\ invalidating ~> ~invalidating
=============================================================================
