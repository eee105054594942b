---------------------------- MODULE ApiClientProofs ----------------------------
(***************************************************************************)
(* The token cache of ApiClient, for every lifetime, buffer and lag that   *)
(* its assumptions allow, and any number of overlapping calls.             *)
(*                                                                         *)
(* The argument is about times only (Timing): what the cache calls fresh   *)
(* ends a buffer before the token does, give or take the lag of the        *)
(* answer; a token just adopted is no older than that lag; so the lag of   *)
(* the call itself still fits in.                                          *)
(***************************************************************************)
EXTENDS ApiClient, TLAPS

\* the cached token outlives what the cache says of it by at least one lag
CacheInTime ==
  cache # None => cache.expiresAt + Lag <= cache.token.born + Lifetime

\* messages under way left no longer than Lag ago
InTime(c) ==
  /\ call[c].step \in {"grant", "send"} => call[c].since <= now /\ now <= call[c].since + Lag
  /\ At(c, "grant") => /\ call[c].token \in Tokens
                       /\ call[c].token.born = call[c].since
                       /\ call[c].answer \in Answers
  /\ At(c, "send")  => /\ call[c].token \in Tokens
                       /\ call[c].since + Lag < call[c].token.born + Lifetime

\* a token of an earlier key was issued before the key changed
Aged(t) == t.born <= now /\ (t.key # key => t.born <= rekeyed)

Ages == /\ cache # None => Aged(cache.token)
        /\ \A c \in Calls : call[c].token # None => Aged(call[c].token)

Timing == /\ CacheInTime
          /\ \A c \in Calls : InTime(c)
          /\ AdoptsYoungToken

Inv == TypeOK /\ Timing /\ Ages

-----------------------------------------------------------------------------
LEMMA CallTypes ==
  /\ Idle \in Call
  /\ \A s \in Steps : [Idle EXCEPT !.step = s] \in Call
  /\ \A t \in Tokens, n \in Nat :
       [Idle EXCEPT !.step = "send", !.token = t, !.since = n] \in Call
  BY DEF Idle, Call, Steps

LEMMA TypeStep ==
  ASSUME TypeOK, Timing, [Next]_vars
  PROVE  TypeOK'
<1> USE DEF TypeOK
<1>0. now \in Nat /\ key \in Nat
  BY TimesAssumption
<1>1. ASSUME NEW c \in Calls, Begin(c)
      PROVE  TypeOK'
  <2>1. cache # None => cache.token \in Tokens
    OBVIOUS
  <2>2. CASE Fresh
    <3>1. call' = [call EXCEPT ![c] = [Idle EXCEPT !.step = "send", !.token = cache.token, !.since = now]]
      BY <1>1, <2>2 DEF Begin, Send
    <3>2. call' \in [Calls -> Call]
      BY <1>0, <2>1, <2>2, <3>1, CallTypes DEF Fresh
    <3> QED
      BY <1>1, <3>2 DEF Begin
  <2>3. CASE ~Fresh
    <3>1. PICK s \in Steps : call' = [call EXCEPT ![c] = [Idle EXCEPT !.step = s]]
      BY <1>1, <2>3 DEF Begin, Goto, Steps
    <3>2. call' \in [Calls -> Call]
      BY <3>1, CallTypes
    <3> QED
      BY <1>1, <3>2 DEF Begin
  <2> QED
    BY <2>2, <2>3
<1>2. ASSUME NEW c \in Calls, NEW found \in BOOLEAN, Discover(c, found)
      PROVE  TypeOK'
  <2>1. call' \in [Calls -> Call]
    BY <1>2, CallTypes DEF Discover, Goto, Steps
  <2> QED
    BY <1>2, <2>1 DEF Discover, Resolved
<1>3. ASSUME NEW c \in Calls, NEW answer \in Answers, Grant(c, answer)
      PROVE  TypeOK'
  <2>1. call' \in [Calls -> Call]
    BY <1>0, <1>3, AnswersAssumption DEF Grant, Call, Tokens, Steps
  <2> QED
    BY <1>3, <2>1 DEF Grant
<1>4. ASSUME NEW c \in Calls, Receive(c)
      PROVE  TypeOK'
  <2>1. Promised(call[c].answer) \in Int
    BY TimesAssumption DEF Promised
  <2>2. call[c].token \in Tokens
    BY <1>4 DEF Receive, Timing, InTime
  <2>3. cache' \in [token : Tokens, expiresAt : Int]
    BY <1>0, <1>4, <2>1, <2>2, TimesAssumption DEF Receive
  <2> QED
    BY <1>4, <2>3, CallTypes DEF Receive, Goto, Steps
<1>5. ASSUME NEW c \in Calls, Adopt(c)
      PROVE  TypeOK'
  <2>1. cache.token \in Tokens
    BY <1>5 DEF Adopt, Timing, AdoptsYoungToken
  <2> QED
    BY <1>0, <1>5, <2>1, CallTypes DEF Adopt, Send
<1>6. ASSUME NEW c \in Calls, Finish(c) \/ Fail(c)
      PROVE  TypeOK'
  BY <1>6, CallTypes DEF Finish, Fail, Goto, Steps
<1>7. CASE Rekey
  BY <1>0, <1>7, TimesAssumption DEF Rekey
<1>8. CASE Tick
  BY <1>0, <1>8, TimesAssumption DEF Tick
<1>9. CASE UNCHANGED vars
  BY <1>9 DEF vars
<1> QED
  BY <1>1, <1>2, <1>3, <1>4, <1>5, <1>6, <1>7, <1>8, <1>9 DEF Next

LEMMA TimingStep ==
  ASSUME TypeOK, Timing, [Next]_vars
  PROVE  Timing'
<1> USE TimesAssumption DEF TypeOK
<1>0. now \in Nat /\ Lag \in Nat /\ Lifetime \in Nat /\ Buffer \in Nat
  OBVIOUS
<1>1. ASSUME NEW c \in Calls, Begin(c)
      PROVE  Timing'
  <2>1. /\ now' = now /\ cache' = cache
        /\ \A d \in Calls \ {c} : call'[d] = call[d]
    BY <1>1 DEF Begin, Send, Goto
  <2>2. CASE Fresh
    <3>1. call'[c] = [Idle EXCEPT !.step = "send", !.token = cache.token, !.since = now]
      BY <1>1, <2>2 DEF Begin, Send
    <3>2. cache.token \in Tokens /\ cache.token.born \in Nat /\ cache.expiresAt \in Int
      BY <2>2 DEF Fresh, Tokens
    <3>3. now + Lag < cache.token.born + Lifetime
      BY <1>0, <2>2, <3>2 DEF Fresh, Timing, CacheInTime
    <3>4. /\ call'[c].step = "send" /\ call'[c].token = cache.token /\ call'[c].since = now
      BY <3>1 DEF Idle
    <3>5. InTime(c)'
      BY <1>0, <2>1, <3>2, <3>3, <3>4 DEF InTime, At
    <3> QED
      BY <2>1, <3>4, <3>5 DEF Timing, CacheInTime, InTime, AdoptsYoungToken, At
  <2>3. CASE ~Fresh
    <3>1. call'[c].step \in {"discover", "ask"}
      BY <1>1, <2>3 DEF Begin, Goto, Idle
    <3> QED
      BY <2>1, <3>1 DEF Timing, CacheInTime, InTime, AdoptsYoungToken, At
  <2> QED
    BY <2>2, <2>3
<1>2. ASSUME NEW c \in Calls,
             \/ \E found \in BOOLEAN : Discover(c, found)
             \/ Finish(c) \/ Fail(c)
      PROVE  Timing'
  <2>1. /\ now' = now /\ cache' = cache /\ call'[c].step \in {"ask", "idle"}
        /\ \A d \in Calls \ {c} : call'[d] = call[d]
    BY <1>2 DEF Discover, Finish, Fail, Goto, Idle
  <2> QED
    BY <2>1 DEF Timing, CacheInTime, InTime, AdoptsYoungToken, At
<1>3. ASSUME NEW c \in Calls, NEW answer \in Answers, Grant(c, answer)
      PROVE  Timing'
  <2>1. /\ now' = now /\ cache' = cache
        /\ call'[c] = [step |-> "grant", token |-> [born |-> now, key |-> key],
                       answer |-> answer, since |-> now]
        /\ \A d \in Calls \ {c} : call'[d] = call[d]
    BY <1>3 DEF Grant
  <2>2. [born |-> now, key |-> key] \in Tokens
    BY <1>0 DEF Tokens
  <2> QED
    BY <1>0, <2>1, <2>2 DEF Timing, CacheInTime, InTime, AdoptsYoungToken, At
<1>4. ASSUME NEW c \in Calls, Receive(c)
      PROVE  Timing'
  <2> DEFINE t == call[c].token
             p == Promised(call[c].answer)
  <2>1. /\ t \in Tokens /\ t.born \in Nat /\ now <= t.born + Lag
    <3>1. t \in Tokens /\ t.born = call[c].since /\ now <= call[c].since + Lag
      BY <1>4 DEF Receive, Timing, InTime, At
    <3> QED
      BY <3>1 DEF Tokens
  <2>2. p \in Nat /\ p <= Lifetime
    <3>1. call[c].answer \in Answers
      BY <1>4 DEF Receive, Timing, InTime
    <3>2. CASE call[c].answer = "expires_in"
      BY <1>0, <3>2 DEF Promised
    <3>3. CASE call[c].answer = "silent"
      <4>1. DefaultLifetime \in Nat /\ DefaultLifetime <= Lifetime
        BY <3>1, <3>3, AnswersAssumption
      <4>2. p = DefaultLifetime
        BY <3>3 DEF Promised
      <4> QED
        BY <4>1, <4>2
    <3> QED
      BY <3>1, <3>2, <3>3, AnswersAssumption
  <2>3. /\ now' = now /\ cache' = [token |-> t, expiresAt |-> now + p - Buffer]
        /\ call'[c].step = "adopt"
        /\ \A d \in Calls \ {c} : call'[d] = call[d]
    BY <1>4 DEF Receive, Goto, Idle
  <2>4. CacheInTime'
    BY <1>0, <2>1, <2>2, <2>3, BufferAssumption DEF CacheInTime
  <2>5. cache' # None /\ now' <= cache'.token.born + Lag
    BY <2>1, <2>2, <2>3, <1>0, NoneAssumption
  <2> QED
    BY <2>3, <2>4, <2>5 DEF Timing, InTime, AdoptsYoungToken, At
<1>5. ASSUME NEW c \in Calls, Adopt(c)
      PROVE  Timing'
  <2>1. /\ now' = now /\ cache' = cache
        /\ call'[c] = [Idle EXCEPT !.step = "send", !.token = cache.token, !.since = now]
        /\ \A d \in Calls \ {c} : call'[d] = call[d]
    BY <1>5 DEF Adopt, Send
  <2>2. cache # None /\ now <= cache.token.born + Lag
    BY <1>5 DEF Adopt, Timing, AdoptsYoungToken
  <2>3. cache.token \in Tokens /\ cache.token.born \in Nat
    BY <2>2 DEF Tokens
  <2>4. now + Lag < cache.token.born + Lifetime
    BY <1>0, <2>2, <2>3, BufferAssumption
  <2>5. /\ call'[c].step = "send" /\ call'[c].token = cache.token /\ call'[c].since = now
    BY <2>1 DEF Idle
  <2>6. InTime(c)'
    BY <1>0, <2>1, <2>3, <2>4, <2>5 DEF InTime, At
  <2> QED
    BY <2>1, <2>5, <2>6 DEF Timing, CacheInTime, InTime, AdoptsYoungToken, At
<1>6. CASE Rekey
  BY <1>6 DEF Rekey, Timing, CacheInTime, InTime, AdoptsYoungToken, At
<1>7. CASE Tick
  <2>1. /\ now' = now + 1 /\ cache' = cache /\ call' = call
        /\ \A c \in Calls : /\ call[c].step \in {"grant", "send"} => now < call[c].since + Lag
                            /\ ~At(c, "adopt")
    BY <1>7 DEF Tick
  <2>2. \A c \in Calls : call[c].since \in Nat
    BY DEF Call
  <2> QED
    BY <1>0, <2>1, <2>2 DEF Timing, CacheInTime, InTime, AdoptsYoungToken, At
<1>8. CASE UNCHANGED vars
  BY <1>8 DEF vars, Timing, CacheInTime, InTime, AdoptsYoungToken, At
<1> QED
  BY <1>1, <1>2, <1>3, <1>4, <1>5, <1>6, <1>7, <1>8 DEF Next

\* Tokens in the cache and in the calls keep the age they have; a new key
\* finds them all issued before it.
LEMMA AgesStep ==
  ASSUME TypeOK, Timing, Ages, [Next]_vars
  PROVE  Ages'
<1> USE TimesAssumption DEF TypeOK
<1>0. now \in Nat /\ key \in Nat /\ rekeyed \in Nat /\ rekeyed <= now
  OBVIOUS
<1>1. ASSUME NEW c \in Calls, Begin(c)
      PROVE  Ages'
  <2>1. /\ now' = now /\ key' = key /\ rekeyed' = rekeyed /\ cache' = cache
        /\ \A d \in Calls \ {c} : call'[d] = call[d]
    BY <1>1 DEF Begin, Send, Goto
  <2>2. CASE Fresh
    <3>1. call'[c].token = cache.token
      BY <1>1, <2>2 DEF Begin, Send, Idle
    <3> QED
      BY <2>1, <2>2, <3>1 DEF Ages, Aged, Fresh
  <2>3. CASE ~Fresh
    <3>1. call'[c].token = None
      BY <1>1, <2>3 DEF Begin, Goto, Idle
    <3> QED
      BY <2>1, <3>1 DEF Ages, Aged
  <2> QED
    BY <2>2, <2>3
<1>2. ASSUME NEW c \in Calls,
             \/ \E found \in BOOLEAN : Discover(c, found)
             \/ Finish(c) \/ Fail(c)
      PROVE  Ages'
  <2>1. /\ now' = now /\ key' = key /\ rekeyed' = rekeyed /\ cache' = cache
        /\ call'[c].token = None
        /\ \A d \in Calls \ {c} : call'[d] = call[d]
    BY <1>2 DEF Discover, Finish, Fail, Goto, Idle
  <2> QED
    BY <2>1 DEF Ages, Aged
<1>3. ASSUME NEW c \in Calls, NEW answer \in Answers, Grant(c, answer)
      PROVE  Ages'
  <2>1. /\ now' = now /\ key' = key /\ rekeyed' = rekeyed /\ cache' = cache
        /\ call'[c].token = [born |-> now, key |-> key]
        /\ \A d \in Calls \ {c} : call'[d] = call[d]
    BY <1>3 DEF Grant
  <2> QED
    BY <1>0, <2>1 DEF Ages, Aged
<1>4. ASSUME NEW c \in Calls, Receive(c)
      PROVE  Ages'
  <2>1. call[c].token # None
    BY <1>4, NoneAssumption DEF Receive, Timing, InTime, At
  <2>2. /\ now' = now /\ key' = key /\ rekeyed' = rekeyed
        /\ cache'.token = call[c].token
        /\ call'[c].token = None
        /\ \A d \in Calls \ {c} : call'[d] = call[d]
    BY <1>4 DEF Receive, Goto, Idle
  <2> QED
    BY <2>1, <2>2 DEF Ages, Aged
<1>5. ASSUME NEW c \in Calls, Adopt(c)
      PROVE  Ages'
  <2>1. /\ now' = now /\ key' = key /\ rekeyed' = rekeyed /\ cache' = cache
        /\ call'[c].token = cache.token
        /\ \A d \in Calls \ {c} : call'[d] = call[d]
    BY <1>5 DEF Adopt, Send, Idle
  <2>2. cache # None
    BY <1>5 DEF Adopt, Timing, AdoptsYoungToken
  <2> QED
    BY <2>1, <2>2 DEF Ages, Aged
<1>6. CASE Rekey
  <2>1. rekeyed' = now /\ now' = now /\ cache' = cache /\ call' = call
    BY <1>6 DEF Rekey
  <2> QED
    BY <2>1 DEF Ages, Aged
<1>7. CASE Tick
  <2>1. now' = now + 1 /\ key' = key /\ rekeyed' = rekeyed /\ cache' = cache /\ call' = call
    BY <1>7 DEF Tick
  <2>2. /\ cache # None => cache.token.born \in Nat
        /\ \A c \in Calls : call[c].token # None => call[c].token.born \in Nat
    BY DEF Call, Tokens
  <2> QED
    BY <1>0, <2>1, <2>2 DEF Ages, Aged
<1>8. CASE UNCHANGED vars
  BY <1>8 DEF vars, Ages, Aged
<1> QED
  BY <1>1, <1>2, <1>3, <1>4, <1>5, <1>6, <1>7, <1>8 DEF Next

LEMMA InitInv == Init => Inv
<1> SUFFICES ASSUME Init PROVE Inv
  OBVIOUS
<1> USE TimesAssumption DEF Init
<1>1. TypeOK
  <2>1. now \in 0 .. MaxTime /\ key \in 1 .. Keys /\ rekeyed \in 0 .. now
    OBVIOUS
  <2>2. /\ cache \in [token : Tokens, expiresAt : Int] \cup {None}
        /\ endpoint \in {None, "published", "fallback"}
    OBVIOUS
  <2>3. searched \in 0 .. 2
    OBVIOUS
  <2>4. overlap \in BOOLEAN
    BY Zenon
  <2>5. call \in [Calls -> Call]
    BY CallTypes
  <2> QED
    BY <2>1, <2>2, <2>3, <2>4, <2>5 DEF TypeOK
<1>2. Timing
  BY DEF Timing, CacheInTime, InTime, AdoptsYoungToken, At, Idle
<1>3. Ages
  BY DEF Ages, Idle
<1> QED
  BY <1>1, <1>2, <1>3 DEF Inv

\* The inductive invariant: types, times and ages together.
THEOREM ClientInvariance == Spec => []Inv
<1>1. Inv /\ [Next]_vars => Inv'
  BY TypeStep, TimingStep, AgesStep DEF Inv
<1> QED
  BY InitInv, <1>1, PTL DEF Spec

\* The cache and every call keep their shape (ensureAuthenticated,
\* authenticate).
THEOREM ClientTypeCorrect == Spec => []TypeOK
<1>1. Inv => TypeOK
  BY DEF Inv
<1> QED
  BY ClientInvariance, <1>1, PTL

LEMMA InTimeMeansUnexpired ==
  ASSUME Inv, NEW c \in Calls, At(c, "send")
  PROVE  /\ now \in Nat /\ Lifetime \in Nat
         /\ call[c].token \in Tokens /\ call[c].token.born \in Nat
         /\ now < call[c].token.born + Lifetime
<1>1. now \in Nat /\ Lag \in Nat /\ Lifetime \in Nat
  BY TimesAssumption DEF Inv, TypeOK
<1>2. /\ call[c].token \in Tokens
      /\ now <= call[c].since + Lag
      /\ call[c].since + Lag < call[c].token.born + Lifetime
  BY DEF Inv, Timing, InTime, At
<1>3. call[c].since \in Nat
  BY DEF Inv, TypeOK, Call
<1>4. call[c].token.born \in Nat
  BY <1>2 DEF Tokens
<1> QED
  BY <1>1, <1>2, <1>3, <1>4

\* No call of the client carries a token that ends before it arrives: the
\* buffer of five minutes is enough for any lifetime, any lag within it and
\* any number of overlapping calls.
THEOREM NoStaleToken == Spec => []TokensArriveInTime
<1>1. Inv => TokensArriveInTime
  BY InTimeMeansUnexpired DEF TokensArriveInTime, Expired
<1> QED
  BY ClientInvariance, <1>1, PTL

\* A withdrawn token leaves the client within one lifetime, although nothing
\* in the client ever drops it from the cache.
THEOREM WithdrawnTokensLeave == Spec => []WithdrawnTokensAgeOut
<1>1. Inv => WithdrawnTokensAgeOut
  <2> SUFFICES ASSUME Inv, NEW c \in Calls, At(c, "send"), call[c].token.key # key
               PROVE  now < rekeyed + Lifetime
    BY DEF WithdrawnTokensAgeOut
  <2>1. call[c].token # None
    BY InTimeMeansUnexpired, NoneAssumption
  <2>2. call[c].token.born <= rekeyed
    BY <2>1 DEF Inv, Ages, Aged
  <2>3. rekeyed \in Nat
    BY TimesAssumption DEF Inv, TypeOK
  <2> QED
    BY <2>2, <2>3, InTimeMeansUnexpired
<1> QED
  BY ClientInvariance, <1>1, PTL

\* After authenticate the cache holds a token no older than the lag of its
\* answer, whichever overlapping call wrote it (return this.tokenCache!.token).
THEOREM CacheHoldsYoungToken == Spec => []AdoptsYoungToken
<1>1. Inv => AdoptsYoungToken
  BY DEF Inv, Timing
<1> QED
  BY ClientInvariance, <1>1, PTL
-----------------------------------------------------------------------------
(* Discovery, of a client whose calls do not overlap: one call at a time,  *)
(* and no call on its way to discovery once the endpoint is known.         *)

Busy(c) == ~At(c, "idle")

OneAtATime == \A c, d \in Calls : Busy(c) /\ Busy(d) => c = d

Known == IF endpoint = None THEN searched = 0
         ELSE searched <= 1 /\ \A c \in Calls : ~At(c, "discover")

Discovery == ~overlap => OneAtATime /\ Known

LEMMA DiscoveryStep ==
  ASSUME TypeOK, Discovery, [Next]_vars
  PROVE  Discovery'
<1> SUFFICES ASSUME ~overlap' PROVE OneAtATime' /\ Known'
  BY DEF Discovery
<1> USE DEF TypeOK
<1>1. ASSUME overlap' = overlap PROVE OneAtATime /\ Known
  <2>1. ~overlap
    BY <1>1, Zenon
  <2> QED
    BY <2>1 DEF Discovery
<1>2. ASSUME NEW c \in Calls, Begin(c) PROVE OneAtATime' /\ Known'
  <2>1. overlap' = (overlap \/ \E d \in Calls \ {c} : Busy(d))
    BY <1>2 DEF Begin, Busy
  <2>2. ~overlap /\ \A d \in Calls \ {c} : ~Busy(d)
    BY <2>1, Zenon
  <2>3. OneAtATime /\ Known
    BY <2>2 DEF Discovery
  <2>4. /\ endpoint' = endpoint /\ searched' = searched
        /\ \A d \in Calls \ {c} : call'[d] = call[d]
        /\ call'[c].step \in {"send", "discover", "ask"}
        /\ endpoint # None => call'[c].step # "discover"
    BY <1>2 DEF Begin, Send, Goto, Idle
  <2>5. OneAtATime'
    BY <2>2, <2>4 DEF OneAtATime, Busy, At
  <2> QED
    BY <2>3, <2>4, <2>5 DEF Known, At
<1>3. ASSUME NEW c \in Calls, NEW found \in BOOLEAN, Discover(c, found)
      PROVE  OneAtATime' /\ Known'
  <2>1. OneAtATime /\ Known
    BY <1>1, <1>3 DEF Discover
  <2>2. /\ At(c, "discover") /\ call'[c].step = "ask"
        /\ \A d \in Calls \ {c} : call'[d] = call[d]
        /\ endpoint' \in {"published", "fallback"}
        /\ searched' = IF searched < 2 THEN searched + 1 ELSE searched
    BY <1>3 DEF Discover, Goto, Idle, Resolved
  <2>3. searched = 0 /\ \A d \in Calls \ {c} : ~Busy(d)
    BY <2>1, <2>2 DEF OneAtATime, Known, Busy, At
  <2>4. endpoint' # None
    BY <2>2, NoneAssumption
  <2> QED
    BY <2>2, <2>3, <2>4 DEF OneAtATime, Known, Busy, At
<1>4. ASSUME NEW c \in Calls,
             \/ Receive(c) \/ Adopt(c) \/ Finish(c) \/ Fail(c)
             \/ \E answer \in Answers : Grant(c, answer)
      PROVE  OneAtATime' /\ Known'
  <2>1. OneAtATime /\ Known
    BY <1>1, <1>4 DEF Receive, Adopt, Finish, Fail, Grant
  <2>2. /\ Busy(c) /\ call'[c].step # "discover"
        /\ \A d \in Calls \ {c} : call'[d] = call[d]
        /\ endpoint' = endpoint /\ searched' = searched
    <3>1. Busy(c) /\ endpoint' = endpoint /\ searched' = searched
      BY <1>4 DEF Receive, Adopt, Finish, Fail, Grant, Busy, At
    <3>2. CASE Receive(c) \/ Finish(c) \/ Fail(c)
      BY <3>1, <3>2 DEF Receive, Finish, Fail, Goto, Idle
    <3>3. CASE Adopt(c)
      BY <3>1, <3>3 DEF Adopt, Send, Idle
    <3>4. ASSUME NEW answer \in Answers, Grant(c, answer)
          PROVE  call'[c].step # "discover" /\ \A d \in Calls \ {c} : call'[d] = call[d]
      BY <3>4 DEF Grant
    <3> QED
      BY <1>4, <3>1, <3>2, <3>3, <3>4
  <2>3. \A d \in Calls : Busy(d)' => d = c
    BY <2>1, <2>2 DEF OneAtATime, Busy, At
  <2>4. \A d \in Calls : ~At(d, "discover") => ~At(d, "discover")'
    BY <2>2 DEF At
  <2>5. Known'
    BY <2>1, <2>2, <2>4 DEF Known
  <2> QED
    BY <2>3, <2>5 DEF OneAtATime
<1>5. CASE Rekey \/ Tick \/ UNCHANGED vars
  <2>1. UNCHANGED <<endpoint, call, searched, overlap>>
    BY <1>5 DEF Rekey, Tick, vars
  <2> QED
    BY <1>1, <2>1 DEF OneAtATime, Known, Busy, At
<1> QED
  BY <1>2, <1>3, <1>4, <1>5 DEF Next

\* "Result is cached so discovery only happens once per client instance": a
\* discovery that fails is remembered like one that succeeds, for any number
\* of calls one after the other.
THEOREM DiscoversOnce == Spec => []DiscoversOnceInSequence
<1>1. Init => Discovery
  BY DEF Init, Discovery, OneAtATime, Known, Busy, At, Idle
<1>2. TypeOK /\ Discovery => DiscoversOnceInSequence
  BY DEF TypeOK, Discovery, Known, DiscoversOnceInSequence
<1> QED
  BY <1>1, <1>2, DiscoveryStep, ClientTypeCorrect, PTL DEF Spec
=============================================================================
