------------------------------- MODULE ApiClient -------------------------------
(***************************************************************************)
(* The client of another node's PACT API and the access token it caches    *)
(* (packages/pact-api-client/src/pact-api-client.ts).                      *)
(*                                                                         *)
(* One client object serves any number of calls at the same time.  A call  *)
(* (listFootprints, getFootprint or an event) takes the cached token while *)
(* it believes it fresh, and authenticates otherwise: it finds the token   *)
(* endpoint, asks it for a token, caches the answer, and then takes what   *)
(* the cache holds.  The token lives from the moment the partner issues    *)
(* it; the client counts from the moment the answer arrives, less a buffer *)
(* of five minutes.                                                        *)
(*                                                                         *)
(* The partner is external: it issues tokens of one lifetime, which its    *)
(* answer may leave out, refuses them once that is over, and may withdraw  *)
(* all of them by a new signing key.  A message takes at most Lag, or is   *)
(* lost.  What is asked and answered beyond the token is left out.         *)
(***************************************************************************)
EXTENDS Integers

CONSTANTS Calls,            \* bound: calls of the client in flight together
          Lifetime,         \* of the partner's tokens
          Buffer,           \* 300 seconds
          DefaultLifetime,  \* 3600 seconds, assumed when the answer has no expires_in
          Lag,              \* the longest a message takes
          Answers,          \* what the partner answers with: "expires_in", or "silent"
          MaxTime,          \* bound: the clock
          Keys,             \* bound: signing keys the partner uses
          None              \* null

ASSUME TimesAssumption == /\ Lifetime \in Nat /\ Buffer \in Nat /\ DefaultLifetime \in Nat
                          /\ Lag \in Nat /\ MaxTime \in Nat /\ Keys \in Nat \ {0}

\* The buffer covers the way of the token to the client and back, and a
\* token outlives both.
ASSUME BufferAssumption == 2 * Lag <= Buffer /\ 2 * Lag < Lifetime

\* who leaves the lifetime out issues tokens that last the default, at least
ASSUME AnswersAssumption == /\ Answers \subseteq {"expires_in", "silent"}
                            /\ "silent" \in Answers => DefaultLifetime <= Lifetime

Tokens == [born : Nat, key : 1 .. Keys]

ASSUME NoneAssumption == /\ None \notin Tokens
                         /\ None \notin [token : Tokens, expiresAt : Int]
                         /\ None \notin {"published", "fallback"}

VARIABLES now,       \* the clock
          key,       \* the key the partner signs with
          rekeyed,   \* history: when it last changed
          cache,     \* tokenCache
          endpoint,  \* tokenEndpoint: undefined, or where it came from
          call,      \* the calls in flight
          searched,  \* history: how often discovery has been made (bound: 2)
          overlap    \* history: have two calls ever been in flight together?

vars == <<now, key, rekeyed, cache, endpoint, call, searched, overlap>>

Steps == {"idle", "discover", "ask", "grant", "adopt", "send"}

Call == [step : Steps,
         token : Tokens \cup {None},       \* the one granted, or sent
         answer : {"expires_in", "silent"},
         since : Nat]                      \* when the message under way left

Idle == [step |-> "idle", token |-> None, answer |-> "silent", since |-> 0]

At(c, s) == call[c].step = s

Goto(c, s) == call' = [call EXCEPT ![c] = [Idle EXCEPT !.step = s]]

-----------------------------------------------------------------------------
(* ensureAuthenticated and authenticate.                                   *)

Send(c, token) ==
  call' = [call EXCEPT ![c] = [Idle EXCEPT !.step = "send", !.token = token, !.since = now]]

\* faulty variant: a token once cached is never renewed
FreshForEver  == cache # None
\* faulty variant: fresh until the very end of the lifetime
FreshToTheEnd == cache # None /\ now < cache.expiresAt + Buffer

Fresh == cache # None /\ now < cache.expiresAt

Begin(c) ==
  /\ At(c, "idle")
  /\ overlap' = (overlap \/ \E d \in Calls \ {c} : ~At(d, "idle"))
  /\ IF Fresh THEN Send(c, cache.token)
     ELSE IF endpoint = None THEN Goto(c, "discover")
     ELSE Goto(c, "ask")
  /\ UNCHANGED <<now, key, rekeyed, cache, endpoint, searched>>

\* faulty variant: a document without the endpoint is believed
BelievedAnyhow(found) == IF found THEN "published" ELSE "undefined"
\* faulty variant: the fallback is not remembered
ForgetFallback(found) == IF found THEN "published" ELSE endpoint

Resolved(found) == IF found THEN "published" ELSE "fallback"

\* .well-known/openid-configuration names a token endpoint, or it does not,
\* or cannot be reached
Discover(c, found) ==
  /\ At(c, "discover")
  /\ endpoint' = Resolved(found)
  /\ searched' = IF searched < 2 THEN searched + 1 ELSE searched
  /\ Goto(c, "ask")
  /\ UNCHANGED <<now, key, rekeyed, cache, overlap>>

\* the partner issues a token
Grant(c, answer) ==
  /\ At(c, "ask")
  /\ call' = [call EXCEPT ![c] = [step |-> "grant", token |-> [born |-> now, key |-> key],
                                  answer |-> answer, since |-> now]]
  /\ UNCHANGED <<now, key, rekeyed, cache, endpoint, searched, overlap>>

\* expires_in || 3600
Promised(answer) == IF answer = "expires_in" THEN Lifetime ELSE DefaultLifetime

\* faulty variant: the first of several answers is kept
ReceiveFirst(c) ==
  /\ At(c, "grant")
  /\ cache' = IF cache # None THEN cache
              ELSE [token |-> call[c].token,
                    expiresAt |-> now + Promised(call[c].answer) - Buffer]
  /\ Goto(c, "adopt")
  /\ UNCHANGED <<now, key, rekeyed, endpoint, searched, overlap>>

Receive(c) ==
  /\ At(c, "grant")
  /\ cache' = [token |-> call[c].token,
               expiresAt |-> now + Promised(call[c].answer) - Buffer]
  /\ Goto(c, "adopt")
  /\ UNCHANGED <<now, key, rekeyed, endpoint, searched, overlap>>

\* return this.tokenCache!.token: whichever call filled it last
Adopt(c) ==
  /\ At(c, "adopt")
  /\ Send(c, cache.token)
  /\ UNCHANGED <<now, key, rekeyed, cache, endpoint, searched, overlap>>

-----------------------------------------------------------------------------
(* The call itself, and what goes wrong.                                   *)

\* the partner answers the call, or refuses its token: the call ends either
\* way, and the cache stays as it is
Finish(c) ==
  /\ At(c, "send")
  /\ Goto(c, "idle")
  /\ UNCHANGED <<now, key, rekeyed, cache, endpoint, searched, overlap>>

\* the token endpoint refuses, or a message is lost: the call throws
Fail(c) ==
  /\ call[c].step \in {"ask", "grant", "send"}
  /\ Goto(c, "idle")
  /\ UNCHANGED <<now, key, rekeyed, cache, endpoint, searched, overlap>>

Rekey ==
  /\ key < Keys
  /\ key' = key + 1
  /\ rekeyed' = now
  /\ UNCHANGED <<now, cache, endpoint, call, searched, overlap>>

\* a message under way arrives within Lag; what follows it in the client is
\* done before time passes
Tick ==
  /\ now < MaxTime
  /\ \A c \in Calls : /\ call[c].step \in {"grant", "send"} => now < call[c].since + Lag
                      /\ ~At(c, "adopt")
  /\ now' = now + 1
  /\ UNCHANGED <<key, rekeyed, cache, endpoint, call, searched, overlap>>

-----------------------------------------------------------------------------
Init == /\ now = 0
        /\ key = 1
        /\ rekeyed = 0
        /\ cache = None
        /\ endpoint = None
        /\ call = [c \in Calls |-> Idle]
        /\ searched = 0
        /\ overlap = FALSE

Next == \/ \E c \in Calls : \/ Begin(c) \/ Receive(c) \/ Adopt(c) \/ Finish(c) \/ Fail(c)
                            \/ \E found \in BOOLEAN : Discover(c, found)
                            \/ \E answer \in Answers : Grant(c, answer)
        \/ Rekey
        \/ Tick

Spec == Init /\ [][Next]_vars
-----------------------------------------------------------------------------
(* Properties.                                                             *)

\* The cache and every call have the shape their fields declare.
TypeOK == /\ now \in 0 .. MaxTime
          /\ key \in 1 .. Keys
          /\ rekeyed \in 0 .. now
          /\ cache \in [token : Tokens, expiresAt : Int] \cup {None}
          /\ endpoint \in {None, "published", "fallback"}
          /\ call \in [Calls -> Call]
          /\ searched \in 0 .. 2
          /\ overlap \in BOOLEAN

Expired(t) == now >= t.born + Lifetime

\* "Return a valid access token": no token reaches the partner after its
\* time, however calls overlap, answers delay and the client's count of the
\* lifetime differs from the partner's.
TokensArriveInTime == \A c \in Calls : At(c, "send") => ~Expired(call[c].token)

\* A client never drops a token that is refused, but it does not keep it for
\* ever: once the partner has withdrawn its tokens, the calls it refuses for
\* that stop within one lifetime, whatever was granted or delayed meanwhile.
WithdrawnTokensAgeOut ==
  \A c \in Calls : At(c, "send") /\ call[c].token.key # key => now < rekeyed + Lifetime

\* "tokenCache!": a call that has authenticated finds a token in the cache,
\* issued no longer than Lag before, whichever of several overlapping calls
\* filled it last.
AdoptsYoungToken ==
  \A c \in Calls : At(c, "adopt") => cache # None /\ now <= cache.token.born + Lag

\* "Result is cached so discovery only happens once per client instance": as
\* long as calls do not overlap, failed discoveries included.
DiscoversOnceInSequence == ~overlap => searched <= 1
=============================================================================
