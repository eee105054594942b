---------------------------- MODULE AccountsProofs ----------------------------
(***************************************************************************)
(* Accounts: nobody is let in on an address they never answered from, in   *)
(* any interleaving, and what the checks of a request promise as long as   *)
(* requests do not overlap, for any users, organizations, tokens and       *)
(* number of requests.                                                     *)
(*                                                                         *)
(* A request writes some time after it was admitted.  Fits says what of    *)
(* its admission can never be undone by others (rows stay, tokens keep     *)
(* their type, a proof once given stands), Fresh what can: that is lost    *)
(* as soon as a second request is in flight.                               *)
(***************************************************************************)
EXTENDS Accounts, TLAPS

-----------------------------------------------------------------------------
(* The inductive invariant.                                                *)

IsToken(t, type) == t \in Tokens /\ token[t] # None /\ token[t].type = type

AboutMember == {"signup.mail", "add.token", "resend.mail", "verify.update",
                "setup.commit", "reset.password", "reset.used", "member.update"}

Fits(r) ==
  /\ r.step # "idle" => r.user \in Users
  /\ r.step \in AboutMember => Known(r.user)
  /\ r.step = "add.insert" => r.change \in Change /\ r.change.role \in Roles
  /\ r.step = "setup.commit" => IsToken(r.token, "setup")
  /\ r.step \in {"reset.password", "reset.used"} => IsToken(r.token, "reset")
  /\ r.step = "member.update" => /\ r.change \in Change
                                 /\ r.change.status \in {"enabled", "disabled"}
                                      => r.user \in proven

Fresh(r) ==
  /\ r.step = "verify.update" => Is(r.user, "unverified")
  /\ r.step = "setup.commit" => ~token[r.token].used
  /\ r.step = "member.update" => /\ r.change.status = "disabled" => MayDisable(r.user)
                                 /\ r.change.role \in {"user", "root"} => MayDemote(r.user)

InFlight == \A h \in Slots : Fits(req[h])

TokensKnown == \A t \in Tokens : token[t] # None => Known(token[t].user)

UsedOnce(t) == /\ token[t] = None => uses[t] = 0
               /\ IsToken(t, "setup") => IF token[t].used THEN uses[t] <= 1 ELSE uses[t] = 0

InSequence ==
  ~overlap => /\ \A h, k \in Slots : req[h] # Idle /\ req[k] # Idle => h = k
              /\ \A h \in Slots : Fresh(req[h])
              /\ \A t \in Tokens : UsedOnce(t)

Inv == TypeOK /\ OnlyProvenAreLetIn /\ InFlight /\ TokensKnown /\ InSequence

-----------------------------------------------------------------------------
(* What the steps have in common.                                          *)

\* The other fields of the tables have their types.
LEMMA Typing ==
  ASSUME TypeOK, NEW u \in Users, Known(u)
  PROVE  /\ user[u] \in Account
         /\ user[u].role \in Roles /\ user[u].status \in Status
BY DEF TypeOK, Known, Account

LEMMA IdleFits ==
  /\ Idle \in Request /\ Idle.step = "idle"
  /\ Fits(Idle) /\ Fresh(Idle)
BY DEF Idle, Request, Steps, Fits, Fresh, AboutMember

\* What others cannot undo.
Kept == /\ \A u \in Users : Known(u) => Known(u)'
        /\ \A t \in Tokens : token[t] # None
              => token'[t] # None /\ token'[t].type = token[t].type
        /\ proven \subseteq proven'

\* The rows are kept when the users table changes in one known row, or gains one.
LEMMA InFlightStays ==
  ASSUME Inv, Kept,
         \A h \in Slots : req'[h] = req[h] \/ req'[h] = Idle \/ Fits(req[h])'
  PROVE  InFlight'
<1> SUFFICES ASSUME NEW h \in Slots PROVE Fits(req[h])'
  BY DEF InFlight
<1>1. CASE req'[h] = req[h]
  <2>1. Fits(req[h])
    BY DEF Inv, InFlight
  <2> QED
    BY <1>1, <2>1 DEF Kept, Fits, IsToken, AboutMember
<1>2. CASE req'[h] = Idle
  BY <1>2 DEF Fits, Idle, AboutMember
<1> QED
  BY <1>1, <1>2

\* A request that is admitted alone finds what its checks have found.
LEMMA BeginStep ==
  ASSUME Inv, NEW h \in Slots, NEW s, NEW u, NEW t, NEW c, Begin(h, s, u, t, c),
         UNCHANGED <<user, token, session, proven, uses>>,
         [step |-> s, user |-> u, token |-> t, change |-> c] \in Request,
         Fits([step |-> s, user |-> u, token |-> t, change |-> c]),
         Fresh([step |-> s, user |-> u, token |-> t, change |-> c])
  PROVE  Inv'
<1> DEFINE r == [step |-> s, user |-> u, token |-> t, change |-> c]
<1>1. TypeOK'
  BY DEF Begin, Inv, TypeOK
<1>2. OnlyProvenAreLetIn'
  BY DEF Inv, OnlyProvenAreLetIn, Is, Known
<1>3. req' = [req EXCEPT ![h] = r] /\ req \in [Slots -> Request]
  BY DEF Begin, Inv, TypeOK
<1> HIDE DEF r
<1>4. InFlight'
  <2> SUFFICES ASSUME NEW k \in Slots PROVE Fits(req[k])'
    BY DEF InFlight
  <2>1. CASE k = h
    <3>1. req'[k] = r /\ Fits(r)
      BY <1>3, <2>1 DEF r
    <3> QED
      BY <3>1 DEF Fits, IsToken, Known
  <2>2. CASE k # h
    <3>1. req'[k] = req[k] /\ Fits(req[k])
      BY <1>3, <2>2 DEF Inv, InFlight
    <3> QED
      BY <3>1 DEF Fits, IsToken, Known
  <2> QED
    BY <2>1, <2>2
<1>5. TokensKnown'
  BY DEF Inv, TokensKnown, Known
<1>6. InSequence'
  <2> SUFFICES ASSUME ~overlap' PROVE InSequence'
    BY DEF InSequence
  <2>1. ~overlap /\ \A k \in Slots \ {h} : req[k] = Idle
    BY DEF Begin
  <2>2. \A k \in Slots \ {h} : req'[k] = Idle
    BY <1>3, <2>1
  <2>3. \A k \in Slots : Fresh(req[k])'
    <3> SUFFICES ASSUME NEW k \in Slots PROVE Fresh(req[k])'
      OBVIOUS
    <3>1. CASE k = h
      <4>1. req'[k] = r /\ Fresh(r)
        BY <1>3, <3>1 DEF r
      <4> QED
        BY <4>1 DEF Fresh, Is, Known, MayDisable, MayDemote, EnabledIn, AdministratorsIn, Members
    <3>2. CASE k # h
      BY <2>2, <3>2 DEF Fresh, Idle
    <3> QED
      BY <3>1, <3>2
  <2>4. \A x \in Tokens : UsedOnce(x)'
    BY <2>1 DEF Inv, InSequence, UsedOnce, IsToken
  <2> QED
    BY <2>2, <2>3, <2>4 DEF InSequence
<1> QED
  BY <1>1, <1>2, <1>4, <1>5, <1>6 DEF Inv

\* A request that goes on, or ends, was the only one if none overlapped.
LEMMA SequenceStays ==
  ASSUME Inv, NEW h \in Slots, NEW r \in Request, req[h] # Idle,
         req' = [req EXCEPT ![h] = r], overlap' = overlap,
         r.step \notin {"verify.update", "setup.commit", "member.update"},
         ~overlap => \A t \in Tokens : UsedOnce(t)'
  PROVE  InSequence'
<1> SUFFICES ASSUME ~overlap' PROVE InSequence'
  BY DEF InSequence
<1>1. \A k \in Slots \ {h} : req[k] = Idle
  BY DEF Inv, InSequence
<1>2. /\ req'[h] = r
      /\ \A k \in Slots \ {h} : req'[k] = Idle
  BY <1>1 DEF Inv, TypeOK
<1>3. \A k \in Slots : Fresh(req[k])'
  BY <1>2 DEF Fresh, Idle
<1> QED
  BY <1>2, <1>3 DEF InSequence

-----------------------------------------------------------------------------
(* Requests that are admitted.                                             *)

LEMMA StartStep ==
  ASSUME Inv, NEW h \in Slots, Start(h)
  PROVE  Inv'
<1> USE DEF Request, Steps, Fits, Fresh, AboutMember
<1>1. ASSUME NEW u \in Users, SignupBegin(h, u)
      PROVE  Inv'
  BY <1>1, BeginStep DEF SignupBegin
<1>2. ASSUME NEW u \in Users, ResendBegin(h, u)
      PROVE  Inv'
  BY <1>2, BeginStep DEF ResendBegin, Is
<1>3. ASSUME NEW u \in Users, VerifyBegin(h, u)
      PROVE  Inv'
  <2>1. user[u].mail \in Tokens \cup {None}
    BY <1>3 DEF VerifyBegin, Is, Known, Inv, TypeOK, Account
  <2> QED
    BY <1>3, <2>1, BeginStep DEF VerifyBegin, Is
<1>4. ASSUME NEW by \in Users, NEW u \in Users, NEW c \in Bodies, AddBegin(h, by, u, c)
      PROVE  Inv'
  <2>1. c \in Change /\ c.role \in Roles
    BY <1>4, BodiesAssumption DEF AddBegin, Change
  <2> QED
    BY <1>4, <2>1, BeginStep DEF AddBegin
<1>5. ASSUME NEW by \in Users, NEW u \in Users, NEW c \in Bodies, MemberBegin(h, by, u, c)
      PROVE  Inv'
  <2> c \in Change
    BY BodiesAssumption
  <2>1. Known(u) /\ (c.status \in {"enabled", "disabled"} => u \in proven)
    BY <1>5 DEF MemberBegin, MayEnable, MayDisable, Is, Inv, OnlyProvenAreLetIn
  <2>2. /\ c.status = "disabled" => MayDisable(u)
        /\ c.role \in {"user", "root"} => MayDemote(u)
    BY <1>5 DEF MemberBegin
  <2> QED
    BY <1>5, <2>1, <2>2, BeginStep DEF MemberBegin
<1>6. ASSUME NEW t \in Tokens, SetupBegin(h, t)
      PROVE  Inv'
  <2>1. IsToken(t, "setup") /\ ~token[t].used
    BY <1>6 DEF SetupBegin, Usable, IsToken
  <2>2. token[t].user \in Users /\ Known(token[t].user)
    BY <2>1 DEF IsToken, Inv, TypeOK, Token, TokensKnown
  <2> QED
    BY <1>6, <2>1, <2>2, BeginStep DEF SetupBegin
<1>7. ASSUME NEW t \in Tokens, ResetBegin(h, t)
      PROVE  Inv'
  <2>1. IsToken(t, "reset")
    BY <1>7 DEF ResetBegin, Usable, IsToken
  <2>2. token[t].user \in Users /\ Known(token[t].user)
    BY <2>1 DEF IsToken, Inv, TypeOK, Token, TokensKnown
  <2> QED
    BY <1>7, <2>1, <2>2, BeginStep DEF ResetBegin
<1> QED
  BY <1>1, <1>2, <1>3, <1>4, <1>5, <1>6, <1>7 DEF Start

-----------------------------------------------------------------------------
(* Requests that go on.                                                    *)

\* the address becomes a user who is still unverified
LEMMA InsertStep ==
  ASSUME Inv, NEW h \in Slots, SignupInsert(h) \/ AddInsert(h)
  PROVE  Inv'
<1> DEFINE u == req[h].user
           next == IF At(h, "signup.insert") THEN "signup.mail" ELSE "add.token"
           r == [req[h] EXCEPT !.step = next]
<1>1. /\ At(h, "signup.insert") \/ At(h, "add.insert")
      /\ u \in Users /\ ~Known(u)
      /\ UNCHANGED <<token, session, proven, uses, overlap>>
      /\ req[h] \in Request /\ req \in [Slots -> Request]
      /\ Fits(req[h])
  BY DEF SignupInsert, AddInsert, Goto, At, Fits, Inv, InFlight, TypeOK
<1>2. PICK row \in Account : /\ row.status = "unverified"
                             /\ user' = [user EXCEPT ![u] = row]
  <2>1. CASE SignupInsert(h)
    <3>1. NewAccount("administrator", "form") \in Account
      BY DEF NewAccount, Account, Roles, Status
    <3> QED
      BY <2>1, <3>1 DEF SignupInsert, NewAccount
  <2>2. CASE AddInsert(h)
    <3>1. NewAccount(req[h].change.role, "placeholder") \in Account
      BY <2>2, <1>1 DEF AddInsert, At, Fits, NewAccount, Account, Status
    <3> QED
      BY <2>2, <3>1 DEF AddInsert, NewAccount
  <2> QED
    BY <2>1, <2>2
<1>3. req' = [req EXCEPT ![h] = r] /\ r \in Request
  BY <1>1 DEF SignupInsert, AddInsert, Goto, At, Request, Steps
<1>4. /\ user \in [Users -> Account \cup {None}]
      /\ \A v \in Users : v # u => user'[v] = user[v]
      /\ user'[u] = row /\ row # None
  BY <1>1, <1>2, NoneAssumption DEF Inv, TypeOK
<1>5. TypeOK'
  BY <1>1, <1>2, <1>3 DEF Inv, TypeOK
<1>6. OnlyProvenAreLetIn'
  BY <1>1, <1>2, <1>4 DEF Inv, OnlyProvenAreLetIn, Is, Known
<1>7. Kept
  BY <1>1, <1>4 DEF Kept, Known
<1>8. InFlight'
  <2>1. Fits(req[h])'
    <3>1. req'[h] = r /\ r.step \in {"signup.mail", "add.token"} /\ r.user = u
      BY <1>1, <1>3 DEF Request
    <3> QED
      BY <1>1, <1>4, <3>1 DEF Fits, AboutMember, Known
  <2>2. \A k \in Slots : k # h => req'[k] = req[k]
    BY <1>1, <1>3
  <2> QED
    BY <1>7, <2>1, <2>2, InFlightStays
<1>9. TokensKnown'
  BY <1>1, <1>7 DEF Kept, TokensKnown, Inv, TypeOK, Token
<1>10. InSequence'
  <2>1. ~overlap => \A t \in Tokens : UsedOnce(t)'
    BY <1>1 DEF Inv, InSequence, UsedOnce, IsToken
  <2>2. req[h] # Idle
    BY <1>1 DEF At, Idle
  <2>3. r.step \in {"signup.mail", "add.token"}
    BY <1>1 DEF Request
  <2> QED
    BY <1>1, <1>3, <2>1, <2>2, <2>3, SequenceStays
<1> QED
  BY <1>5, <1>6, <1>8, <1>9, <1>10 DEF Inv

\* a request that only writes tokens, or nothing, and ends
LEMMA TokenStep ==
  ASSUME Inv, NEW h \in Slots, MailToken(h) \/ AddToken(h) \/ ResetUsed(h) \/ Abandon(h)
  PROVE  Inv'
<1> DEFINE u == req[h].user
<1>1. /\ req[h] # Idle
      /\ MailToken(h) \/ AddToken(h) => u \in Users /\ Known(u)
      /\ UNCHANGED <<session, proven, uses, overlap>>
      /\ req' = [req EXCEPT ![h] = Idle] /\ req \in [Slots -> Request]
  BY DEF MailToken, AddToken, ResetUsed, Abandon, End, At, Idle, Fits, AboutMember, Inv,
         InFlight, TypeOK
<1>2. /\ token' \in [Tokens -> Token \cup {None}]
      /\ \A t \in Tokens : token[t] # None =>
           /\ token'[t] # None
           /\ token'[t].type = token[t].type /\ token'[t].user = token[t].user
           /\ token'[t].used # token[t].used => IsToken(t, "reset")
      /\ \A t \in Tokens : token[t] = None /\ token'[t] # None =>
           Known(token[t].user)' /\ ~token'[t].used
  <2>1. token \in [Tokens -> Token \cup {None}]
    BY DEF Inv, TypeOK
  <2>2. CASE MailToken(h) \/ AddToken(h)
    <3>1. PICK t \in Tokens, type \in {"verify", "setup"} : Issue(t, u, type)
      BY <2>2 DEF MailToken, AddToken
    <3>2. [user |-> u, type |-> type, used |-> FALSE, expired |-> FALSE] \in Token
      BY <1>1, <2>2, <3>1 DEF Token
    <3>3. /\ token[t] = None
          /\ token' = [token EXCEPT ![t] = [user |-> u, type |-> type,
                                            used |-> FALSE, expired |-> FALSE]]
      BY <3>1 DEF Issue
    <3>4. user'[u] # None
      <4>1. CASE MailToken(h)
        <5>1. PICK x \in Tokens : user' = [user EXCEPT ![u].mail = x]
          BY <4>1 DEF MailToken
        <5>2. [user[u] EXCEPT !.mail = x] \in Account
          BY <1>1, <2>2 DEF Inv, TypeOK, Known, Account
        <5> QED
          BY <1>1, <2>2, <5>1, <5>2, NoneAssumption DEF Known, Inv, TypeOK
      <4>2. CASE AddToken(h)
        BY <1>1, <2>2, <4>2 DEF AddToken, Known
      <4> QED
        BY <2>2, <4>1, <4>2
    <3> QED
      BY <2>1, <3>2, <3>3, <3>4, NoneAssumption DEF Known
  <2>3. CASE ResetUsed(h)
    <3>1. IsToken(req[h].token, "reset")
      BY <2>3 DEF ResetUsed, At, Fits, Inv, InFlight
    <3>2. [token[req[h].token] EXCEPT !.used = TRUE] \in Token
      BY <2>1, <3>1 DEF IsToken, Token
    <3> QED
      BY <2>1, <2>3, <3>1, <3>2, NoneAssumption DEF ResetUsed, IsToken, Token
  <2>4. CASE Abandon(h)
    BY <2>1, <2>4 DEF Abandon
  <2> QED
    BY <2>2, <2>3, <2>4
<1>3. /\ user' \in [Users -> Account \cup {None}]
      /\ \A v \in Users : /\ Known(v)' <=> Known(v)
                          /\ Known(v) => user'[v].status = user[v].status
  <2>1. user \in [Users -> Account \cup {None}]
    BY DEF Inv, TypeOK
  <2>2. CASE MailToken(h)
    <3>1. PICK t \in Tokens : user' = [user EXCEPT ![u].mail = t]
      BY <2>2 DEF MailToken
    <3>2. Known(u) /\ u \in Users
      BY <1>1, <2>2
    <3>3. [user[u] EXCEPT !.mail = t] \in Account
      BY <2>1, <3>2 DEF Known, Account
    <3> QED
      BY <2>1, <3>1, <3>2, <3>3, NoneAssumption DEF Known, Account
  <2>3. CASE ~MailToken(h)
    BY <2>1, <2>3 DEF AddToken, ResetUsed, Abandon, Known
  <2> QED
    BY <2>2, <2>3
<1>4. TypeOK'
  BY <1>1, <1>2, <1>3, IdleFits DEF Inv, TypeOK
<1>5. OnlyProvenAreLetIn'
  BY <1>1, <1>3 DEF Inv, OnlyProvenAreLetIn, Is
<1>6. Kept
  BY <1>1, <1>2, <1>3 DEF Kept
<1>7. InFlight'
  BY <1>1, <1>6, InFlightStays
<1>8. TokensKnown'
  BY <1>2, <1>3 DEF TokensKnown, Inv, TypeOK, Token
<1>9. InSequence'
  <2>1. ~overlap => \A t \in Tokens : UsedOnce(t)'
    BY <1>1, <1>2 DEF Inv, InSequence, UsedOnce, IsToken
  <2> QED
    BY <1>1, <2>1, IdleFits, SequenceStays
<1> QED
  BY <1>4, <1>5, <1>7, <1>8, <1>9 DEF Inv

\* a request that writes the row of a known user: a new status lets nobody in,
\* or is the right of a user who is proven
LEMMA RowStep ==
  ASSUME Inv, NEW h \in Slots, NEW row \in Account, NEW r \in Request,
         req[h].step \in AboutMember,
         user' = [user EXCEPT ![req[h].user] = row],
         \/ row.status \in {user[req[h].user].status, "unverified", "deleted"}
         \/ req[h].user \in proven',
         req' = [req EXCEPT ![h] = r], Fits(req[h])',
         r.step \notin {"verify.update", "setup.commit", "member.update"},
         UNCHANGED <<session, overlap>>,
         proven \subseteq proven', proven' \subseteq Users,
         uses' \in [Tokens -> 0 .. 2],
         token' \in [Tokens -> Token \cup {None}],
         \A t \in Tokens : /\ token'[t] # None => token[t] # None
                           /\ token[t] # None => /\ token'[t] # None
                                                 /\ token'[t].type = token[t].type
                                                 /\ token'[t].user = token[t].user,
         ~overlap => \A t \in Tokens : UsedOnce(t)'
  PROVE  Inv'
<1> DEFINE u == req[h].user
<1>1. /\ u \in Users /\ Known(u)
      /\ user \in [Users -> Account \cup {None}] /\ req \in [Slots -> Request]
      /\ req[h] # Idle
  BY DEF Inv, InFlight, Fits, AboutMember, TypeOK, Idle
<1>2. /\ \A v \in Users : v # u => user'[v] = user[v]
      /\ user'[u] = row /\ row # None
  BY <1>1, NoneAssumption
<1>3. TypeOK'
  BY <1>1 DEF Inv, TypeOK
<1>4. OnlyProvenAreLetIn'
  BY <1>1, <1>2 DEF Inv, OnlyProvenAreLetIn, Is, Known
<1>5. Kept
  <2>1. \A v \in Users : Known(v) => Known(v)'
    BY <1>1, <1>2 DEF Known
  <2>2. \A t \in Tokens : token[t] # None
          => token'[t] # None /\ token'[t].type = token[t].type
    OBVIOUS
  <2> QED
    BY <2>1, <2>2 DEF Kept
<1>6. InFlight'
  <2>1. \A k \in Slots : k # h => req'[k] = req[k]
    BY <1>1
  <2> QED
    BY <1>5, <2>1, InFlightStays
<1>7. TokensKnown'
  <2> SUFFICES ASSUME NEW t \in Tokens, token'[t] # None
               PROVE  Known(token[t].user)'
    BY DEF TokensKnown
  <2>1. token[t] # None /\ token'[t].user = token[t].user
    OBVIOUS
  <2>2. token[t].user \in Users /\ Known(token[t].user)
    BY <2>1 DEF Inv, TypeOK, Token, TokensKnown
  <2> QED
    BY <1>1, <1>2, <2>1, <2>2 DEF Known
<1>8. InSequence'
  BY <1>1, SequenceStays
<1> QED
  BY <1>3, <1>4, <1>6, <1>7, <1>8 DEF Inv

LEMMA VerifyStep ==
  ASSUME Inv, NEW h \in Slots, VerifyUpdate(h)
  PROVE  Inv'
<1> DEFINE u == req[h].user
<1>1. /\ req[h].step = "verify.update" /\ u \in Users /\ Known(u)
      /\ user \in [Users -> Account \cup {None}]
  BY DEF VerifyUpdate, At, Inv, InFlight, Fits, AboutMember, TypeOK
<1>2. PICK row \in Account : user' = [user EXCEPT ![u] = row]
  <2>1. [user[u] EXCEPT !.status = "enabled", !.mail = None] \in Account
    BY <1>1 DEF Known, Account, Status
  <2>2. user' = [user EXCEPT ![u] = [@ EXCEPT !.status = "enabled", !.mail = None]]
    BY <1>1 DEF VerifyUpdate, Known, Account
  <2> QED
    BY <2>1, <2>2
<1>3. /\ proven' = proven \cup {u}
      /\ req' = [req EXCEPT ![h] = Idle]
      /\ UNCHANGED <<token, session, uses, overlap>>
  BY DEF VerifyUpdate, End
<1>4. Fits(req[h])'
  BY <1>3, IdleFits DEF Inv, TypeOK, Fits, AboutMember
<1>5. ~overlap => \A t \in Tokens : UsedOnce(t)'
  BY <1>3 DEF Inv, InSequence, UsedOnce, IsToken
<1> QED
  BY <1>1, <1>2, <1>3, <1>4, <1>5, IdleFits, RowStep DEF Inv, TypeOK, AboutMember

\* counting the use of one token
LEMMA UseCounted ==
  ASSUME TypeOK, NEW t \in Tokens
  PROVE  /\ Counted(t) \in [Tokens -> 0 .. 2]
         /\ \A x \in Tokens : x # t => Counted(t)[x] = uses[x]
         /\ uses[t] = 0 => Counted(t)[t] = 1
BY DEF Counted, TypeOK

LEMMA SetupStep ==
  ASSUME Inv, NEW h \in Slots, SetupCommit(h)
  PROVE  Inv'
<1> DEFINE u == req[h].user
           t == req[h].token
<1>1. /\ req[h].step = "setup.commit" /\ u \in Users /\ Known(u)
      /\ IsToken(t, "setup") /\ t \in Tokens
      /\ user \in [Users -> Account \cup {None}]
      /\ token \in [Tokens -> Token \cup {None}]
  BY DEF SetupCommit, At, Inv, InFlight, Fits, AboutMember, TypeOK, IsToken
<1>2. PICK row \in Account : user' = [user EXCEPT ![u] = row]
  <2>1. [user[u] EXCEPT !.password = t, !.status = "enabled"] \in Account
    BY <1>1 DEF Known, Account, Status
  <2> QED
    BY <2>1 DEF SetupCommit
<1>3. /\ proven' = proven \cup {u}
      /\ req' = [req EXCEPT ![h] = Idle]
      /\ uses' = Counted(t)
      /\ UNCHANGED <<session, overlap>>
  BY DEF SetupCommit, End
<1>4. Fits(req[h])'
  BY <1>3, IdleFits DEF Inv, TypeOK, Fits, AboutMember
<1>5. PICK v \in Token : /\ token' = [token EXCEPT ![t] = v]
                         /\ v.used /\ v.type = "setup" /\ v.user = token[t].user
  <2>1. token[t] \in Token
    BY <1>1 DEF IsToken
  <2>2. [token[t] EXCEPT !.used = TRUE] \in Token
    BY <2>1 DEF Token
  <2>3. token' = [token EXCEPT ![t] = [@ EXCEPT !.used = TRUE]]
    BY DEF SetupCommit
  <2> QED
    BY <1>1, <2>1, <2>2, <2>3 DEF IsToken, Token
<1>6. /\ token' \in [Tokens -> Token \cup {None}]
      /\ token'[t] = v /\ v # None
      /\ \A x \in Tokens : x # t => token'[x] = token[x]
  BY <1>1, <1>5, NoneAssumption
<1>7. ~overlap => \A x \in Tokens : UsedOnce(x)'
  <2> SUFFICES ASSUME ~overlap, NEW x \in Tokens PROVE UsedOnce(x)'
    OBVIOUS
  <2>1. UsedOnce(x) /\ UsedOnce(t) /\ ~token[t].used
    BY <1>1 DEF Inv, InSequence, Fresh
  <2>2. CASE x = t
    <3>1. uses'[x] = 1
      BY <1>1, <1>3, <2>1, <2>2, UseCounted DEF UsedOnce, Inv
    <3> QED
      BY <1>5, <1>6, <2>2, <3>1 DEF UsedOnce, IsToken
  <2>3. CASE x # t
    BY <1>1, <1>3, <1>6, <2>1, <2>3, UseCounted DEF UsedOnce, IsToken, Inv
  <2> QED
    BY <2>2, <2>3
<1>8. uses' \in [Tokens -> 0 .. 2]
  BY <1>1, <1>3, UseCounted DEF Inv
<1>9. /\ proven \subseteq proven' /\ proven' \subseteq Users /\ u \in proven'
      /\ req[h].step \in AboutMember /\ Idle \in Request
      /\ Idle.step \notin {"verify.update", "setup.commit", "member.update"}
  BY <1>1, <1>3, IdleFits DEF Inv, TypeOK, AboutMember
<1>10. \A x \in Tokens : /\ token'[x] # None => token[x] # None
                         /\ token[x] # None => /\ token'[x] # None
                                               /\ token'[x].type = token[x].type
                                               /\ token'[x].user = token[x].user
  BY <1>1, <1>5, <1>6 DEF IsToken
<1> QED
  BY <1>2, <1>3, <1>4, <1>6, <1>7, <1>8, <1>9, <1>10, RowStep

LEMMA ResetStep ==
  ASSUME Inv, NEW h \in Slots, ResetPassword(h)
  PROVE  Inv'
<1> DEFINE u == req[h].user
           t == req[h].token
           r == [req[h] EXCEPT !.step = "reset.used"]
<1>1. /\ req[h].step = "reset.password" /\ u \in Users /\ Known(u)
      /\ IsToken(t, "reset") /\ t \in Tokens
      /\ user \in [Users -> Account \cup {None}]
      /\ token \in [Tokens -> Token \cup {None}]
      /\ req \in [Slots -> Request]
  BY DEF ResetPassword, At, Inv, InFlight, Fits, AboutMember, TypeOK, IsToken
<1>2. PICK row \in Account : user' = [user EXCEPT ![u] = row] /\ row.status = user[u].status
  <2>1. [user[u] EXCEPT !.password = t] \in Account
    BY <1>1 DEF Known, Account
  <2>2. user' = [user EXCEPT ![u].password = t]
    BY DEF ResetPassword, ResetOnly
  <2> QED
    BY <1>1, <2>1, <2>2 DEF Known, Account
<1>3. /\ req' = [req EXCEPT ![h] = r]
      /\ r \in Request /\ r.step = "reset.used" /\ r.user = u /\ r.token = t
      /\ uses' = Counted(t)
      /\ UNCHANGED <<session, overlap, proven, token>>
  BY <1>1 DEF ResetPassword, Goto, Request, Steps
<1>4. Fits(req[h])'
  <2>1. req'[h] = r
    BY <1>1, <1>3
  <2>2. user'[u] # None
    BY <1>1, <1>2, NoneAssumption
  <2> QED
    BY <1>1, <1>3, <2>1, <2>2 DEF Fits, AboutMember, Known, IsToken
<1>5. ~overlap => \A x \in Tokens : UsedOnce(x)'
  <2> SUFFICES ASSUME ~overlap, NEW x \in Tokens PROVE UsedOnce(x)'
    OBVIOUS
  <2>1. UsedOnce(x)
    BY DEF Inv, InSequence
  <2>2. CASE x = t
    BY <1>1, <1>3, <2>2 DEF UsedOnce, IsToken
  <2>3. CASE x # t
    BY <1>1, <1>3, <2>1, <2>3, UseCounted DEF UsedOnce, IsToken, Inv
  <2> QED
    BY <2>2, <2>3
<1>6. /\ uses' \in [Tokens -> 0 .. 2]
      /\ proven \subseteq proven' /\ proven' \subseteq Users
      /\ req[h].step \in AboutMember
  BY <1>1, <1>3, UseCounted DEF Inv, TypeOK, AboutMember
<1> HIDE DEF r
<1> QED
  BY <1>1, <1>2, <1>3, <1>4, <1>5, <1>6, RowStep

LEMMA MemberStep ==
  ASSUME Inv, NEW h \in Slots, MemberUpdate(h)
  PROVE  Inv'
<1> DEFINE u == req[h].user
           c == req[h].change
<1>1. /\ req[h].step = "member.update" /\ u \in Users /\ Known(u)
      /\ c \in Change /\ (c.status \in {"enabled", "disabled"} => u \in proven)
      /\ user[u] \in Account
  BY DEF MemberUpdate, At, Inv, InFlight, Fits, AboutMember, TypeOK, Known
<1>2. /\ Amend(user[u], c) \in Account
      /\ Amend(user[u], c).status \in {user[u].status, c.status}
      /\ c.status = None => Amend(user[u], c).status = user[u].status
  BY <1>1 DEF Amend, Change, Account
<1>3. /\ user' = [user EXCEPT ![u] = Amend(user[u], c)]
      /\ req' = [req EXCEPT ![h] = Idle]
      /\ UNCHANGED <<token, session, proven, uses, overlap>>
  BY DEF MemberUpdate, End
<1>4. Fits(req[h])'
  BY <1>3, IdleFits DEF Inv, TypeOK, Fits, AboutMember
<1>5. ~overlap => \A t \in Tokens : UsedOnce(t)'
  BY <1>3 DEF Inv, InSequence, UsedOnce, IsToken
<1>6. \/ Amend(user[u], c).status \in {user[u].status, "unverified", "deleted"}
      \/ u \in proven'
  BY <1>1, <1>2, <1>3 DEF Change, Status
<1> HIDE DEF c
<1> QED
  BY <1>1, <1>2, <1>3, <1>4, <1>5, <1>6, IdleFits, RowStep DEF Inv, TypeOK, AboutMember

-----------------------------------------------------------------------------
(* What happens beside the requests.                                       *)

LEMMA AsideStep ==
  ASSUME Inv,
         \/ \E u \in Users : Forgot(u) \/ Login(u) \/ Logout(u)
         \/ \E t \in Tokens : ExpireToken(t)
         \/ UNCHANGED vars
  PROVE  Inv'
<1>1. UNCHANGED <<user, req, proven, uses, overlap>>
  BY DEF Forgot, Login, Logout, ExpireToken, vars
<1>2. /\ token' \in [Tokens -> Token \cup {None}]
      /\ \A t \in Tokens : token[t] # None =>
           /\ token'[t] # None
           /\ token'[t].type = token[t].type /\ token'[t].user = token[t].user
           /\ token'[t].used = token[t].used
      /\ \A t \in Tokens : token[t] = None /\ token'[t] # None =>
           /\ token'[t].user \in Users /\ Known(token'[t].user)
           /\ ~token'[t].used
  <2>1. token \in [Tokens -> Token \cup {None}]
    BY DEF Inv, TypeOK
  <2>2. ASSUME NEW u \in Users, Forgot(u)
        PROVE  <1>2!1 /\ <1>2!2 /\ <1>2!3
    <3>1. PICK t \in Tokens : Issue(t, u, "reset")
      BY <2>2 DEF Forgot
    <3>2. [user |-> u, type |-> "reset", used |-> FALSE, expired |-> FALSE] \in Token
      BY DEF Token
    <3> QED
      BY <2>1, <2>2, <3>1, <3>2, NoneAssumption DEF Issue, Forgot
  <2>3. ASSUME NEW u \in Users, Login(u) \/ Logout(u)
        PROVE  <1>2!1 /\ <1>2!2 /\ <1>2!3
    BY <2>1, <2>3 DEF Login, Logout
  <2>4. ASSUME NEW t \in Tokens, ExpireToken(t)
        PROVE  <1>2!1 /\ <1>2!2 /\ <1>2!3
    <3>1. [token[t] EXCEPT !.expired = TRUE] \in Token
      BY <2>1, <2>4 DEF ExpireToken, Token
    <3> QED
      BY <2>1, <2>4, <3>1, NoneAssumption DEF ExpireToken, Token
  <2>5. CASE UNCHANGED vars
    BY <2>1, <2>5 DEF vars
  <2> QED
    BY <2>2, <2>3, <2>4, <2>5
<1>3. /\ session' \in [Users -> SUBSET Roles]
      /\ \A u \in Users : session'[u] # {} => session[u] # {} \/ u \in proven
  <2>1. session \in [Users -> SUBSET Roles] /\ user \in [Users -> Account \cup {None}]
    BY DEF Inv, TypeOK
  <2>2. ASSUME NEW u \in Users, Login(u)
        PROVE  <1>3!1 /\ <1>3!2
    <3>1. u \in proven /\ user[u].role \in Roles
      BY <2>2, Typing DEF Login, MayLogin, Is, Inv, OnlyProvenAreLetIn
    <3> QED
      BY <2>1, <2>2, <3>1 DEF Login
  <2>3. ASSUME NEW u \in Users, Logout(u)
        PROVE  <1>3!1 /\ <1>3!2
    BY <2>1, <2>3 DEF Logout
  <2>4. CASE UNCHANGED session
    BY <2>1, <2>4
  <2> QED
    BY <2>2, <2>3, <2>4 DEF Forgot, ExpireToken, vars
<1>4. TypeOK'
  BY <1>1, <1>2, <1>3 DEF Inv, TypeOK
<1>5. OnlyProvenAreLetIn'
  BY <1>1, <1>3 DEF Inv, OnlyProvenAreLetIn, Is, Known
<1>6. Kept
  BY <1>1, <1>2 DEF Kept, Known
<1>7. InFlight'
  BY <1>1, <1>6, InFlightStays
<1>8. TokensKnown'
  BY <1>1, <1>2 DEF TokensKnown, Known, Inv
<1>9. InSequence'
  <2> SUFFICES ASSUME ~overlap' PROVE InSequence'
    BY DEF InSequence
  <2>1. \A h \in Slots : Fits(req[h]) /\ Fresh(req[h])
    BY <1>1 DEF Inv, InFlight, InSequence
  <2>2. \A h \in Slots : Fresh(req[h])'
    BY <1>1, <1>2, <2>1 DEF Fresh, Fits, IsToken, Is, Known, MayDisable, MayDemote,
                            EnabledIn, AdministratorsIn, Members
  <2>3. \A t \in Tokens : UsedOnce(t)'
    BY <1>1, <1>2 DEF Inv, InSequence, UsedOnce, IsToken
  <2> QED
    BY <1>1, <2>2, <2>3 DEF Inv, InSequence
<1> QED
  BY <1>4, <1>5, <1>7, <1>8, <1>9 DEF Inv

-----------------------------------------------------------------------------
(* The invariant.                                                          *)

LEMMA InvInit == Init => Inv
<1> SUFFICES ASSUME Init PROVE Inv
  OBVIOUS
<1>1. TypeOK
  <2>1. /\ user \in [Users -> Account \cup {None}]
        /\ token \in [Tokens -> Token \cup {None}]
    BY DEF Init
  <2>2. session \in [Users -> SUBSET Roles]
    BY DEF Init
  <2>3. req \in [Slots -> Request]
    BY IdleFits DEF Init
  <2>4. proven \subseteq Users /\ uses \in [Tokens -> 0 .. 2]
    BY DEF Init
  <2>5. overlap \in BOOLEAN
    BY DEF Init
  <2> QED
    BY <2>1, <2>2, <2>3, <2>4, <2>5 DEF TypeOK
<1>2. OnlyProvenAreLetIn /\ TokensKnown
  BY DEF Init, OnlyProvenAreLetIn, TokensKnown, Is, Known
<1>3. \A h \in Slots : req[h] = Idle
  BY DEF Init
<1>4. InFlight
  BY <1>3, IdleFits DEF InFlight
<1>5. InSequence
  <2>1. \A t \in Tokens : UsedOnce(t)
    BY DEF Init, UsedOnce, IsToken
  <2> QED
    BY <1>3, <2>1, IdleFits DEF InSequence
<1> QED
  BY <1>1, <1>2, <1>4, <1>5 DEF Inv

LEMMA InvStep ==
  ASSUME Inv, [Next]_vars
  PROVE  Inv'
<1>1. ASSUME NEW h \in Slots, Start(h) \/ Proceed(h) \/ Abandon(h)
      PROVE  Inv'
  BY <1>1, StartStep, InsertStep, TokenStep, VerifyStep, SetupStep, ResetStep, MemberStep
     DEF Proceed
<1> QED
  BY <1>1, AsideStep DEF Next

\* What an account and a session are worth, what a request in flight may rely
\* on, and what only a request that is alone may rely on, hold in every state.
THEOREM AccountsInvariance == Spec => []Inv
<1> QED
  BY InvInit, InvStep, PTL DEF Spec

\* The users table, the tokens and the requests keep their types.
THEOREM AccountsTypeCorrect == Spec => []TypeOK
<1>1. Inv => TypeOK
  BY DEF Inv
<1> QED
  BY AccountsInvariance, <1>1, PTL

\* Nobody is let in on an address they never answered from, however
\* verifications, set-ups, resets and changes of members interleave.
THEOREM NobodyUnprovenIsLetIn == Spec => []OnlyProvenAreLetIn
<1>1. Inv => OnlyProvenAreLetIn
  BY DEF Inv
<1> QED
  BY AccountsInvariance, <1>1, PTL

\* A set-up token sets one password as long as requests do not overlap.
THEOREM SetupTokensWorkOnce == Spec => []SetupTokenOnceInSequence
<1>1. Inv => SetupTokenOnceInSequence
  BY DEF Inv, TypeOK, InSequence, UsedOnce, IsToken, SetupTokenOnceInSequence
<1> QED
  BY AccountsInvariance, <1>1, PTL

-----------------------------------------------------------------------------
(* Requests that do not overlap.                                           *)

\* A step leaves somebody's standing alone, or brings an unverified user.
SameStanding(u) == \/ user'[u] = user[u]
                   \/ /\ Known(u) /\ Known(u)'
                      /\ user'[u].status = user[u].status
                      /\ user'[u].role = user[u].role

Arrives(u) == ~Known(u) /\ Known(u)' /\ user'[u].status = "unverified"

\* The steps that write the status or the role of a known user.
LEMMA OnlyTheseWrite ==
  ASSUME Inv, [Next]_vars
  PROVE  \/ \A u \in Users : SameStanding(u) \/ Arrives(u)
         \/ \E h \in Slots : /\ req[h].user \in Users /\ Known(req[h].user)
                             /\ VerifyUpdate(h) \/ SetupCommit(h) \/ MemberUpdate(h)
<1>1. user \in [Users -> Account \cup {None}] /\ \A h \in Slots : Fits(req[h])
  BY DEF Inv, InFlight, TypeOK
<1>2. ASSUME NEW h \in Slots, VerifyUpdate(h) \/ SetupCommit(h) \/ MemberUpdate(h)
      PROVE  req[h].user \in Users /\ Known(req[h].user)
  BY <1>1, <1>2 DEF VerifyUpdate, SetupCommit, MemberUpdate, At, Fits, AboutMember
<1>3. ASSUME NEW h \in Slots, SignupInsert(h) \/ AddInsert(h)
      PROVE  \A u \in Users : SameStanding(u) \/ Arrives(u)
  <2>1. PICK row : /\ row.status = "unverified" /\ row # None
                   /\ user' = [user EXCEPT ![req[h].user] = row]
    <3>1. CASE SignupInsert(h)
      <4>1. NewAccount("administrator", "form") \in Account
        BY DEF NewAccount, Account, Roles, Status
      <4> QED
        BY <3>1, <4>1, NoneAssumption DEF SignupInsert, NewAccount
    <3>2. CASE AddInsert(h)
      <4>1. NewAccount(req[h].change.role, "placeholder") \in Account
        BY <1>1, <3>2 DEF AddInsert, At, Fits, NewAccount, Account, Status
      <4> QED
        BY <3>2, <4>1, NoneAssumption DEF AddInsert, NewAccount
    <3> QED
      BY <1>3, <3>1, <3>2
  <2>2. ~Known(req[h].user)
    BY <1>3 DEF SignupInsert, AddInsert
  <2> SUFFICES ASSUME NEW u \in Users PROVE SameStanding(u) \/ Arrives(u)
    OBVIOUS
  <2>3. CASE u = req[h].user
    BY <1>1, <2>1, <2>2, <2>3 DEF Arrives, Known
  <2>4. CASE u # req[h].user
    BY <1>1, <2>1, <2>4 DEF SameStanding
  <2> QED
    BY <2>3, <2>4
<1>4. ASSUME NEW h \in Slots, MailToken(h) \/ ResetPassword(h)
      PROVE  \A u \in Users : SameStanding(u)
  <2>1. /\ req[h].user \in Users /\ Known(req[h].user)
        /\ user[req[h].user] \in Account
    BY <1>1, <1>4 DEF MailToken, ResetPassword, At, Fits, AboutMember, Known
  <2>2. PICK row \in Account :
          /\ user' = [user EXCEPT ![req[h].user] = row]
          /\ row.status = user[req[h].user].status /\ row.role = user[req[h].user].role
    <3>1. CASE MailToken(h)
      <4>1. PICK t \in Tokens : user' = [user EXCEPT ![req[h].user].mail = t]
        BY <3>1 DEF MailToken
      <4>2. [user[req[h].user] EXCEPT !.mail = t] \in Account
        BY <2>1 DEF Account
      <4> QED
        BY <2>1, <4>1, <4>2 DEF Account
    <3>2. CASE ResetPassword(h)
      <4>1. user' = [user EXCEPT ![req[h].user].password = req[h].token]
        BY <3>2 DEF ResetPassword, ResetOnly
      <4>2. [user[req[h].user] EXCEPT !.password = req[h].token] \in Account
        BY <1>1, <2>1, <3>2 DEF Account, ResetPassword, At, Fits, IsToken
      <4> QED
        BY <2>1, <4>1, <4>2 DEF Account
    <3> QED
      BY <1>4, <3>1, <3>2
  <2> QED
    BY <1>1, <2>1, <2>2, NoneAssumption DEF Known, SameStanding
<1>5. CASE UNCHANGED user
  BY <1>5 DEF SameStanding
<1>6. ASSUME NEW h \in Slots, Start(h) \/ Abandon(h) \/ AddToken(h) \/ ResetUsed(h)
      PROVE  UNCHANGED user
  BY <1>6 DEF Start, SignupBegin, ResendBegin, VerifyBegin, AddBegin, MemberBegin,
              SetupBegin, ResetBegin, Abandon, AddToken, ResetUsed
<1>7. ASSUME NEW h \in Slots, Start(h) \/ Proceed(h) \/ Abandon(h)
      PROVE  \/ \A u \in Users : SameStanding(u) \/ Arrives(u)
             \/ \E k \in Slots : /\ req[k].user \in Users /\ Known(req[k].user)
                                 /\ VerifyUpdate(k) \/ SetupCommit(k) \/ MemberUpdate(k)
  BY <1>2, <1>3, <1>4, <1>5, <1>6, <1>7 DEF Proceed
<1> QED
  BY <1>5, <1>7 DEF Next, Forgot, Login, Logout, ExpireToken, vars

\* What the three of them write, by a request that is alone.
LEMMA WritersAlone ==
  ASSUME Inv, [Next]_vars, ~overlap', NEW h \in Slots,
         req[h].user \in Users, Known(req[h].user),
         VerifyUpdate(h) \/ SetupCommit(h) \/ MemberUpdate(h)
  PROVE  /\ \A v \in Users : v # req[h].user => user'[v] = user[v]
         /\ user'[req[h].user] # None
         /\ \/ /\ user'[req[h].user].status = "enabled"
               /\ user'[req[h].user].role = user[req[h].user].role
               /\ At(h, "verify.update") => Is(req[h].user, "unverified")
               /\ At(h, "verify.update") \/ At(h, "setup.commit")
            \/ /\ At(h, "member.update") /\ req[h].change \in Change
               /\ user'[req[h].user] = Amend(user[req[h].user], req[h].change)
               /\ req[h].change.status = "disabled" => MayDisable(req[h].user)
               /\ req[h].change.role \in {"user", "root"} => MayDemote(req[h].user)
<1> DEFINE u == req[h].user
<1>1. /\ user \in [Users -> Account \cup {None}] /\ user[u] \in Account
      /\ Fits(req[h])
  BY DEF Inv, InFlight, TypeOK, Known
<1>2. Fresh(req[h])
  BY DEF Inv, InSequence, VerifyUpdate, SetupCommit, MemberUpdate, End
<1>3. CASE VerifyUpdate(h)
  <2>1. [user[u] EXCEPT !.status = "enabled", !.mail = None] \in Account
    BY <1>1 DEF Account, Status
  <2>2. user' = [user EXCEPT ![u] = [user[u] EXCEPT !.status = "enabled", !.mail = None]]
    BY <1>1, <1>3 DEF VerifyUpdate, Account
  <2>3. [user[u] EXCEPT !.status = "enabled", !.mail = None].status = "enabled"
    BY <1>1 DEF Account
  <2>4. [user[u] EXCEPT !.status = "enabled", !.mail = None].role = user[u].role
    BY <1>1 DEF Account
  <2>5. At(h, "verify.update") /\ Is(u, "unverified")
    BY <1>2, <1>3 DEF VerifyUpdate, At, Fresh
  <2>6. user'[u] = [user[u] EXCEPT !.status = "enabled", !.mail = None]
    BY <1>1, <2>2
  <2>7. user'[u] # None
    BY <2>1, <2>6, NoneAssumption
  <2>8. \A v \in Users : v # u => user'[v] = user[v]
    BY <1>1, <2>2
  <2> QED
    BY <2>3, <2>4, <2>5, <2>6, <2>7, <2>8
<1>4. CASE SetupCommit(h)
  <2>1. [user[u] EXCEPT !.password = req[h].token, !.status = "enabled"] \in Account
    BY <1>1, <1>4 DEF Account, Status, SetupCommit, At, Fits, IsToken
  <2>2. user' = [user EXCEPT ![u] = [user[u] EXCEPT !.password = req[h].token,
                                                  !.status = "enabled"]]
    BY <1>4 DEF SetupCommit
  <2>3. [user[u] EXCEPT !.password = req[h].token, !.status = "enabled"].status = "enabled"
    BY <1>1 DEF Account
  <2>4. [user[u] EXCEPT !.password = req[h].token, !.status = "enabled"].role = user[u].role
    BY <1>1 DEF Account
  <2> QED
    BY <1>1, <1>4, <2>1, <2>2, <2>3, <2>4, NoneAssumption DEF SetupCommit, At
<1>5. CASE MemberUpdate(h)
  <2>1. At(h, "member.update") /\ req[h].change \in Change
    BY <1>1, <1>5 DEF MemberUpdate, At, Fits
  <2>2. Amend(user[u], req[h].change) \in Account
    BY <1>1, <2>1 DEF Amend, Change, Account
  <2>3. user' = [user EXCEPT ![u] = Amend(user[u], req[h].change)]
    BY <1>5 DEF MemberUpdate
  <2> QED
    BY <1>1, <1>2, <2>1, <2>2, <2>3, NoneAssumption DEF At, Fresh
<1> QED
  BY <1>3, <1>4, <1>5

\* Nobody's standing changes, but for those who arrive: the enabled users and
\* administrators stay who they are.
LEMMA StandingKeepsCounts ==
  ASSUME Inv, \A u \in Users : SameStanding(u) \/ Arrives(u), NEW o \in Users
  PROVE  EnabledIn(o)' = EnabledIn(o) /\ AdministratorsIn(o)' = AdministratorsIn(o)
<1>1. ASSUME NEW u \in Users
      PROVE  /\ (Known(u) /\ user[u].status = "enabled")
                  <=> (Known(u) /\ user[u].status = "enabled")'
             /\ (Known(u) /\ user[u].status = "enabled") => user'[u].role = user[u].role
  <2>1. CASE SameStanding(u)
    BY <2>1 DEF SameStanding, Known
  <2>2. CASE Arrives(u)
    BY <2>2 DEF Arrives
  <2> QED
    BY <2>1, <2>2
<1>2. EnabledIn(o)' = EnabledIn(o)
  BY <1>1 DEF EnabledIn, Members
<1>3. AdministratorsIn(o)' = AdministratorsIn(o)
  BY <1>1, <1>2 DEF AdministratorsIn, EnabledIn, Members
<1> QED
  BY <1>2, <1>3

\* the last enabled user is set to a status for which nothing is counted
SetAside(o) == \E h \in Slots : /\ At(h, "member.update")
                               /\ EnabledIn(o) = {req[h].user}
                               /\ req[h].change.status \in {"unverified", "deleted"}

LEMMA LastOnesStay ==
  ASSUME Inv, [Next]_vars, ~overlap', NEW o \in Users
  PROVE  /\ EnabledIn(o) # {} /\ EnabledIn(o)' = {} => SetAside(o)
         /\ AdministratorsIn(o) # {} /\ EnabledIn(o)' = EnabledIn(o)
              => AdministratorsIn(o)' # {}
<1>1. CASE \A u \in Users : SameStanding(u) \/ Arrives(u)
  BY <1>1, StandingKeepsCounts
<1>2. ASSUME NEW h \in Slots, req[h].user \in Users, Known(req[h].user),
             VerifyUpdate(h) \/ SetupCommit(h) \/ MemberUpdate(h)
      PROVE  /\ EnabledIn(o) # {} /\ EnabledIn(o)' = {} => SetAside(o)
             /\ AdministratorsIn(o) # {} /\ EnabledIn(o)' = EnabledIn(o)
                  => AdministratorsIn(o)' # {}
  <2> DEFINE u == req[h].user
  <2>1. \A v \in Users : v # u => user'[v] = user[v]
    BY <1>2, WritersAlone
  <2>2. user'[u] # None
    BY <1>2, WritersAlone
  <2>3. \A v \in EnabledIn(o) : v # u => v \in EnabledIn(o)'
    BY <2>1 DEF EnabledIn, Members, Known
  <2>4. \A v \in AdministratorsIn(o) : v # u => v \in AdministratorsIn(o)'
    BY <2>1 DEF AdministratorsIn, EnabledIn, Members, Known
  <2>5. CASE user'[u].status = "enabled" /\ user'[u].role = user[u].role
    <3>1. u \in EnabledIn(o) => u \in EnabledIn(o)'
      BY <2>2, <2>5 DEF EnabledIn, Members, Known
    <3>2. u \in AdministratorsIn(o) => u \in AdministratorsIn(o)'
      BY <2>2, <2>5 DEF AdministratorsIn, EnabledIn, Members, Known
    <3> QED
      BY <2>3, <2>4, <3>1, <3>2
  <2>6. CASE /\ At(h, "member.update") /\ req[h].change \in Change
             /\ user'[u] = Amend(user[u], req[h].change)
             /\ req[h].change.status = "disabled" => MayDisable(u)
             /\ req[h].change.role \in {"user", "root"} => MayDemote(u)
    <3>1. user[u] \in Account
      BY <1>2, Typing DEF Inv
    <3>2. /\ req[h].change.status \in Status \cup {None}
          /\ req[h].change.role \in Roles \cup {None}
      BY <2>6 DEF Change
    <3>3. ASSUME EnabledIn(o) = {u}, ~SetAside(o)
          PROVE  u \in EnabledIn(o)'
      <4>1. Founder[u] = o /\ user[u].status = "enabled"
        BY <3>3 DEF EnabledIn, Members
      <4>2. req[h].change.status # "disabled"
        BY <2>6, <3>3, <4>1 DEF MayDisable
      <4>3. req[h].change.status \in {"enabled", None}
        BY <2>6, <3>2, <3>3, <4>2 DEF SetAside, Status
      <4>4. user'[u].status = "enabled"
        BY <2>6, <3>1, <4>1, <4>3 DEF Amend, Account
      <4> QED
        BY <1>2, <2>2, <4>1, <4>4 DEF EnabledIn, Members, Known
    <3>4. ASSUME AdministratorsIn(o) = {u}, EnabledIn(o)' = EnabledIn(o)
          PROVE  u \in AdministratorsIn(o)'
      <4>1. Founder[u] = o /\ user[u].role = "administrator" /\ u \in EnabledIn(o)
        BY <3>4 DEF AdministratorsIn, EnabledIn, Members
      <4>2. req[h].change.role \notin {"user", "root"}
        BY <2>6, <3>4, <4>1 DEF MayDemote
      <4>3. user'[u].role = "administrator"
        BY <2>6, <3>1, <3>2, <4>1, <4>2 DEF Amend, Account, Roles
      <4>4. u \in EnabledIn(o)'
        BY <3>4, <4>1
      <4> QED
        BY <4>3, <4>4 DEF AdministratorsIn
    <3> QED
      BY <2>3, <2>4, <3>3, <3>4
  <2> QED
    BY <1>2, <2>5, <2>6, WritersAlone
<1> QED
  BY <1>1, <1>2, OnlyTheseWrite

\* As long as requests do not overlap an organization loses its last enabled
\* user only to an update that sets that user to "unverified" or "deleted", and
\* its last enabled administrator to no change of role: what updateMember
\* counted is true when it writes.
THEOREM LastOnesAreKept == Spec => LastOnesKeptInSequence
<1>1. Inv /\ [Next]_vars =>
        [~overlap' => \A o \in Users :
           /\ EnabledIn(o) # {} /\ EnabledIn(o)' = {} =>
                \E h \in Slots : /\ At(h, "member.update")
                                /\ EnabledIn(o) = {req[h].user}
                                /\ req[h].change.status \in {"unverified", "deleted"}
           /\ AdministratorsIn(o) # {} /\ EnabledIn(o)' = EnabledIn(o)
                => AdministratorsIn(o)' # {}]_vars
  BY LastOnesStay DEF SetAside
<1> QED
  BY AccountsInvariance, <1>1, PTL DEF Spec, LastOnesKeptInSequence

\* A disabled user is let in again by an administrator or a set-up token, and
\* by nothing else, as long as requests do not overlap.
THEOREM DisabledUsersStay == Spec => DisabledStaysInSequence
<1>1. ASSUME Inv, [Next]_vars, ~overlap', NEW u \in Users,
             Is(u, "disabled"), Is(u, "enabled")'
      PROVE  \E h \in Slots : /\ req[h].user = u
                              /\ At(h, "member.update") \/ At(h, "setup.commit")
  <2>1. ~(SameStanding(u) \/ Arrives(u))
    BY <1>1 DEF Is, SameStanding, Arrives
  <2>2. PICK h \in Slots : /\ req[h].user \in Users /\ Known(req[h].user)
                           /\ VerifyUpdate(h) \/ SetupCommit(h) \/ MemberUpdate(h)
    BY <1>1, <2>1, OnlyTheseWrite
  <2>3. \A v \in Users : v # req[h].user => user'[v] = user[v]
    BY <1>1, <2>2, WritersAlone
  <2>4. req[h].user = u
    BY <1>1, <2>3 DEF Is
  <2>5. \/ At(h, "verify.update") /\ Is(u, "unverified")
        \/ At(h, "setup.commit")
        \/ At(h, "member.update")
    BY <1>1, <2>2, <2>4, WritersAlone
  <2> QED
    BY <1>1, <2>4, <2>5 DEF Is
<1>2. Inv /\ [Next]_vars =>
        [~overlap' => \A u \in Users :
           Is(u, "disabled") /\ Is(u, "enabled")' =>
             \E h \in Slots : req[h].user = u /\ (At(h, "member.update") \/ At(h, "setup.commit"))]_vars
  BY <1>1
<1> QED
  BY AccountsInvariance, <1>2, PTL DEF Spec, DisabledStaysInSequence
=============================================================================
