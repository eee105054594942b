------------------------------- MODULE Accounts -------------------------------
(***************************************************************************)
(* User accounts and the membership of organizations: sign-up and e-mail   *)
(* verification, colleagues added by an organization, set-up and reset     *)
(* tokens for passwords, login (apps/api/src/services/user-service.ts) and *)
(* the changes an administrator makes to a member's role and status        *)
(* (updateMember of organization-service.ts).                              *)
(*                                                                         *)
(* As in NodeConnections, a handler is a process that awaits: between the  *)
(* read that admits a request and its writes stand at least one database   *)
(* call and, for passwords, the slow bcrypt hash.                          *)
(*                                                                         *)
(* A user is known by the e-mail address (unique in the users table); an   *)
(* organization by the user who founded it.  Which password a user has is  *)
(* told by where it came from: the sign-up form, or the token it was set   *)
(* with.  Names and the content of e-mails are left out.                   *)
(***************************************************************************)
EXTENDS FiniteSets, Naturals

CONSTANTS Users,      \* e-mail addresses
          Founder,    \* who signed up the organization of each user
          Tokens,     \* random tokens yet to be generated
          Slots,      \* bound: requests in flight at the same time
          Bodies,     \* bound: the roles and statuses requests ask for
          None        \* SQL null, absent

ASSUME UsersAssumption == /\ Founder \in [Users -> Users]
                          /\ \A u \in Users : Founder[Founder[u]] = Founder[u]
                          /\ None \notin Users \cup Tokens
ASSUME TokensAssumption == {"form", "placeholder"} \cap Tokens = {}

VARIABLES user,     \* the users table: address -> row, or None
          token,    \* every token generated: token -> what for, or None
          session,  \* roles of the valid JWTs each user holds
          req,      \* requests in flight
          proven,   \* history: who has presented a token mailed to them
          uses,     \* history: how often each token has set a password
          overlap   \* history: have two requests ever been in flight together?

vars == <<user, token, session, req, proven, uses, overlap>>

Roles  == {"administrator", "user", "root"}
Status == {"unverified", "enabled", "disabled", "deleted"}

Account == [role : Roles, status : Status,
            password : Tokens \cup {"form", "placeholder"},
            mail : Tokens \cup {None}]        \* emailVerificationToken

Token == [user : Users, type : {"verify", "setup", "reset"},
          used : BOOLEAN, expired : BOOLEAN]

Steps == {"idle", "signup.insert", "signup.mail", "add.insert", "add.token",
          "resend.mail", "verify.update", "setup.commit", "reset.password",
          "reset.used", "member.update"}

\* the body of an update, written as it came; None is what it leaves out
Change == [role : Roles \cup {None}, status : Status \cup {None}]

Request == [step : Steps, user : Users \cup {None}, token : Tokens \cup {None},
            change : Change \cup {None}]

ASSUME NoneAssumption == None \notin Account \cup Token \cup Change \cup Roles \cup Status
ASSUME BodiesAssumption == Bodies \subseteq Change

Idle == [step |-> "idle", user |-> None, token |-> None, change |-> None]

-----------------------------------------------------------------------------
(* The tables.                                                             *)

Known(u)          == user[u] # None
Is(u, s)          == Known(u) /\ user[u].status = s
Members(o)        == {u \in Users : Founder[u] = o /\ Known(u)}
EnabledIn(o)      == {u \in Members(o) : user[u].status = "enabled"}
AdministratorsIn(o) == {u \in EnabledIn(o) : user[u].role = "administrator"}

NewAccount(role, password) ==
  [role |-> role, status |-> "unverified", password |-> password, mail |-> None]

Issue(t, u, type) ==
  /\ token[t] = None
  /\ token' = [token EXCEPT ![t] = [user |-> u, type |-> type,
                                    used |-> FALSE, expired |-> FALSE]]

\* faulty variant: only the expiry is read
UsableUntilExpired(t, type) == /\ token[t] # None
                               /\ token[t].type = type
                               /\ ~token[t].expired

\* a token of this type that is neither used nor expired
Usable(t, type) == /\ token[t] # None
                   /\ token[t].type = type
                   /\ ~token[t].used /\ ~token[t].expired

-----------------------------------------------------------------------------
(* Where a request is.                                                     *)

At(h, s)   == req[h].step = s
Goto(h, s) == req' = [req EXCEPT ![h].step = s] /\ UNCHANGED overlap
End(h)     == req' = [req EXCEPT ![h] = Idle] /\ UNCHANGED overlap

Begin(h, s, u, t, c) ==
  /\ req[h] = Idle
  /\ req' = [req EXCEPT ![h] = [step |-> s, user |-> u, token |-> t, change |-> c]]
  /\ overlap' = (overlap \/ \E k \in Slots \ {h} : req[k] # Idle)

-----------------------------------------------------------------------------
(* signup: an unknown address founds an organization; INSERT, then UPDATE  *)
(* with a fresh verification token, then the e-mail.                       *)

SignupBegin(h, u) ==
  /\ Founder[u] = u
  /\ ~Known(u)
  /\ Begin(h, "signup.insert", u, None, None)
  /\ UNCHANGED <<user, token, session, proven, uses>>

\* the unique index on the address decides
SignupInsert(h) ==
  LET u == req[h].user
  IN /\ At(h, "signup.insert")
     /\ ~Known(u)
     /\ user' = [user EXCEPT ![u] = NewAccount("administrator", "form")]
     /\ Goto(h, "signup.mail")
     /\ UNCHANGED <<token, session, proven, uses>>

MailToken(h) ==
  /\ At(h, "signup.mail") \/ At(h, "resend.mail")
  /\ \E t \in Tokens :
       /\ Issue(t, req[h].user, "verify")
       /\ user' = [user EXCEPT ![req[h].user].mail = t]
  /\ End(h)
  /\ UNCHANGED <<session, proven, uses>>

\* resendEmailVerification, more than a minute after the last one
ResendBegin(h, u) ==
  /\ Is(u, "unverified")
  /\ Begin(h, "resend.mail", u, None, None)
  /\ UNCHANGED <<user, token, session, proven, uses>>

-----------------------------------------------------------------------------
(* addUserToOrganization: anyone of the organization who is logged in, any *)
(* administrator and any root user add a colleague, in the role they name, *)
(* who gets a set-up token.                                                *)

AddBegin(h, by, u, c) ==
  /\ c.role # None /\ c.status = None
  /\ session[by] # {}
  /\ session[by] \cap {"administrator", "root"} # {} \/ Founder[by] = Founder[u]
  /\ Founder[u] # u /\ Known(Founder[u])
  /\ ~Known(u)
  /\ Begin(h, "add.insert", u, None, c)
  /\ UNCHANGED <<user, token, session, proven, uses>>

AddInsert(h) ==
  LET u == req[h].user
  IN /\ At(h, "add.insert")
     /\ ~Known(u)
     /\ user' = [user EXCEPT ![u] = NewAccount(req[h].change.role, "placeholder")]
     /\ Goto(h, "add.token")
     /\ UNCHANGED <<token, session, proven, uses>>

AddToken(h) ==
  /\ At(h, "add.token")
  /\ \E t \in Tokens : Issue(t, req[h].user, "setup")
  /\ End(h)
  /\ UNCHANGED <<user, session, proven, uses>>

-----------------------------------------------------------------------------
(* verifyEmail: find the unverified user of the token, UPDATE by id.       *)

VerifyBegin(h, u) ==
  /\ Is(u, "unverified")
  /\ user[u].mail # None /\ ~token[user[u].mail].expired
  /\ Begin(h, "verify.update", u, user[u].mail, None)
  /\ UNCHANGED <<user, token, session, proven, uses>>

VerifyUpdate(h) ==
  /\ At(h, "verify.update")
  /\ user' = [user EXCEPT ![req[h].user].status = "enabled",
                          ![req[h].user].mail = None]
  /\ proven' = proven \cup {req[h].user}
  /\ End(h)
  /\ UNCHANGED <<token, session, uses>>

-----------------------------------------------------------------------------
(* setPasswordWithToken: read the set-up token, hash, then in one          *)
(* transaction set password and status and mark the token used.            *)

Counted(t) == [uses EXCEPT ![t] = IF @ < 2 THEN @ + 1 ELSE @]   \* bound: 2

SetupBegin(h, t) ==
  /\ Usable(t, "setup")
  /\ Begin(h, "setup.commit", token[t].user, t, None)
  /\ UNCHANGED <<user, token, session, proven, uses>>

SetupCommit(h) ==
  LET r == req[h]
  IN /\ At(h, "setup.commit")
     /\ user' = [user EXCEPT ![r.user] = [@ EXCEPT !.password = r.token,
                                                   !.status = "enabled"]]
     /\ token' = [token EXCEPT ![r.token].used = TRUE]
     /\ uses' = Counted(r.token)
     /\ proven' = proven \cup {r.user}
     /\ End(h)
     /\ UNCHANGED session

-----------------------------------------------------------------------------
(* forgotPassword and resetPassword: the latter sets the password and      *)
(* marks the token used in two statements.                                 *)

Forgot(u) ==
  /\ Known(u)
  /\ \E t \in Tokens : Issue(t, u, "reset")
  /\ UNCHANGED <<user, session, req, proven, uses, overlap>>

ResetBegin(h, t) ==
  /\ Usable(t, "reset")
  /\ Begin(h, "reset.password", token[t].user, t, None)
  /\ UNCHANGED <<user, token, session, proven, uses>>

\* faulty variant: a reset enables, as a set-up does
ResetEnables(u, t) == [user EXCEPT ![u] = [@ EXCEPT !.password = t, !.status = "enabled"]]

ResetOnly(u, t)    == [user EXCEPT ![u].password = t]

ResetPassword(h) ==
  LET r == req[h]
  IN /\ At(h, "reset.password")
     /\ user' = ResetOnly(r.user, r.token)
     /\ uses' = Counted(r.token)
     /\ Goto(h, "reset.used")
     /\ UNCHANGED <<token, session, proven>>

ResetUsed(h) ==
  /\ At(h, "reset.used")
  /\ token' = [token EXCEPT ![req[h].token].used = TRUE]
  /\ End(h)
  /\ UNCHANGED <<user, session, proven, uses>>

-----------------------------------------------------------------------------
(* login yields a JWT that says what the row said; authenticate refuses    *)
(* one that does not say "enabled", and reads nothing else.                *)

MayLogin(u)  == Is(u, "enabled") /\ user[u].password # "placeholder"

Login(u) ==
  /\ MayLogin(u)
  /\ session' = [session EXCEPT ![u] = @ \cup {user[u].role}]
  /\ UNCHANGED <<user, token, req, proven, uses, overlap>>

\* six hours later
Logout(u) ==
  /\ session[u] # {}
  /\ session' = [session EXCEPT ![u] = {}]
  /\ UNCHANGED <<user, token, req, proven, uses, overlap>>

\* of a token that is used, or replaced in the row, nobody reads the age again
ExpireToken(t) ==
  /\ token[t] # None /\ ~token[t].expired /\ ~token[t].used
  /\ token[t].type = "verify" => user[token[t].user].mail = t
  /\ token' = [token EXCEPT ![t].expired = TRUE]
  /\ UNCHANGED <<user, session, req, proven, uses, overlap>>

-----------------------------------------------------------------------------
(* updateMember: read the member and count the others, then UPDATE by id.  *)
(* Two statuses have a check of their own, "enabled" and "disabled"; the   *)
(* other two pass with none.                                               *)

MayEnable(u)  == Is(u, "disabled")

\* faulty variant: without the count
DisableNoCount(u) == Is(u, "enabled")

MayDisable(u) == Is(u, "enabled") /\ EnabledIn(Founder[u]) # {u}

MayDemote(u)  == AdministratorsIn(Founder[u]) # {u}

MemberBegin(h, by, u, c) ==
  /\ \/ "root" \in session[by]
     \/ "administrator" \in session[by] /\ Founder[by] = Founder[u]
  /\ Known(u)
  /\ c.role = "root" => "root" \in session[by]
  /\ c.status = "enabled" => MayEnable(u)
  /\ c.status = "disabled" => MayDisable(u)
  /\ c.role \in {"user", "root"} => MayDemote(u)
  /\ Begin(h, "member.update", u, None, c)
  /\ UNCHANGED <<user, token, session, proven, uses>>

\* faulty variant: what is left out is written as null
AmendAll(a, c) == [a EXCEPT !.role = c.role, !.status = c.status]

\* what an update leaves out stays as it is
Amend(a, c)    == [a EXCEPT !.role   = IF c.role = None THEN @ ELSE c.role,
                            !.status = IF c.status = None THEN @ ELSE c.status]

MemberUpdate(h) ==
  LET r == req[h]
  IN /\ At(h, "member.update")
     /\ user' = [user EXCEPT ![r.user] = Amend(@, r.change)]
     /\ End(h)
     /\ UNCHANGED <<token, session, proven, uses>>

\* an INSERT meets the unique address, a mail fails, the process dies
Abandon(h) ==
  /\ req[h] # Idle
  /\ End(h)
  /\ UNCHANGED <<user, token, session, proven, uses>>

-----------------------------------------------------------------------------
Init == /\ user    = [u \in Users |-> None]
        /\ token   = [t \in Tokens |-> None]
        /\ session = [u \in Users |-> {}]
        /\ req     = [h \in Slots |-> Idle]
        /\ proven  = {}
        /\ uses    = [t \in Tokens |-> 0]
        /\ overlap = FALSE

Start(h) ==
  \/ \E u \in Users :
       \/ SignupBegin(h, u) \/ ResendBegin(h, u) \/ VerifyBegin(h, u)
       \/ \E by \in Users, c \in Bodies : AddBegin(h, by, u, c) \/ MemberBegin(h, by, u, c)
  \/ \E t \in Tokens : SetupBegin(h, t) \/ ResetBegin(h, t)

Proceed(h) == \/ SignupInsert(h) \/ MailToken(h) \/ AddInsert(h) \/ AddToken(h)
              \/ VerifyUpdate(h) \/ SetupCommit(h) \/ ResetPassword(h) \/ ResetUsed(h)
              \/ MemberUpdate(h)

Next == \/ \E h \in Slots : Start(h) \/ Proceed(h) \/ Abandon(h)
        \/ \E u \in Users : Forgot(u) \/ Login(u) \/ Logout(u)
        \/ \E t \in Tokens : ExpireToken(t)

Spec == Init /\ [][Next]_vars
-----------------------------------------------------------------------------
(* Properties.                                                             *)

\* Every row, request and token has the shape its table or handler gives it.
TypeOK == /\ user \in [Users -> Account \cup {None}]
          /\ token \in [Tokens -> Token \cup {None}]
          /\ session \in [Users -> SUBSET Roles]
          /\ req \in [Slots -> Request]
          /\ proven \subseteq Users
          /\ uses \in [Tokens -> 0 .. 2]
          /\ overlap \in BOOLEAN

\* Nobody is let in on an address they never answered from: every account that
\* is enabled, or was and is disabled, and every session, belongs to a user
\* who presented a token mailed to that address.  No password reset and no
\* update of a member gets around it, in any interleaving with a
\* verification: an update may set an account nobody has verified to
\* "deleted", or back to "unverified", but never to a status that lets in.
OnlyProvenAreLetIn ==
  \A u \in Users :
    Is(u, "enabled") \/ Is(u, "disabled") \/ session[u] # {} => u \in proven

\* "Cannot disable the last enabled user in the organization", as long as no
\* two requests overlap: what updateMember counts is then still true when it
\* writes.  An organization loses its last enabled user to no verification,
\* set-up, reset, enabling, disabling or change of role, but only to an update
\* that sets that very user to "unverified" or "deleted", for which nothing is
\* counted; and it loses its last enabled administrator to no change of role.
LastOnesKeptInSequence ==
  [][~overlap' => \A o \in Users :
       /\ EnabledIn(o) # {} /\ EnabledIn(o)' = {} =>
            \E h \in Slots : /\ At(h, "member.update")
                            /\ EnabledIn(o) = {req[h].user}
                            /\ req[h].change.status \in {"unverified", "deleted"}
       /\ AdministratorsIn(o) # {} /\ EnabledIn(o)' = EnabledIn(o)
            => AdministratorsIn(o)' # {}]_vars

\* "Once used or expired, token cannot be reused", as long as no two requests
\* overlap: a set-up token sets a password at most once, wherever the process
\* dies in between.
SetupTokenOnceInSequence ==
  ~overlap => \A t \in Tokens :
                token[t] # None /\ token[t].type = "setup" => uses[t] <= 1

\* As long as no two requests overlap, no step takes a user from disabled to
\* enabled but an update of the member or a set-up token still valid: not a
\* verification or a password reset that was under way.  (A verification does
\* enable a user whom an update has first set back to "unverified".)
DisabledStaysInSequence ==
  [][~overlap' => \A u \in Users :
       Is(u, "disabled") /\ Is(u, "enabled")' =>
         \E h \in Slots : req[h].user = u /\ (At(h, "member.update") \/ At(h, "setup.commit"))]_vars
=============================================================================
