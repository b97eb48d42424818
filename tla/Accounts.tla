------------------------------- MODULE Accounts -------------------------------
(***************************************************************************)
(* Accounts, tokens and who a request acts for.  Clients register and log  *)
(* in, the seed creates the accounts of the administrator and the editor,  *)
(* an administrator of the database (external: no handler does) changes    *)
(* roles, passwords and activity, and a request looks up its account by    *)
(* the token once, before it does its work.                                *)
(*                                                                         *)
(* An email is an address in some spelling of upper and lower case.        *)
(***************************************************************************)
EXTENDS Naturals, FiniteSets

CONSTANTS Addresses, Spellings,
          LowerCase,   \* the spelling that lower() makes of any other
          Passwords,
          Clients,     \* connections of clients, one call at a time each
          Seeded,      \* the emails of the seed, each with its role
          Lifetime,    \* of a token, access_token_expire_minutes
          Horizon      \* the last moment of the clock (a bound)

Emails == Addresses \X Spellings
Roles == {"author", "editor", "admin"}
Account == [role : Roles, active : BOOLEAN, password : Passwords]
None == [role |-> "none"]
Idle == [step |-> "idle"]

ASSUME AccountsAssumption ==
  /\ LowerCase \in Spellings
  /\ \A e \in DOMAIN Seeded : e \in Emails /\ Seeded[e] \in Roles
  /\ Lifetime \in Nat \ {0} /\ Horizon \in Nat

VARIABLES account,  \* account[e]: the row of users with the unique email e
          given,    \* given[a]: password of the account made for address a
          tokens,   \* the access tokens that were issued
          call,     \* call[c]: what connection c is doing
          seed,     \* the step of the seed: idle, or between select and insert
          now

vars == <<account, given, tokens, call, seed, now>>

Lower(e) == <<e[1], LowerCase>>

Init == /\ account = [e \in Emails |-> None]
        /\ given = [a \in Addresses |-> None]
        /\ tokens = {}
        /\ call = [c \in Clients |-> Idle]
        /\ seed = Idle
        /\ now = 0

Stored_AsTyped(e) == e    \* (mutant) the email is stored as it was typed
Stored(e) == Lower(e)

(* A second insert of an email waits for the first and is refused with 409 *)
Insert(e, role, password) ==
  /\ account[e] = None
  /\ account' = [account EXCEPT ![e] = [role |-> role, active |-> TRUE,
                                        password |-> password]]
  /\ given' = [given EXCEPT ![e[1]] = password]

Register(e, password) == /\ Insert(Stored(e), "author", password)
                         /\ UNCHANGED <<tokens, call, seed, now>>

(***************************************************************************)
(* login: the row is read, then the slow verification of the password, and *)
(* the token is signed.                                                    *)
(***************************************************************************)
VerifyPassword(password, x) == password = x.password

LookUp(c, e, password) ==
  /\ call[c] = Idle
  /\ call' = [call EXCEPT ![c] = [step |-> "login", email |-> Lower(e),
                 password |-> password, found |-> account[Lower(e)]]]
  /\ UNCHANGED <<account, given, tokens, seed, now>>

Accepted(x) == /\ x.found # None /\ x.found.active
               /\ VerifyPassword(x.password, x.found)

CreateAccessToken(e, role) == [email |-> e, role |-> role, exp |-> now + Lifetime]

Login(c) ==
  LET x == call[c]
  IN /\ x.step = "login"
     /\ Accepted(x)
     /\ tokens' = tokens \cup {CreateAccessToken(x.email, x.found.role)}
     /\ call' = [call EXCEPT ![c] = Idle]
     /\ UNCHANGED <<account, given, seed, now>>

Refuse(c) ==
  LET x == call[c]
  IN /\ x.step = "login"
     /\ ~Accepted(x)
     /\ call' = [call EXCEPT ![c] = Idle]
     /\ UNCHANGED <<account, given, tokens, seed, now>>

DecodeAccessToken(t) == now < t.exp

RoleOf_Claim(t) == t.role               \* (mutant) the role in the token counts
RoleOf(t) == account[t.email].role

(* get_current_user and require_editor                                     *)
Authenticate(c, t) ==
  /\ call[c] = Idle
  /\ t \in tokens /\ DecodeAccessToken(t)
  /\ account[t.email] # None /\ account[t.email].active
  /\ call' = [call EXCEPT ![c] = [step |-> "serve", email |-> t.email,
                 role |-> RoleOf(t), changed |-> FALSE]]
  /\ UNCHANGED <<account, given, tokens, seed, now>>

Answer(c) == /\ call[c].step = "serve"
             /\ call' = [call EXCEPT ![c] = Idle]
             /\ UNCHANGED <<account, given, tokens, seed, now>>

(***************************************************************************)
(* ensure_user: select, and insert if there was no row.  An insert that    *)
(* comes too late fails, and the seed is started again.                    *)
(***************************************************************************)
SeedSelect(e) == /\ seed = Idle /\ account[Lower(e)] = None
                 /\ seed' = [step |-> "insert", email |-> e]
                 /\ UNCHANGED <<account, given, tokens, call, now>>

(* (mutant) a row that is there by then is overwritten                     *)
Ensure_Overwrite(e, role, password) ==
  /\ account' = [account EXCEPT ![e] = [role |-> role, active |-> TRUE,
                                        password |-> password]]
  /\ given' = [given EXCEPT ![e[1]] = IF @ = None THEN password ELSE @]
Ensure(e, role, password) == Insert(e, role, password)

SeedInsert(password) == /\ seed # Idle
                        /\ Ensure(Lower(seed.email), Seeded[seed.email], password)
                        /\ seed' = Idle
                        /\ UNCHANGED <<tokens, call, now>>

SeedFails == /\ seed # Idle /\ seed' = Idle
             /\ UNCHANGED <<account, given, tokens, call, now>>

-----------------------------------------------------------------------------
Administer(e, x) ==
  /\ account[e] # None /\ x # account[e]
  /\ account' = [account EXCEPT ![e] = x]
  /\ given' = [given EXCEPT ![e[1]] = x.password]
  /\ call' = [c \in Clients |-> IF call[c].step = "serve" /\ call[c].email = e
                                THEN [call[c] EXCEPT !.changed = TRUE] ELSE call[c]]
  /\ UNCHANGED <<tokens, seed, now>>

Tick == now < Horizon /\ now' = now + 1 /\ UNCHANGED <<account, given, tokens, call, seed>>

Next == \/ \E e \in Emails, password \in Passwords : Register(e, password)
        \/ \E c \in Clients, e \in Emails, password \in Passwords : LookUp(c, e, password)
        \/ \E c \in Clients : Login(c) \/ Refuse(c) \/ Answer(c)
        \/ \E c \in Clients, t \in tokens : Authenticate(c, t)
        \/ \E e \in DOMAIN Seeded : SeedSelect(e)
        \/ \E password \in Passwords : SeedInsert(password)
        \/ SeedFails
        \/ \E e \in Emails, x \in Account : Administer(e, x)
        \/ Tick

Spec == Init /\ [][Next]_vars

-----------------------------------------------------------------------------
(* However it is spelled, by whichever of the clients and the seed, and    *)
(* whoever comes first, an address has one account.                        *)
OneAccountPerAddress ==
  \A a \in Addresses : Cardinality({s \in Spellings : account[<<a, s>>] # None}) <= 1

(* An account that was made, by a client or by the seed, is there to log   *)
(* in to with its password, until an administrator changes it: neither a   *)
(* later registration nor a seed that selected before takes it over.       *)
AccountsKept ==
  \A a \in Addresses : given[a] # None =>
    /\ account[<<a, LowerCase>>] # None
    /\ account[<<a, LowerCase>>].password = given[a]

(* A request acts with the role its account has, whatever role the token   *)
(* was issued for and was changed since then, and for an active account    *)
(* only; a change is overlooked only by the requests it falls into.        *)
ServedAsAccount ==
  \A c \in Clients : LET x == call[c] IN
    x.step = "serve" /\ ~x.changed =>
      account[x.email].active /\ account[x.email].role = x.role
=============================================================================
