---------------------------- MODULE AccountsProofs ----------------------------
(***************************************************************************)
(* Proofs about Accounts for any addresses, spellings, passwords, clients, *)
(* seed, lifetime of a token and clock.  They rest on one fact that every  *)
(* writer of users has to keep: a row's email is in lower case.            *)
(***************************************************************************)
EXTENDS Accounts, FiniteSetTheorems, TLAPS

LowerEmails == Addresses \X {LowerCase}
Looking == [step : {"login"}, email : LowerEmails, password : Passwords,
            found : Account \cup {None}]
Serving == [step : {"serve"}, email : LowerEmails, role : Roles, changed : BOOLEAN]
Token == [email : LowerEmails, role : Roles, exp : Nat]

TypeOK ==
  /\ account \in [Emails -> Account \cup {None}]
  /\ given \in [Addresses -> Passwords \cup {None}]
  /\ tokens \in SUBSET Token
  /\ call \in [Clients -> Looking \cup Serving \cup {Idle}]
  /\ seed \in [step : {"insert"}, email : DOMAIN Seeded] \cup {Idle}
  /\ now \in Nat

(* No row of users has an email that is not in lower case                  *)
Normalised == \A e \in Emails : account[e] # None => e \in LowerEmails

(* The account that a request was authenticated for has not gone           *)
ServedExists == \A c \in Clients : call[c].step = "serve" => account[call[c].email] # None

AInv == TypeOK /\ Normalised /\ AccountsKept /\ ServedExists /\ ServedAsAccount

USE AccountsAssumption DEF AccountsAssumption

LEMMA EmailFacts ==
  /\ LowerEmails \subseteq Emails
  /\ \A e \in Emails : Lower(e) \in LowerEmails /\ e[1] \in Addresses
  /\ \A e \in LowerEmails : e[1] \in Addresses /\ e = <<e[1], LowerCase>>
  /\ None \notin Account
BY DEF LowerEmails, Emails, Lower, None, Account, Roles

LEMMA StepApart ==
  /\ Idle.step = "idle"
  /\ \A x \in Looking : x.step = "login"
  /\ \A x \in Serving : x.step = "serve"
BY DEF Idle, Looking, Serving

(* An insert adds one account, with its password, and disturbs no other    *)
LEMMA Inserted ==
  ASSUME AInv, NEW e \in LowerEmails, NEW role \in Roles, NEW password \in Passwords,
         Insert(e, role, password)
  PROVE  /\ account' \in [Emails -> Account \cup {None}]
         /\ given' \in [Addresses -> Passwords \cup {None}]
         /\ Normalised' /\ AccountsKept'
         /\ \A f \in Emails : account[f] # None => account'[f] = account[f]
<1> DEFINE x == [role |-> role, active |-> TRUE, password |-> password]
<1>1. /\ account[e] = None /\ account' = [account EXCEPT ![e] = x]
      /\ given' = [given EXCEPT ![e[1]] = password]
  BY DEF Insert
<1>2. x \in Account /\ x # None /\ x.password = password
  <2>1. x \in Account /\ x.password = password
    BY DEF Account
  <2> HIDE DEF x
  <2>2. QED BY <2>1, EmailFacts
<1> HIDE DEF x
<1>3. e \in Emails /\ e[1] \in Addresses /\ e = <<e[1], LowerCase>>
  BY EmailFacts
<1>4. /\ account' \in [Emails -> Account \cup {None}]
      /\ \A f \in Emails : account'[f] = IF f = e THEN x ELSE account[f]
  BY <1>1, <1>2, <1>3 DEF AInv, TypeOK
<1>5. /\ given' \in [Addresses -> Passwords \cup {None}]
      /\ \A a \in Addresses : given'[a] = IF a = e[1] THEN password ELSE given[a]
  BY <1>1, <1>3 DEF AInv, TypeOK
<1>6. Normalised'
  BY <1>4 DEF AInv, Normalised
<1>7. ASSUME NEW a \in Addresses, given'[a] # None
      PROVE  /\ account'[<<a, LowerCase>>] # None
             /\ account'[<<a, LowerCase>>].password = given'[a]
  <2>1. <<a, LowerCase>> \in Emails
    BY DEF Emails
  <2>2. CASE a = e[1]
    BY <1>2, <1>3, <1>4, <1>5, <2>1, <2>2
  <2>3. CASE a # e[1]
    <3>1. <<a, LowerCase>> # e
      BY <1>3, <2>3
    <3>2. QED BY <1>4, <1>5, <1>7, <2>1, <2>3, <3>1 DEF AInv, AccountsKept
  <2>4. QED BY <2>2, <2>3
<1>8. QED BY <1>1, <1>4, <1>5, <1>6, <1>7 DEF AccountsKept

(* Requests in progress are not touched by an insert                       *)
LEMMA ServedKept ==
  ASSUME AInv, UNCHANGED call,
         \A f \in Emails : account[f] # None => account'[f] = account[f]
  PROVE  ServedExists' /\ ServedAsAccount'
<1>1. ASSUME NEW c \in Clients, call[c].step = "serve"
      PROVE  account'[call[c].email] = account[call[c].email]
  BY <1>1, StepApart, EmailFacts DEF AInv, TypeOK, Idle, Looking, Serving, ServedExists
<1>2. QED BY <1>1 DEF AInv, ServedExists, ServedAsAccount

LEMMA RegisterInv ==
  ASSUME AInv, NEW e \in Emails, NEW password \in Passwords, Register(e, password)
  PROVE  AInv'
<1>1. Lower(e) \in LowerEmails /\ "author" \in Roles
  BY EmailFacts DEF Roles
<1>2. Insert(Lower(e), "author", password) /\ UNCHANGED <<tokens, call, seed, now>>
  BY DEF Register, Stored
<1>3. QED BY <1>1, <1>2, Inserted, ServedKept DEF AInv, TypeOK

LEMMA SeedInsertInv ==
  ASSUME AInv, NEW password \in Passwords, SeedInsert(password)
  PROVE  AInv'
<1>1. /\ seed # Idle /\ Insert(Lower(seed.email), Seeded[seed.email], password)
      /\ seed' = Idle /\ UNCHANGED <<tokens, call, now>>
  BY DEF SeedInsert, Ensure
<1>2. seed.email \in DOMAIN Seeded
  BY <1>1 DEF AInv, TypeOK
<1>3. Lower(seed.email) \in LowerEmails /\ Seeded[seed.email] \in Roles
  BY <1>2, EmailFacts
<1>4. QED BY <1>1, <1>3, Inserted, ServedKept DEF AInv, TypeOK

LEMMA AdministerInv ==
  ASSUME AInv, NEW e \in Emails, NEW x \in Account, Administer(e, x)
  PROVE  AInv'
<1> DEFINE Marked(c) == IF call[c].step = "serve" /\ call[c].email = e
                        THEN [call[c] EXCEPT !.changed = TRUE] ELSE call[c]
<1>1. /\ account[e] # None /\ account' = [account EXCEPT ![e] = x]
      /\ given' = [given EXCEPT ![e[1]] = x.password]
      /\ call' = [c \in Clients |-> Marked(c)]
      /\ UNCHANGED <<tokens, seed, now>>
  BY DEF Administer
<1>2. x # None /\ x.password \in Passwords /\ e[1] \in Addresses
  BY EmailFacts DEF Account
<1>3. e \in LowerEmails /\ e = <<e[1], LowerCase>>
  BY <1>1, EmailFacts DEF AInv, Normalised
<1>4. /\ account' \in [Emails -> Account \cup {None}]
      /\ \A f \in Emails : account'[f] = IF f = e THEN x ELSE account[f]
  BY <1>1 DEF AInv, TypeOK
<1>5. /\ given' \in [Addresses -> Passwords \cup {None}]
      /\ \A a \in Addresses : given'[a] = IF a = e[1] THEN x.password ELSE given[a]
  BY <1>1, <1>2 DEF AInv, TypeOK
<1>6. ASSUME NEW c \in Clients
      PROVE  /\ Marked(c) \in Looking \cup Serving \cup {Idle}
             /\ Marked(c).step = call[c].step
             /\ call[c].step = "serve" =>
                  /\ call[c] \in Serving
                  /\ Marked(c).email = call[c].email /\ Marked(c).role = call[c].role
                  /\ Marked(c).changed = (call[c].changed \/ call[c].email = e)
  <2>1. call[c] \in Looking \cup Serving \cup {Idle}
    BY DEF AInv, TypeOK
  <2>2. CASE call[c].step = "serve"
    <3>1. call[c] \in Serving
      BY <2>1, <2>2, StepApart
    <3>2. CASE call[c].email = e
      BY <2>2, <3>1, <3>2 DEF Serving
    <3>3. CASE call[c].email # e
      BY <2>2, <3>1, <3>3 DEF Serving
    <3>4. QED BY <3>2, <3>3
  <2>3. CASE call[c].step # "serve"
    BY <2>1, <2>3
  <2>4. QED BY <2>2, <2>3
<1> HIDE DEF Marked
<1>7. TypeOK'
  BY <1>1, <1>4, <1>5, <1>6 DEF AInv, TypeOK
<1>8. Normalised'
  BY <1>3, <1>4 DEF AInv, Normalised
<1>9. AccountsKept'
  <2> SUFFICES ASSUME NEW a \in Addresses, given'[a] # None
               PROVE  /\ account'[<<a, LowerCase>>] # None
                      /\ account'[<<a, LowerCase>>].password = given'[a]
    BY DEF AccountsKept
  <2>1. <<a, LowerCase>> \in Emails /\ (<<a, LowerCase>> = e <=> a = e[1])
    BY <1>3 DEF Emails
  <2>2. QED BY <1>2, <1>4, <1>5, <2>1 DEF AInv, AccountsKept
<1>10. ServedExists' /\ ServedAsAccount'
  <2> SUFFICES ASSUME NEW c \in Clients, call'[c].step = "serve"
               PROVE  /\ account'[call'[c].email] # None
                      /\ ~call'[c].changed =>
                           /\ account'[call'[c].email].active
                           /\ account'[call'[c].email].role = call'[c].role
    BY DEF ServedExists, ServedAsAccount
  <2>1. call'[c] = Marked(c) /\ call[c].step = "serve"
    BY <1>1, <1>6
  <2>2. call[c].email \in Emails /\ call'[c].email = call[c].email
    BY <1>6, <2>1, EmailFacts DEF Serving
  <2>3. CASE call[c].email = e
    BY <1>2, <1>4, <1>6, <2>1, <2>2, <2>3
  <2>4. CASE call[c].email # e
    <3>1. account'[call'[c].email] = account[call[c].email]
      BY <1>4, <2>2, <2>4
    <3>2. call'[c].changed = call[c].changed /\ call'[c].role = call[c].role
      BY <1>6, <2>1, <2>4 DEF Serving
    <3>3. QED BY <2>1, <3>1, <3>2 DEF AInv, ServedExists, ServedAsAccount
  <2>5. QED BY <2>3, <2>4
<1>11. QED BY <1>7, <1>8, <1>9, <1>10 DEF AInv

(* The steps of a connection: one entry of call, at most one more token    *)
LEMMA ConnectionInv ==
  ASSUME AInv, NEW c \in Clients, NEW y \in Looking \cup Serving \cup {Idle},
         call' = [call EXCEPT ![c] = y], tokens' \in SUBSET Token,
         UNCHANGED <<account, given, seed, now>>,
         y \in Serving => /\ account[y.email] # None /\ account[y.email].active
                          /\ account[y.email].role = y.role
  PROVE  AInv'
<1>1. /\ call' \in [Clients -> Looking \cup Serving \cup {Idle}]
      /\ \A d \in Clients : call'[d] = IF d = c THEN y ELSE call[d]
  BY DEF AInv, TypeOK
<1>2. TypeOK' /\ Normalised' /\ AccountsKept'
  BY <1>1 DEF AInv, TypeOK, Normalised, AccountsKept
<1>3. y.step = "serve" => y \in Serving
  BY StepApart
<1>4. ServedExists' /\ ServedAsAccount'
  BY <1>1, <1>3 DEF AInv, ServedExists, ServedAsAccount
<1>5. QED BY <1>2, <1>4 DEF AInv

LEMMA LookUpInv ==
  ASSUME AInv, NEW c \in Clients, NEW e \in Emails, NEW password \in Passwords,
         LookUp(c, e, password)
  PROVE  AInv'
<1> DEFINE y == [step |-> "login", email |-> Lower(e), password |-> password,
                 found |-> account[Lower(e)]]
<1>1. /\ call' = [call EXCEPT ![c] = y]
      /\ UNCHANGED <<account, given, tokens, seed, now>>
  BY DEF LookUp
<1>2. y \in Looking
  BY EmailFacts DEF Looking, AInv, TypeOK
<1>3. y \notin Serving /\ tokens' \in SUBSET Token
  BY <1>1, <1>2, StepApart DEF AInv, TypeOK
<1> HIDE DEF y
<1>4. QED BY <1>1, <1>2, <1>3, ConnectionInv

LEMMA EndInv ==
  ASSUME AInv, NEW c \in Clients, Login(c) \/ Refuse(c) \/ Answer(c)
  PROVE  AInv'
<1>1. call' = [call EXCEPT ![c] = Idle] /\ UNCHANGED <<account, given, seed, now>>
  BY DEF Login, Refuse, Answer
<1>2. tokens' \in SUBSET Token
  <2>1. CASE UNCHANGED tokens
    BY <2>1 DEF AInv, TypeOK
  <2>2. CASE Login(c)
    <3> DEFINE x == call[c]
    <3>1. /\ x.step = "login" /\ x.found # None
          /\ tokens' = tokens \cup {CreateAccessToken(x.email, x.found.role)}
      BY <2>2 DEF Login, Accepted
    <3>2. x \in Looking
      BY <3>1, StepApart DEF AInv, TypeOK
    <3>3. x.email \in LowerEmails /\ x.found.role \in Roles
      BY <3>1, <3>2 DEF Looking, Account
    <3>4. CreateAccessToken(x.email, x.found.role) \in Token
      BY <3>3 DEF CreateAccessToken, Token, AInv, TypeOK
    <3>5. QED BY <3>1, <3>4 DEF AInv, TypeOK
  <2>3. QED BY <2>1, <2>2 DEF Refuse, Answer
<1>3. Idle \notin Serving
  BY StepApart
<1>4. QED BY <1>1, <1>2, <1>3, ConnectionInv

LEMMA AuthenticateInv ==
  ASSUME AInv, NEW c \in Clients, NEW t \in tokens, Authenticate(c, t)
  PROVE  AInv'
<1> DEFINE y == [step |-> "serve", email |-> t.email, role |-> account[t.email].role,
                 changed |-> FALSE]
<1>1. /\ account[t.email] # None /\ account[t.email].active
      /\ call' = [call EXCEPT ![c] = y]
      /\ UNCHANGED <<account, given, tokens, seed, now>>
  BY DEF Authenticate, RoleOf
<1>2. t.email \in LowerEmails /\ account[t.email] \in Account
  BY <1>1, EmailFacts DEF AInv, TypeOK, Token
<1>3. y \in Serving /\ y.email = t.email /\ y.role = account[t.email].role
  BY <1>2 DEF Serving, Account
<1> HIDE DEF y
<1>4. tokens' \in SUBSET Token
  BY <1>1 DEF AInv, TypeOK
<1>5. QED BY <1>1, <1>3, <1>4, ConnectionInv

LEMMA AInvNext == ASSUME AInv, [Next]_vars PROVE AInv'
<1>1. CASE UNCHANGED vars
  BY <1>1 DEF vars, AInv, TypeOK, Normalised, AccountsKept, ServedExists, ServedAsAccount
<1>2. CASE UNCHANGED <<account, given, tokens, call>> /\ TypeOK'
  BY <1>2 DEF AInv, Normalised, AccountsKept, ServedExists, ServedAsAccount
<1>3. ASSUME NEW e \in DOMAIN Seeded, SeedSelect(e) PROVE AInv'
  BY <1>2, <1>3 DEF SeedSelect, AInv, TypeOK
<1>4. CASE SeedFails \/ Tick
  BY <1>2, <1>4 DEF SeedFails, Tick, AInv, TypeOK
<1>5. QED
  BY <1>1, <1>3, <1>4, RegisterInv, LookUpInv, EndInv, AuthenticateInv, SeedInsertInv,
     AdministerInv DEF Next

(* The rows of users, the tokens, the connections and the seed have their  *)
(* types, emails are kept in lower case, and what a request was let in     *)
(* for is what its account says: together these are inductive.             *)
THEOREM InductiveInvariant == Spec => []AInv
<1>1. Init => AInv
  <2> SUFFICES ASSUME Init PROVE AInv
    OBVIOUS
  <2>1. TypeOK
    BY DEF Init, TypeOK
  <2>2. \A c \in Clients : call[c].step = "idle"
    BY StepApart DEF Init
  <2>3. QED
    BY <2>1, <2>2 DEF Init, AInv, Normalised, AccountsKept, ServedExists, ServedAsAccount
<1>2. AInv /\ [Next]_vars => AInv'
  BY AInvNext
<1>3. QED BY <1>1, <1>2, PTL DEF Spec

(* Registration, seed and login agree on one spelling, so that no address  *)
(* has two accounts, whoever inserts first and whatever was typed.         *)
THEOREM OneAccount == Spec => []OneAccountPerAddress
<1>1. AInv => OneAccountPerAddress
  <2> SUFFICES ASSUME AInv, NEW a \in Addresses
               PROVE  Cardinality({s \in Spellings : account[<<a, s>>] # None}) <= 1
    BY DEF OneAccountPerAddress
  <2> DEFINE S == {s \in Spellings : account[<<a, s>>] # None}
  <2>1. S \subseteq {LowerCase}
    <3> SUFFICES ASSUME NEW s \in S PROVE s = LowerCase
      OBVIOUS
    <3>1. <<a, s>> \in Emails /\ account[<<a, s>>] # None
      BY DEF Emails
    <3>2. <<a, s>> \in LowerEmails
      BY <3>1 DEF AInv, Normalised
    <3>3. QED BY <3>2 DEF LowerEmails
  <2> HIDE DEF S
  <2>2. IsFiniteSet({LowerCase}) /\ Cardinality({LowerCase}) = 1
    BY FS_Singleton
  <2>3. Cardinality(S) <= Cardinality({LowerCase})
    BY <2>1, <2>2, FS_Subset
  <2>4. QED BY <2>2, <2>3 DEF S
<1>2. QED BY <1>1, InductiveInvariant, PTL

(* An account keeps its password until an administrator changes it.        *)
THEOREM AccountKept == Spec => []AccountsKept
<1>1. AInv => AccountsKept
  BY DEF AInv
<1>2. QED BY <1>1, InductiveInvariant, PTL

(* A request that has been let in acts with the present role of an active  *)
(* account, unless the account was changed while the request was served.   *)
THEOREM RoleIsAccounts == Spec => []ServedAsAccount
<1>1. AInv => ServedAsAccount
  BY DEF AInv
<1>2. QED BY <1>1, InductiveInvariant, PTL
=============================================================================
