--------------------------- MODULE SessionsProofs ---------------------------
(* Theorems about Sessions, for any accounts, browsers, requests, replicas.  *)
EXTENDS Sessions, TLAPS

USE SessionAssumption DEF SessionAssumption

-----------------------------------------------------------------------------
(* Types.                                                                    *)

Request == [browser : Browser, ask : Body, token : Token \cup {None},
            at : {"sent", "authorised", "loaded", "reply"}, row : Row \cup {None},
            cookie : Token \cup {None, Keep}]
Connection == [sub : Account, role : Role, at : Nat]

Types ==
  /\ scenario \in Scenario /\ now \in Nat
  /\ accounts \in [Account -> Row \cup {None}] /\ issued \subseteq Account
  /\ jar \in [Browser -> Token \cup {None}]
  /\ flight \in [Slot -> Request \cup {None}]
  /\ live \in [Browser -> Connection \cup {None}]
  /\ heldUntil \in [Account -> [Role -> Int]]
  /\ left \in [Browser -> {"no", "yes", "raced"}]

\* What a request is about: an address to sign up, an account to edit or to log in to.
Aimed ==
  \A s \in Slot : flight[s] # None =>
    /\ flight[s].ask.do = "signup" => flight[s].ask.on \in Email
    /\ flight[s].ask.do \in {"patch", "delete"} => flight[s].ask.on \in Account
    /\ flight[s].at = "loaded" => flight[s].ask.on \in Account

LEMMA NewTokenIsToken ==
  ASSUME Types, NEW a \in Account, Exists(a)
  PROVE  NewToken(a) \in Token /\ NewToken(a).sub = a /\ NewToken(a).role = accounts[a].role
                               /\ NewToken(a).iat = now
BY DEF Types, NewToken, Token, Row, Exists

LEMMA RenewedIsCookie ==
  ASSUME Types, NEW t \in Token \cup {None}, Known(t)
  PROVE  Renewed(t) \in Token \cup {None, Keep} /\ t \in Token /\ t.sub \in Account
<1>1. t \in Token /\ t.sub \in Account BY DEF Known, Valid, Token
<1>2. Exists(t.sub) BY DEF Known
<1> QED BY <1>1, <1>2, NewTokenIsToken DEF Renewed

\* A request that At describes.
LEMMA AtIsRequest ==
  ASSUME Types, NEW s \in Slot, NEW kinds, NEW stage, At(s, kinds, stage)
  PROVE  /\ flight[s] \in Request /\ flight[s] # None
         /\ flight[s].ask.do \in kinds /\ flight[s].at = stage
BY DEF Types, At

LEMMA AnswerFacts ==
  ASSUME Types, NEW s \in Slot, flight[s] \in Request,
         NEW c \in Token \cup {None, Keep}, Answer(s, c)
  PROVE  /\ flight' \in [Slot -> Request \cup {None}]
         /\ flight'[s] = [flight[s] EXCEPT !.at = "reply", !.cookie = c]
         /\ flight'[s] \in Request
         /\ flight'[s].browser = flight[s].browser /\ flight'[s].ask = flight[s].ask
         /\ flight'[s].token = flight[s].token /\ flight'[s].at = "reply"
         /\ flight'[s].cookie = c
         /\ \A x \in Slot \ {s} : flight'[x] = flight[x]
<1>1. flight' = [flight EXCEPT ![s] = [flight[s] EXCEPT !.at = "reply", !.cookie = c]]
  BY DEF Answer, Types
<1>2. [flight[s] EXCEPT !.at = "reply", !.cookie = c] \in Request BY DEF Request
<1> QED BY <1>1, <1>2 DEF Types, Request

LEMMA RefuseFacts ==
  ASSUME Types, NEW s \in Slot, flight[s] \in Request, Refuse(s)
  PROVE  /\ flight' \in [Slot -> Request \cup {None}] /\ flight'[s] \in Request
         /\ flight'[s].browser = flight[s].browser /\ flight'[s].ask = flight[s].ask
         /\ flight'[s].token = flight[s].token /\ flight'[s].at = "reply"
         /\ flight'[s].cookie = Keep
         /\ \A x \in Slot \ {s} : flight'[x] = flight[x]
BY AnswerFacts DEF Refuse

\* What any step of the server does to the requests.
Handled(s) ==
  /\ flight[s] \in Request /\ flight[s] # None
  /\ flight' \in [Slot -> Request \cup {None}] /\ flight'[s] \in Request
  /\ flight'[s].browser = flight[s].browser /\ flight'[s].ask.do = flight[s].ask.do
  /\ flight'[s].token = flight[s].token
  /\ \A x \in Slot \ {s} : flight'[x] = flight[x]

LEMMA AuthenticateHandles ==
  ASSUME Types, NEW s \in Slot, Authenticate(s)
  PROVE  /\ Handled(s) /\ flight'[s].ask = flight[s].ask /\ flight'[s].at \in {"reply", "authorised"}
         /\ flight[s].ask.do \in Authenticated
         /\ \/ flight'[s].cookie = Keep
            \/ flight[s].token # None /\ Known(flight[s].token)
                /\ flight'[s].cookie = Renewed(flight[s].token)
<1> DEFINE t == flight[s].token
<1>1. flight[s] \in Request /\ flight[s] # None /\ flight[s].ask.do \in Authenticated
  BY AtIsRequest DEF Authenticate
<1>2. t \in Token \cup {None} BY <1>1 DEF Request
<1>3. CASE Refuse(s) BY <1>1, <1>3, RefuseFacts DEF Handled
<1>4. CASE Known(t) /\ Answer(s, Renewed(t))
  <2>1. Renewed(t) \in Token \cup {None, Keep} /\ t # None BY <1>2, <1>4, RenewedIsCookie DEF Known, Valid
  <2> QED BY <1>1, <1>4, <2>1, AnswerFacts DEF Handled
<1>5. CASE /\ Known(t)
           /\ flight' = [flight EXCEPT ![s] = [@ EXCEPT !.at = "authorised", !.cookie = Renewed(t),
                                                       !.row = accounts[t.sub]]]
  <2>1. Renewed(t) \in Token \cup {None, Keep} /\ t # None /\ t.sub \in Account
    BY <1>2, <1>5, RenewedIsCookie DEF Known, Valid
  <2>2. accounts[t.sub] \in Row \cup {None} BY <2>1 DEF Types
  <2> DEFINE next == [flight[s] EXCEPT !.at = "authorised", !.cookie = Renewed(t),
                                       !.row = accounts[t.sub]]
  <2>3. flight' = [flight EXCEPT ![s] = next] BY <1>5 DEF Types
  <2>4. /\ next \in Request /\ next.browser = flight[s].browser /\ next.ask = flight[s].ask
        /\ next.token = t /\ next.at = "authorised" /\ next.cookie = Renewed(t)
    BY <1>1, <2>1, <2>2 DEF Request
  <2>5. flight'[s] = next /\ \A x \in Slot \ {s} : flight'[x] = flight[x] BY <2>3 DEF Types
  <2>6. flight' \in [Slot -> Request \cup {None}] BY <2>3, <2>4 DEF Types
  <2> QED BY <1>1, <1>5, <2>1, <2>4, <2>5, <2>6 DEF Handled
<1> QED BY <1>3, <1>4, <1>5 DEF Authenticate

LEMMA LoadHandles ==
  ASSUME Types, Aimed, NEW s \in Slot, Load(s)
  PROVE  /\ Handled(s) /\ flight'[s].ask = flight[s].ask
         /\ flight[s].ask.do \in {"patch", "delete"} /\ flight[s].ask.on \in Account
         /\ flight'[s].cookie \in {flight[s].cookie, Keep}
         /\ \/ flight'[s].at = "reply"
            \/ flight'[s].at = "loaded" /\ ~AgainstOneself(s)
<1> DEFINE a == flight[s].ask.on
           row == IF a = flight[s].token.sub THEN flight[s].row ELSE accounts[a]
<1>1. /\ flight[s] \in Request /\ flight[s] # None
      /\ flight[s].ask.do \in {"patch", "delete"} /\ flight[s].at = "authorised"
  BY AtIsRequest DEF Load
<1>2. a \in Account BY <1>1 DEF Aimed
<1>3. row \in Row \cup {None} BY <1>1, <1>2 DEF Types, Request
<1>4. CASE Refuse(s) BY <1>1, <1>2, <1>4, RefuseFacts DEF Handled
<1>5. CASE /\ ~AgainstOneself(s)
           /\ flight' = [flight EXCEPT ![s] = [@ EXCEPT !.at = "loaded", !.row = row]]
  <2> DEFINE next == [flight[s] EXCEPT !.at = "loaded", !.row = row]
  <2>1. flight' = [flight EXCEPT ![s] = next] BY <1>5 DEF Types
  <2>2. /\ next \in Request /\ next.browser = flight[s].browser /\ next.ask = flight[s].ask
        /\ next.token = flight[s].token /\ next.at = "loaded" /\ next.cookie = flight[s].cookie
    BY <1>1, <1>3 DEF Request
  <2>3. flight'[s] = next /\ \A x \in Slot \ {s} : flight'[x] = flight[x] BY <2>1 DEF Types
  <2>4. flight' \in [Slot -> Request \cup {None}] BY <2>1, <2>2 DEF Types
  <2> QED BY <1>1, <1>2, <1>5, <2>2, <2>3, <2>4 DEF Handled
<1> QED BY <1>4, <1>5 DEF Load

LEMMA CommitHandles ==
  ASSUME Types, NEW s \in Slot, CommitEdit(s)
  PROVE  /\ Handled(s) /\ flight'[s].ask = flight[s].ask /\ flight'[s].at = "reply"
         /\ flight[s].ask.do \in {"patch", "delete"}
         /\ flight'[s].cookie \in {flight[s].cookie, Keep}
<1>1. /\ flight[s] \in Request /\ flight[s] # None
      /\ flight[s].ask.do \in {"patch", "delete"}
  BY AtIsRequest DEF CommitEdit
<1>2. flight[s].cookie \in Token \cup {None, Keep} BY <1>1 DEF Request
<1>3. CASE Refuse(s) BY <1>1, <1>3, RefuseFacts DEF Handled
<1>4. CASE Answer(s, flight[s].cookie) BY <1>1, <1>2, <1>4, AnswerFacts DEF Handled
<1> QED BY <1>3, <1>4 DEF CommitEdit

LEMMA LogoutHandles ==
  ASSUME Types, NEW s \in Slot, Logout(s)
  PROVE  /\ Handled(s) /\ flight'[s].ask = flight[s].ask /\ flight'[s].at = "reply"
         /\ flight[s].ask.do = "logout" /\ flight'[s].cookie = None
<1>1. flight[s] \in Request /\ flight[s] # None /\ flight[s].ask.do \in {"logout"}
  BY AtIsRequest DEF Logout
<1>2. Answer(s, None) BY DEF Logout
<1> QED BY <1>1, <1>2, AnswerFacts DEF Handled

LEMMA InsertFacts ==
  ASSUME Types, NEW e \in Email, NEW role \in Role, Insert(e, role)
  PROVE  \E a \in Account \ issued :
           /\ accounts' = [accounts EXCEPT ![a] = [email |-> e, role |-> role, active |-> TRUE]]
           /\ issued' = issued \cup {a}
           /\ accounts' \in [Account -> Row \cup {None}]
           /\ accounts'[a].role = role /\ accounts'[a].email = e /\ accounts'[a] # None
           /\ \A x \in Account \ {a} : accounts'[x] = accounts[x]
<1>1. PICK a \in Account \ issued :
        /\ accounts' = [accounts EXCEPT ![a] = [email |-> e, role |-> role, active |-> TRUE]]
        /\ issued' = issued \cup {a}
  BY DEF Insert
<1>2. [email |-> e, role |-> role, active |-> TRUE] \in Row BY DEF Row
<1>3. accounts'[a] = [email |-> e, role |-> role, active |-> TRUE] BY <1>1 DEF Types
<1>4. accounts' \in [Account -> Row \cup {None}] BY <1>1, <1>2 DEF Types
<1>5. \A x \in Account \ {a} : accounts'[x] = accounts[x] BY <1>1 DEF Types
<1> QED BY <1>1, <1>2, <1>3, <1>4, <1>5

LEMMA SignupHandles ==
  ASSUME Types, Aimed, NEW s \in Slot, Signup(s)
  PROVE  /\ Handled(s) /\ flight'[s].ask = flight[s].ask /\ flight'[s].at = "reply"
         /\ flight[s].ask.do = "signup" /\ flight[s].ask.on \in Email
         /\ \/ flight'[s].cookie = Keep /\ UNCHANGED database
            \/ /\ ~Taken(flight[s].ask.on) /\ Insert(flight[s].ask.on, "guest")
               /\ \E a \in issued' \ issued :
                    flight'[s].cookie = [sub |-> a, role |-> "guest", iat |-> now]
<1>1. /\ flight[s] \in Request /\ flight[s] # None /\ flight[s].ask.do \in {"signup"}
      /\ flight[s].ask.on \in Email
  BY AtIsRequest DEF Signup, Aimed
<1>2. CASE Refuse(s) /\ UNCHANGED database BY <1>1, <1>2, RefuseFacts DEF Handled
<1>3. CASE /\ ~Taken(flight[s].ask.on) /\ Insert(flight[s].ask.on, "guest")
           /\ \E a \in issued' \ issued : Answer(s, [sub |-> a, role |-> "guest", iat |-> now])
  <2>1. PICK a \in issued' \ issued : Answer(s, [sub |-> a, role |-> "guest", iat |-> now])
    BY <1>3
  <2>2. a \in Account BY <1>1, <1>3, InsertFacts DEF Role, Types
  <2>3. [sub |-> a, role |-> "guest", iat |-> now] \in Token BY <2>2 DEF Token, Role, Types
  <2>4. Handled(s) /\ flight'[s].ask = flight[s].ask /\ flight'[s].at = "reply"
        /\ flight'[s].cookie = [sub |-> a, role |-> "guest", iat |-> now]
    BY <1>1, <2>1, <2>3, AnswerFacts DEF Handled
  <2> QED BY <1>1, <1>3, <2>4
<1> QED BY <1>2, <1>3 DEF Signup

LEMMA LoginReadHandles ==
  ASSUME Types, NEW s \in Slot, LoginRead(s)
  PROVE  /\ Handled(s) /\ flight[s].ask.do = "login"
         /\ \/ flight'[s].at = "reply" /\ flight'[s].cookie = Keep /\ flight'[s].ask = flight[s].ask
            \/ /\ flight'[s].at = "loaded" /\ flight'[s].ask.on \in Account
               /\ flight'[s].cookie = flight[s].cookie
<1>1. flight[s] \in Request /\ flight[s] # None /\ flight[s].ask.do \in {"login"}
  BY AtIsRequest DEF LoginRead
<1>2. CASE Refuse(s) BY <1>1, <1>2, RefuseFacts DEF Handled
<1>3. ASSUME NEW a \in Account, flight' = [flight EXCEPT ![s] = [@ EXCEPT !.at = "loaded", !.ask.on = a]]
      PROVE  /\ Handled(s) /\ flight'[s].at = "loaded" /\ flight'[s].ask.on \in Account
             /\ flight'[s].cookie = flight[s].cookie
  <2> DEFINE ask == [flight[s].ask EXCEPT !.on = a]
             next == [flight[s] EXCEPT !.at = "loaded", !.ask = ask]
  <2>1. flight' = [flight EXCEPT ![s] = next] BY <1>1, <1>3 DEF Types, Request
  <2>2. ask \in Body /\ ask.on = a /\ ask.do = flight[s].ask.do BY <1>1 DEF Request, Body
  <2>3. /\ next \in Request /\ next.browser = flight[s].browser /\ next.ask = ask
        /\ next.token = flight[s].token /\ next.at = "loaded" /\ next.cookie = flight[s].cookie
    BY <1>1, <2>2 DEF Request
  <2>4. flight'[s] = next /\ \A x \in Slot \ {s} : flight'[x] = flight[x] BY <2>1 DEF Types
  <2>5. flight' \in [Slot -> Request \cup {None}] BY <2>1, <2>3 DEF Types
  <2> HIDE DEF ask, next
  <2>6. /\ flight'[s] \in Request /\ flight'[s].browser = flight[s].browser
        /\ flight'[s].token = flight[s].token /\ flight'[s].at = "loaded"
        /\ flight'[s].cookie = flight[s].cookie
    BY <2>3, <2>4
  <2>7. flight'[s].ask.do = flight[s].ask.do /\ flight'[s].ask.on = a BY <2>2, <2>3, <2>4
  <2>8. Handled(s) BY <1>1, <2>4, <2>5, <2>6, <2>7 DEF Handled
  <2> QED BY <2>6, <2>7, <2>8
<1> QED BY <1>1, <1>2, <1>3 DEF LoginRead

LEMMA LoginCommitHandles ==
  ASSUME Types, Aimed, NEW s \in Slot, LoginCommit(s)
  PROVE  /\ Handled(s) /\ flight'[s].ask = flight[s].ask /\ flight'[s].at = "reply"
         /\ flight[s].ask.do = "login" /\ flight[s].ask.on \in Account
         /\ \/ flight'[s].cookie = Keep
            \/ Exists(flight[s].ask.on) /\ flight'[s].cookie = NewToken(flight[s].ask.on)
<1>1. /\ flight[s] \in Request /\ flight[s] # None /\ flight[s].ask.do \in {"login"}
      /\ flight[s].ask.on \in Account
  BY AtIsRequest DEF LoginCommit, Aimed
<1>2. CASE Refuse(s) BY <1>1, <1>2, RefuseFacts DEF Handled
<1>3. CASE Exists(flight[s].ask.on) /\ Answer(s, NewToken(flight[s].ask.on))
  <2>1. NewToken(flight[s].ask.on) \in Token BY <1>1, <1>3, NewTokenIsToken
  <2> QED BY <1>1, <1>3, <2>1, AnswerFacts DEF Handled
<1> QED BY <1>2, <1>3 DEF LoginCommit

-----------------------------------------------------------------------------
(* What a step does to the accounts.                                         *)

\* Rows change or go, and heldUntil remembers the role that was lost.
Remembers ==
  /\ now' \in Nat /\ now' >= now /\ issued \subseteq issued'
  /\ \A a \in Account : \A r \in Role :
       heldUntil'[a][r] = heldUntil[a][r] \/ heldUntil'[a][r] = now
  /\ \A a \in Account : Exists(a) =>
       \/ Exists(a)' /\ accounts'[a].role = accounts[a].role
       \/ heldUntil'[a][accounts[a].role] = now

LEMMA EditedIsRow ==
  ASSUME Types, NEW a \in Account, NEW ask \in Body, NEW read, Exists(a)
  PROVE  /\ Edited(a, read, ask) \in Row
         /\ Edited(a, read, ask).email = accounts[a].email
         /\ accounts[a].active /\ ask.active # "no" => Edited(a, read, ask).active
<1>1. accounts[a] \in Row BY DEF Types, Exists
<1>2. ask.role \in Role \cup {"unset"} /\ ask.active \in {"unset", "yes", "no"} BY DEF Body
<1> QED BY <1>1, <1>2 DEF Edited, Row

LEMMA EditFacts ==
  ASSUME Types, Aimed, NEW s \in Slot, CommitEdit(s)
  PROVE  /\ accounts' \in [Account -> Row \cup {None}]
         /\ heldUntil' \in [Account -> [Role -> Int]]
         /\ \A x \in Account : accounts'[x] = accounts[x] \/ Exists(x)
         /\ \A x \in Account : accounts'[x] # None =>
              accounts[x] # None /\ accounts'[x].email = accounts[x].email
         /\ Remembers
<1> DEFINE a == flight[s].ask.on
           row == IF flight[s].ask.do = "delete" THEN None ELSE Edited(a, flight[s].row, flight[s].ask)
<1>1. /\ flight[s] \in Request /\ flight[s] # None /\ flight[s].ask.do \in {"patch", "delete"}
  BY AtIsRequest DEF CommitEdit
<1>2. a \in Account /\ flight[s].ask \in Body BY <1>1 DEF Aimed, Request
<1>3. now' = now /\ issued' = issued /\ now \in Nat BY DEF CommitEdit, clock, Types
<1>4. CASE ~Exists(a)
  BY <1>3, <1>4 DEF CommitEdit, Types, Remembers, Exists
<1>5. CASE Exists(a)
  <2>1. accounts' = [accounts EXCEPT ![a] = row] /\ Loses(a, row) BY <1>5 DEF CommitEdit
  <2>2. /\ row \in Row \cup {None}
        /\ row # None => row.email = accounts[a].email
    BY <1>2, <1>5, EditedIsRow
  <2>3. accounts[a] \in Row /\ accounts[a].role \in Role BY <1>2, <1>5 DEF Types, Exists, Row
  <2> HIDE DEF row
  <2>4. accounts'[a] = row /\ \A x \in Account \ {a} : accounts'[x] = accounts[x]
    BY <2>1, <1>2 DEF Types
  <2>5. accounts' \in [Account -> Row \cup {None}] BY <2>1, <2>2 DEF Types
  <2>6. /\ heldUntil' \in [Account -> [Role -> Int]]
        /\ \A x \in Account : \A r \in Role :
             heldUntil'[x][r] = heldUntil[x][r] \/ heldUntil'[x][r] = now
        /\ (row # None /\ row.role = accounts[a].role) \/ heldUntil'[a][accounts[a].role] = now
    <3>1. CASE row # None /\ row.role = accounts[a].role BY <2>1, <3>1 DEF Loses, Types
    <3>2. CASE ~(row # None /\ row.role = accounts[a].role)
      <4> DEFINE h == [heldUntil[a] EXCEPT ![accounts[a].role] = now]
      <4>1. heldUntil' = [heldUntil EXCEPT ![a] = h] BY <2>1, <3>2 DEF Loses, Types
      <4>2. /\ h \in [Role -> Int] /\ h[accounts[a].role] = now
            /\ \A r \in Role : h[r] = heldUntil[a][r] \/ h[r] = now
        BY <1>2, <1>3, <2>3 DEF Types
      <4> HIDE DEF h
      <4>3. heldUntil'[a] = h /\ \A x \in Account \ {a} : heldUntil'[x] = heldUntil[x]
        BY <1>2, <4>1 DEF Types
      <4>4. heldUntil' \in [Account -> [Role -> Int]] BY <4>1, <4>2 DEF Types
      <4> QED BY <4>2, <4>3, <4>4
    <3> QED BY <3>1, <3>2
  <2>7. \A x \in Account : Exists(x) =>
          \/ Exists(x)' /\ accounts'[x].role = accounts[x].role
          \/ heldUntil'[x][accounts[x].role] = now
    BY <2>4, <2>6 DEF Exists
  <2>8. Remembers
    <3>1. now' \in Nat /\ now' >= now /\ issued \subseteq issued' BY <1>3
    <3> QED BY <2>6, <2>7, <3>1 DEF Remembers
  <2>9. \A x \in Account : accounts'[x] = accounts[x] \/ Exists(x) BY <2>4, <1>5
  <2>10. \A x \in Account : accounts'[x] # None =>
            accounts[x] # None /\ accounts'[x].email = accounts[x].email
    BY <2>2, <2>4, <1>5 DEF Exists
  <2> QED BY <2>5, <2>6, <2>8, <2>9, <2>10
<1> QED BY <1>4, <1>5

\* An INSERT draws an id nobody had.
LEMMA InsertRemembers ==
  ASSUME Types, \A a \in Account : Exists(a) => a \in issued,
         NEW e \in Email, NEW role \in Role, Insert(e, role), UNCHANGED <<now, heldUntil>>
  PROVE  /\ Remembers /\ accounts' \in [Account -> Row \cup {None}] /\ issued' \subseteq Account
         /\ \A a \in Account : Exists(a) => accounts'[a] = accounts[a]
         /\ \A a \in Account : Exists(a)' => a \in issued'
         /\ \A a \in issued' \ issued :
              a \in Account /\ accounts'[a] # None /\ accounts'[a].role = role
         /\ ~Taken(e) =>
              ( (\A a, b \in Account :
                   Exists(a) /\ Exists(b) /\ accounts[a].email = accounts[b].email => a = b)
                => \A a, b \in Account :
                     accounts'[a] # None /\ accounts'[b] # None
                       /\ accounts'[a].email = accounts'[b].email => a = b )
<1>1. PICK n \in Account \ issued :
        /\ issued' = issued \cup {n}
        /\ accounts' \in [Account -> Row \cup {None}]
        /\ accounts'[n].role = role /\ accounts'[n].email = e /\ accounts'[n] # None
        /\ \A x \in Account \ {n} : accounts'[x] = accounts[x]
  BY InsertFacts
<1>2. \A a \in Account : Exists(a) => a # n /\ accounts'[a] = accounts[a] BY <1>1
<1>3. Remembers BY <1>1, <1>2 DEF Remembers, Exists, Types
<1>4. \A a \in Account : Exists(a)' => a \in issued' BY <1>1 DEF Exists
<1>5. ~Taken(e) => \A a \in Account : Exists(a) => accounts[a].email # e BY DEF Taken
<1>6. \A a \in Account : accounts'[a] # None => a = n \/ (Exists(a) /\ accounts'[a] = accounts[a])
  BY <1>1 DEF Exists
<1> HIDE DEF Exists, Taken
<1>7. ASSUME ~Taken(e), \A a, b \in Account :
               Exists(a) /\ Exists(b) /\ accounts[a].email = accounts[b].email => a = b
      PROVE  \A a, b \in Account :
               accounts'[a] # None /\ accounts'[b] # None
                 /\ accounts'[a].email = accounts'[b].email => a = b
  BY <1>1, <1>5, <1>6, <1>7
<1> QED BY <1>1, <1>2, <1>3, <1>4, <1>7 DEF Types

Unique ==
  /\ \A a \in Account : Exists(a) => a \in issued
  /\ \A a, b \in Account :
       Exists(a) /\ Exists(b) /\ accounts[a].email = accounts[b].email => a = b

\* A token given out in this step, for what the account is after it.
Fresh(c) ==
  /\ c \in Token /\ c.iat = now' /\ c.sub \in issued'
  /\ accounts'[c.sub] # None /\ accounts'[c.sub].role = c.role

LEMMA NewTokenIsFresh ==
  ASSUME Types, Unique, NEW a \in Account, Exists(a), UNCHANGED <<now, database>>
  PROVE  Fresh(NewToken(a))
<1>1. /\ NewToken(a) \in Token /\ NewToken(a).sub = a /\ NewToken(a).role = accounts[a].role
      /\ NewToken(a).iat = now
  BY NewTokenIsToken
<1>2. a \in issued BY DEF Unique
<1> QED BY <1>1, <1>2 DEF Fresh, Exists, database

LEMMA SameRemembers ==
  ASSUME Types, UNCHANGED <<now, database, heldUntil>>
  PROVE  Remembers
BY DEF Types, Remembers, database, Exists

\* What the rest of the proofs need to know of the server's steps.
Served(s) ==
  /\ Handled(s) /\ Remembers /\ UNCHANGED <<clock, jar, live, left>>
  /\ accounts' \in [Account -> Row \cup {None}] /\ issued' \subseteq Account
  /\ heldUntil' \in [Account -> [Role -> Int]]
  /\ Unique'
  /\ \/ flight'[s].ask = flight[s].ask
     \/ flight[s].ask.do = "login" /\ flight'[s].ask.on \in Account
  /\ flight'[s].at = "loaded" => flight'[s].ask.on \in Account
  /\ flight'[s].at = "loaded" /\ flight[s].ask.do # "login" =>
       flight'[s].ask = flight[s].ask /\ ~AgainstOneself(s)
  /\ \/ flight'[s].cookie \in {flight[s].cookie, Keep, None}
     \/ /\ Fresh(flight'[s].cookie)
        /\ flight[s].ask.do \in {"login", "signup"} \/ flight[s].token # None
  /\ flight[s].ask.do = "logout" => flight'[s].cookie = None

LEMMA ServeFacts ==
  ASSUME Types, Aimed, Unique, NEW s \in Slot, Serve(s)
  PROVE  Served(s)
<1> DEFINE Still ==
      /\ UNCHANGED <<clock, jar, live, left>> /\ UNCHANGED <<accounts, issued, heldUntil>>
<1>0. ASSUME Still
      PROVE  /\ Remembers /\ UNCHANGED <<clock, jar, live, left>> /\ UNCHANGED <<now, database>>
             /\ accounts' \in [Account -> Row \cup {None}] /\ issued' \subseteq Account
             /\ heldUntil' \in [Account -> [Role -> Int]] /\ Unique'
  BY <1>0, SameRemembers DEF Types, Unique, Exists, clock, database
<1>1. CASE Authenticate(s)
  <2>1. Still BY <1>1 DEF Authenticate, database, history, clock
  <2>2. /\ Handled(s) /\ flight'[s].ask = flight[s].ask /\ flight'[s].at \in {"reply", "authorised"}
        /\ flight[s].ask.do \in Authenticated
        /\ \/ flight'[s].cookie = Keep
           \/ flight[s].token # None /\ Known(flight[s].token)
               /\ flight'[s].cookie = Renewed(flight[s].token)
    BY <1>1, AuthenticateHandles
  <2>3. ASSUME flight[s].token # None, Known(flight[s].token)
        PROVE  Renewed(flight[s].token) = Keep \/ Fresh(Renewed(flight[s].token))
    <3>1. flight[s].token \in Token /\ flight[s].token.sub \in Account /\ Exists(flight[s].token.sub)
      BY <2>2, <2>3, RenewedIsCookie DEF Handled, Request, Known
    <3>2. Fresh(NewToken(flight[s].token.sub)) BY <1>0, <2>1, <3>1, NewTokenIsFresh
    <3> QED BY <3>2 DEF Renewed
  <2> HIDE DEF Still
  <2> QED BY <1>0, <2>1, <2>2, <2>3 DEF Served, Authenticated
<1>2. CASE Load(s)
  <2>1. Still BY <1>2 DEF Load, database, history, clock
  <2> HIDE DEF Still
  <2> QED BY <1>0, <1>2, <2>1, LoadHandles DEF Served
<1>3. CASE CommitEdit(s)
  <2>1. UNCHANGED <<clock, issued, jar, live, left>> BY <1>3 DEF CommitEdit, clock
  <2>2. /\ accounts' \in [Account -> Row \cup {None}] /\ heldUntil' \in [Account -> [Role -> Int]]
        /\ Remembers
        /\ \A x \in Account : accounts'[x] # None =>
              accounts[x] # None /\ accounts'[x].email = accounts[x].email
    BY <1>3, EditFacts
  <2>3. Unique' BY <2>1, <2>2 DEF Unique, Exists
  <2>4. issued' \subseteq Account BY <2>1 DEF Types
  <2> QED BY <1>3, <2>1, <2>2, <2>3, <2>4, CommitHandles DEF Served
<1>4. CASE Logout(s)
  <2>1. Still BY <1>4 DEF Logout, database, history, clock
  <2> HIDE DEF Still
  <2> QED BY <1>0, <1>4, <2>1, LogoutHandles DEF Served
<1>5. CASE Signup(s)
  <2>1. UNCHANGED <<clock, jar, live, left, heldUntil>> BY <1>5 DEF Signup, clock, history
  <2>2. /\ Handled(s) /\ flight'[s].ask = flight[s].ask /\ flight'[s].at = "reply"
        /\ flight[s].ask.do = "signup" /\ flight[s].ask.on \in Email
        /\ \/ flight'[s].cookie = Keep /\ UNCHANGED database
           \/ /\ ~Taken(flight[s].ask.on) /\ Insert(flight[s].ask.on, "guest")
              /\ \E a \in issued' \ issued :
                   flight'[s].cookie = [sub |-> a, role |-> "guest", iat |-> now]
    BY <1>5, SignupHandles
  <2>3. CASE flight'[s].cookie = Keep /\ UNCHANGED database
    <3>1. Still BY <2>1, <2>3 DEF database
    <3> HIDE DEF Still
    <3> QED BY <1>0, <2>2, <2>3, <3>1 DEF Served
  <2>4. CASE ~Taken(flight[s].ask.on) /\ Insert(flight[s].ask.on, "guest")
    <3>1. \A a \in Account : Exists(a) => a \in issued BY DEF Unique
    <3>2. UNCHANGED <<now, heldUntil>> BY <2>1 DEF clock
    <3>3. /\ Remembers /\ accounts' \in [Account -> Row \cup {None}] /\ issued' \subseteq Account
          /\ \A a \in Account : Exists(a)' => a \in issued'
          /\ \A a \in issued' \ issued :
              a \in Account /\ accounts'[a] # None /\ accounts'[a].role = "guest"
          /\ (\A a, b \in Account :
                Exists(a) /\ Exists(b) /\ accounts[a].email = accounts[b].email => a = b)
             => \A a, b \in Account :
                  accounts'[a] # None /\ accounts'[b] # None
                    /\ accounts'[a].email = accounts'[b].email => a = b
      BY <2>2, <2>4, <3>1, <3>2, InsertRemembers DEF Role
    <3>4. Unique' BY <3>3 DEF Unique, Exists
    <3>5. flight'[s].cookie = Keep \/ Fresh(flight'[s].cookie)
      <4>1. CASE flight'[s].cookie = Keep BY <4>1
      <4>2. ASSUME NEW a \in issued' \ issued,
                   flight'[s].cookie = [sub |-> a, role |-> "guest", iat |-> now]
            PROVE  Fresh(flight'[s].cookie)
        <5>1. [sub |-> a, role |-> "guest", iat |-> now] \in Token
          BY <3>3 DEF Token, Role, Types
        <5> QED BY <3>2, <3>3, <4>2, <5>1 DEF Fresh
      <4> QED BY <2>2, <4>1, <4>2
    <3>6. heldUntil' \in [Account -> [Role -> Int]] BY <3>2 DEF Types
    <3> QED BY <2>1, <2>2, <3>3, <3>4, <3>5, <3>6 DEF Served
  <2> QED BY <2>2, <2>3, <2>4
<1>6. CASE LoginRead(s)
  <2>1. Still BY <1>6 DEF LoginRead, database, history, clock
  <2> HIDE DEF Still
  <2> QED BY <1>0, <1>6, <2>1, LoginReadHandles DEF Served
<1>7. CASE LoginCommit(s)
  <2>1. Still BY <1>7 DEF LoginCommit, database, history, clock
  <2>2. /\ Handled(s) /\ flight'[s].ask = flight[s].ask /\ flight'[s].at = "reply"
        /\ flight[s].ask.do = "login" /\ flight[s].ask.on \in Account
        /\ \/ flight'[s].cookie = Keep
           \/ Exists(flight[s].ask.on) /\ flight'[s].cookie = NewToken(flight[s].ask.on)
    BY <1>7, LoginCommitHandles
  <2>3. flight'[s].cookie = Keep \/ Fresh(flight'[s].cookie)
    BY <1>0, <2>1, <2>2, NewTokenIsFresh
  <2> HIDE DEF Still
  <2> QED BY <1>0, <2>1, <2>2, <2>3 DEF Served
<1> QED BY <1>1, <1>2, <1>3, <1>4, <1>5, <1>6, <1>7 DEF Serve

Base == Types /\ Aimed /\ Unique

LEMMA SendFacts ==
  ASSUME Types, NEW ask \in scenario.asks, Send(ask[1], ask[2])
  PROVE  \E s \in Slot :
           /\ flight[s] = None /\ flight'[s] \in Request
           /\ flight' \in [Slot -> Request \cup {None}]
           /\ \A x \in Slot \ {s} : flight'[x] = flight[x]
           /\ flight'[s].browser = ask[1] /\ flight'[s].ask = ask[2] /\ flight'[s].at = "sent"
           /\ flight'[s].token = jar[ask[1]] /\ flight'[s].cookie = Keep
           /\ ask[1] \in Browser /\ ask[2] \in Body
           /\ ask[2].do \in {"signup", "login"} => ask[2].on \in Email
           /\ ask[2].do \in {"patch", "delete"} => ask[2].on \in Account
<1>1. ask[1] \in Browser /\ ask[2] \in Body BY DEF Types
<1>2. /\ ask[2].do \in {"signup", "login"} => ask[2].on \in Email
      /\ ask[2].do \in {"patch", "delete"} => ask[2].on \in Account
  BY DEF Types
<1> DEFINE r == [browser |-> ask[1], ask |-> ask[2], token |-> jar[ask[1]], at |-> "sent",
                 row |-> None, cookie |-> Keep]
<1>3. PICK s \in Slot : flight[s] = None /\ flight' = [flight EXCEPT ![s] = r]
  <2>1. PICK y \in Free : TRUE BY DEF Send
  <2>2. (CHOOSE x \in Free : TRUE) \in Free BY <2>1
  <2> QED BY <2>2 DEF Send, Free
<1>4. r \in Request BY <1>1 DEF Request, Types
<1>5. /\ r.browser = ask[1] /\ r.ask = ask[2] /\ r.at = "sent" /\ r.token = jar[ask[1]]
      /\ r.cookie = Keep
  OBVIOUS
<1> HIDE DEF r
<1>6. flight'[s] = r /\ \A x \in Slot \ {s} : flight'[x] = flight[x] BY <1>3 DEF Types
<1>7. flight' \in [Slot -> Request \cup {None}] BY <1>3, <1>4 DEF Types
<1> QED BY <1>1, <1>2, <1>3, <1>4, <1>5, <1>6, <1>7

LEMMA DropFacts ==
  ASSUME Types, NEW s \in Slot, flight' = [flight EXCEPT ![s] = None]
  PROVE  /\ flight' \in [Slot -> Request \cup {None}] /\ flight'[s] = None
         /\ \A x \in Slot \ {s} : flight'[x] = flight[x]
         /\ \A x \in Slot : flight'[x] # None => x # s /\ flight'[x] = flight[x]
BY DEF Types

LEMMA ReceiveFacts ==
  ASSUME Types, NEW s \in Slot, Receive(s)
  PROVE  /\ flight[s] \in Request /\ flight[s] # None /\ flight[s].browser \in Browser
         /\ flight' = [flight EXCEPT ![s] = None]
         /\ jar' \in [Browser -> Token \cup {None}] /\ left' \in [Browser -> {"no", "yes", "raced"}]
         /\ jar'[flight[s].browser] =
              IF flight[s].cookie = Keep THEN jar[flight[s].browser] ELSE flight[s].cookie
         /\ \A b \in Browser \ {flight[s].browser} : jar'[b] = jar[b] /\ left'[b] = left[b]
         /\ UNCHANGED <<clock, database, live, heldUntil, excused, ruled>>
<1>1. flight[s] \in Request /\ flight[s] # None BY AtIsRequest DEF Receive
<1>2. flight[s].browser \in Browser /\ flight[s].cookie \in Token \cup {None, Keep}
  BY <1>1 DEF Request
<1>3. flight' = [flight EXCEPT ![s] = None] BY DEF Receive
<1>4. jar' = [jar EXCEPT ![flight[s].browser] =
                IF flight[s].cookie = Keep THEN @ ELSE flight[s].cookie]
  BY DEF Receive
<1>5. jar' \in [Browser -> Token \cup {None}] BY <1>2, <1>4 DEF Types
<1>6. left' \in [Browser -> {"no", "yes", "raced"}] BY <1>2 DEF Receive, Types
<1>7. \A b \in Browser \ {flight[s].browser} : jar'[b] = jar[b] /\ left'[b] = left[b]
  BY <1>2 DEF Receive, Types
<1>8. jar'[flight[s].browser] = IF flight[s].cookie = Keep THEN jar[flight[s].browser] ELSE flight[s].cookie
  BY <1>2, <1>4 DEF Types
<1>9. UNCHANGED <<clock, database, live, heldUntil, excused, ruled>> BY DEF Receive
<1> QED BY <1>1, <1>2, <1>3, <1>5, <1>6, <1>7, <1>8, <1>9

LEMMA OpenFacts ==
  ASSUME Types, NEW b \in Browser, OpenLive(b)
  PROVE  /\ jar[b] \in Token /\ Valid(jar[b])
         /\ live' \in [Browser -> Connection \cup {None}]
         /\ live'[b] = [sub |-> jar[b].sub, role |-> jar[b].role, at |-> now]
         /\ \A x \in Browser \ {b} : live'[x] = live[x]
         /\ UNCHANGED <<clock, database, jar, flight, heldUntil, left, excused, ruled>>
<1>1. jar[b] \in Token /\ Valid(jar[b]) BY DEF OpenLive, Valid, Types
<1>2. [sub |-> jar[b].sub, role |-> jar[b].role, at |-> now] \in Connection
  BY <1>1 DEF Connection, Token, Types
<1>3. live' = [live EXCEPT ![b] = [sub |-> jar[b].sub, role |-> jar[b].role, at |-> now]]
  BY DEF OpenLive
<1>4. live' \in [Browser -> Connection \cup {None}] BY <1>2, <1>3 DEF Types
<1>5. live'[b] = [sub |-> jar[b].sub, role |-> jar[b].role, at |-> now]
      /\ \A x \in Browser \ {b} : live'[x] = live[x]
  BY <1>3 DEF Types
<1>6. UNCHANGED <<clock, database, jar, flight, heldUntil, left, excused, ruled>>
  BY DEF OpenLive, history
<1> QED BY <1>1, <1>4, <1>5, <1>6

\* _bootstrap_admin inserts an admin or finds the address taken.
LEMMA BootstrapFacts ==
  ASSUME Types, Unique, NEW p \in Replica, InsertAdmin(p)
  PROVE  /\ Remembers /\ accounts' \in [Account -> Row \cup {None}] /\ issued' \subseteq Account
         /\ Unique' /\ \A a \in Account : Exists(a) => accounts'[a] = accounts[a]
<1>1. UNCHANGED <<clock, heldUntil>> BY DEF InsertAdmin
<1>2. CASE UNCHANGED database
  BY <1>1, <1>2, SameRemembers DEF database, Types, Unique, Exists, clock
<1>3. CASE ~Taken(AdminEmail) /\ Insert(AdminEmail, "admin")
  <2>1. \A a \in Account : Exists(a) => a \in issued BY DEF Unique
  <2>2. UNCHANGED <<now, heldUntil>> BY <1>1 DEF clock
  <2>3. /\ Remembers /\ accounts' \in [Account -> Row \cup {None}] /\ issued' \subseteq Account
        /\ \A a \in Account : Exists(a) => accounts'[a] = accounts[a]
        /\ \A a \in Account : Exists(a)' => a \in issued'
        /\ (\A a, b \in Account :
              Exists(a) /\ Exists(b) /\ accounts[a].email = accounts[b].email => a = b)
           => \A a, b \in Account :
                accounts'[a] # None /\ accounts'[b] # None
                  /\ accounts'[a].email = accounts'[b].email => a = b
    BY <1>3, <2>1, <2>2, InsertRemembers DEF Role
  <2>4. Unique' BY <2>3 DEF Unique, Exists
  <2> QED BY <2>3, <2>4
<1> QED BY <1>2, <1>3 DEF InsertAdmin

\* Steps that only drop a reply or a connection, or let time pass.
Quiet ==
  /\ now' \in Nat /\ now' >= now
  /\ now' = now \/ Second
  /\ UNCHANGED <<scenario, accounts, issued, jar, heldUntil, polled, lapsed, left, excused, ruled>>
  /\ flight' \in [Slot -> Request \cup {None}]
  /\ \A s \in Slot : flight'[s] = None \/ flight'[s] = flight[s]
  /\ live' \in [Browser -> Connection \cup {None}]
  /\ \A b \in Browser : live'[b] = None \/ live'[b] = live[b]

LEMMA StepCases ==
  ASSUME Types, [Next]_vars
  PROVE  \/ Quiet
         \/ \E ask \in scenario.asks : Send(ask[1], ask[2])
         \/ \E s \in Slot : Serve(s) \/ Receive(s)
         \/ \E b \in Browser : OpenLive(b)
         \/ \E p \in Replica : InsertAdmin(p)
<1>1. CASE Second BY <1>1 DEF Second, Quiet, Types, database, history
<1>2. CASE \E s \in Slot : Lose(s)
  <2>1. PICK s \in Slot : Lose(s) BY <1>2
  <2>2. flight' = [flight EXCEPT ![s] = None] BY <2>1 DEF Lose
  <2>3. UNCHANGED <<clock, database, jar, live, boot, boots, history>> BY <2>1 DEF Lose
  <2> QED BY <2>2, <2>3, DropFacts DEF Quiet, Types, database, history, clock
<1>3. CASE \E b \in Browser : CloseLive(b) BY <1>3 DEF CloseLive, Quiet, Types, database, history, clock
<1>4. CASE \E p \in Replica : Startup(p) \/ CheckAdmin(p)
  <2>1. UNCHANGED <<clock, database, jar, flight, live, history>> BY <1>4 DEF Startup, CheckAdmin
  <2> QED BY <2>1 DEF Quiet, Types, database, history, clock
<1>5. CASE UNCHANGED vars BY <1>5 DEF vars, Quiet, Types, database, history, clock
<1> QED BY <1>1, <1>2, <1>3, <1>4, <1>5 DEF Next

LEMMA BaseInit == Init => Base
<1> SUFFICES ASSUME Init PROVE Base OBVIOUS
<1> USE DEF Init
<1>1. accounts \in [Account -> Row \cup {None}] OBVIOUS
<1>2. jar \in [Browser -> Token \cup {None}]
  <2>1. \A a \in Account : accounts[a] # None =>
          [sub |-> a, role |-> scenario.accounts[a].role, iat |-> 0] \in Token
    BY <1>1 DEF Row, Token
  <2> QED BY <2>1
<1>3. heldUntil \in [Account -> [Role -> Int]] OBVIOUS
<1>4. Types BY <1>1, <1>2, <1>3 DEF Types
<1>5. Aimed BY DEF Aimed
<1>6. Unique BY DEF Unique, Exists
<1> QED BY <1>4, <1>5, <1>6 DEF Base

LEMMA BaseStep == Base /\ [Next]_vars => Base' /\ Remembers
<1> SUFFICES ASSUME Base, [Next]_vars PROVE Base' /\ Remembers OBVIOUS
<1>0. Types /\ Aimed /\ Unique BY DEF Base
<1>1. CASE Quiet
  <2>1. Remembers BY <1>0, <1>1 DEF Quiet, Remembers, Types, Exists
  <2>2. Types' BY <1>0, <1>1 DEF Quiet, Types
  <2>3. Unique' BY <1>0, <1>1 DEF Quiet, Unique, Exists
  <2>4. Aimed' BY <1>0, <1>1 DEF Quiet, Aimed
  <2> QED BY <2>1, <2>2, <2>3, <2>4 DEF Base
<1>2. ASSUME NEW ask \in scenario.asks, Send(ask[1], ask[2]) PROVE Base' /\ Remembers
  <2>1. UNCHANGED <<clock, database, jar, live, history>> BY <1>2 DEF Send
  <2>2. Remembers BY <1>0, <2>1, SameRemembers DEF clock, history
  <2>3. PICK s \in Slot :
          /\ flight[s] = None /\ flight'[s] \in Request
          /\ flight' \in [Slot -> Request \cup {None}]
          /\ \A x \in Slot \ {s} : flight'[x] = flight[x]
          /\ flight'[s].ask = ask[2] /\ flight'[s].at = "sent"
          /\ ask[2].do \in {"signup", "login"} => ask[2].on \in Email
          /\ ask[2].do \in {"patch", "delete"} => ask[2].on \in Account
    BY <1>0, <1>2, SendFacts
  <2>4. Types' BY <1>0, <2>1, <2>3 DEF Types, clock, database, history
  <2>5. Aimed' BY <1>0, <2>3 DEF Aimed
  <2>6. Unique' BY <1>0, <2>1 DEF Unique, Exists, database
  <2> QED BY <2>2, <2>4, <2>5, <2>6 DEF Base
<1>3. ASSUME NEW s \in Slot, Serve(s) PROVE Base' /\ Remembers
  <2>1. Served(s) BY <1>0, <1>3, ServeFacts
  <2>2. Types' BY <1>0, <2>1 DEF Types, Served, Handled, clock
  <2>3. \A x \in Slot \ {s} : flight'[x] = flight[x] BY <2>1 DEF Served, Handled
  <2>4. /\ flight[s] # None /\ flight'[s].ask.do = flight[s].ask.do
        /\ flight'[s].at = "loaded" => flight'[s].ask.on \in Account
        /\ \/ flight'[s].ask = flight[s].ask
           \/ flight[s].ask.do = "login" /\ flight'[s].ask.on \in Account
    BY <2>1 DEF Served, Handled
  <2>5. Aimed' BY <1>0, <2>3, <2>4 DEF Aimed
  <2> QED BY <2>1, <2>2, <2>5 DEF Base, Served
<1>4. ASSUME NEW s \in Slot, Receive(s) PROVE Base' /\ Remembers
  <2>1. /\ UNCHANGED <<clock, database, live, heldUntil, excused, ruled>>
        /\ flight' = [flight EXCEPT ![s] = None]
        /\ jar' \in [Browser -> Token \cup {None}] /\ left' \in [Browser -> {"no", "yes", "raced"}]
    BY <1>0, <1>4, ReceiveFacts
  <2>2. /\ flight' \in [Slot -> Request \cup {None}]
        /\ \A x \in Slot : flight'[x] # None => x # s /\ flight'[x] = flight[x]
    BY <1>0, <2>1, DropFacts
  <2>3. Remembers BY <1>0, <2>1, SameRemembers DEF clock
  <2>4. Types' BY <1>0, <2>1, <2>2 DEF Types, clock, database
  <2>5. Aimed' BY <1>0, <2>2 DEF Aimed
  <2>6. Unique' BY <1>0, <2>1 DEF Unique, Exists, database
  <2> QED BY <2>3, <2>4, <2>5, <2>6 DEF Base
<1>5. ASSUME NEW b \in Browser, OpenLive(b) PROVE Base' /\ Remembers
  <2>1. /\ live' \in [Browser -> Connection \cup {None}]
        /\ UNCHANGED <<clock, database, jar, flight, heldUntil, left>>
    BY <1>0, <1>5, OpenFacts
  <2>2. Remembers BY <1>0, <2>1, SameRemembers DEF clock
  <2>3. Types' BY <1>0, <2>1 DEF Types, clock, database
  <2>4. Unique' /\ Aimed' BY <1>0, <2>1 DEF Unique, Aimed, Exists, database
  <2> QED BY <2>2, <2>3, <2>4 DEF Base
<1>6. ASSUME NEW p \in Replica, InsertAdmin(p) PROVE Base' /\ Remembers
  <2>1. /\ Remembers /\ accounts' \in [Account -> Row \cup {None}] /\ issued' \subseteq Account
        /\ Unique'
    BY <1>0, <1>6, BootstrapFacts
  <2>2. UNCHANGED <<clock, jar, flight, live, heldUntil, left>> BY <1>6 DEF InsertAdmin
  <2>3. Types' BY <1>0, <2>1, <2>2 DEF Types, clock
  <2>4. Aimed' BY <1>0, <2>2 DEF Aimed
  <2> QED BY <2>1, <2>3, <2>4 DEF Base
<1> QED BY <1>0, <1>1, <1>2, <1>3, <1>4, <1>5, <1>6, StepCases

THEOREM BaseHolds == Spec => []Base
BY BaseInit, BaseStep, PTL DEF Spec

-----------------------------------------------------------------------------
(* Tokens: what they say is true of the account, or was when it was given    *)
(* out.                                                                      *)

\* An account has the role, or lost it no earlier than the instant given.
Had(a, role, since) ==
  (Exists(a) /\ accounts[a].role = role) \/ heldUntil[a][role] >= since

TokenBacked(t) == t.sub \in issued /\ t.iat <= now /\ Had(t.sub, t.role, t.iat)

Backed ==
  /\ \A a \in Account : \A r \in Role : heldUntil[a][r] <= now
  /\ \A b \in Browser : jar[b] # None => TokenBacked(jar[b])
  /\ \A s \in Slot : flight[s] # None =>
       /\ flight[s].token # None => TokenBacked(flight[s].token)
       /\ flight[s].cookie \in Token => TokenBacked(flight[s].cookie)
  /\ \A b \in Browser : live[b] # None =>
       live[b].at <= now /\ Had(live[b].sub, live[b].role, live[b].at - TTL + 1)

LEMMA HadStays ==
  ASSUME Types, Remembers, NEW a \in Account, NEW r \in Role, NEW since \in Int,
         \A x \in Account : \A y \in Role : heldUntil[x][y] <= now,
         since <= now, Had(a, r, since)
  PROVE  Had(a, r, since)'
<1>1. heldUntil'[a][r] = heldUntil[a][r] \/ heldUntil'[a][r] = now BY DEF Remembers
<1>2. heldUntil[a][r] \in Int /\ heldUntil[a][r] <= now /\ now \in Int BY DEF Types
<1>3. CASE Exists(a) /\ accounts[a].role = r
  <2>1. \/ Exists(a)' /\ accounts'[a].role = r
        \/ heldUntil'[a][r] = now
    BY <1>3 DEF Remembers
  <2> QED BY <1>2, <2>1 DEF Had
<1>4. CASE heldUntil[a][r] >= since
  <2>1. heldUntil'[a][r] >= since BY <1>1, <1>2, <1>4
  <2> QED BY <2>1 DEF Had
<1> QED BY <1>3, <1>4 DEF Had

LEMMA BackedStays ==
  ASSUME Types, Remembers, \A x \in Account : \A y \in Role : heldUntil[x][y] <= now,
         NEW t \in Token, TokenBacked(t)
  PROVE  TokenBacked(t)'
<1>1. t.sub \in Account /\ t.role \in Role /\ t.iat \in Nat BY DEF Token
<1>2. t.sub \in issued /\ t.iat <= now /\ Had(t.sub, t.role, t.iat) BY DEF TokenBacked
<1>3. Had(t.sub, t.role, t.iat)' BY <1>1, <1>2, HadStays
<1>4. t.sub \in issued' /\ t.iat <= now'
  BY <1>1, <1>2 DEF Remembers, Types
<1> QED BY <1>3, <1>4 DEF TokenBacked

LEMMA FreshIsBacked ==
  ASSUME Types, Remembers, NEW t, Fresh(t)
  PROVE  TokenBacked(t)'
BY DEF Fresh, TokenBacked, Had, Exists, Token, Remembers, Types

LEMMA BackedInit == Init => Backed
<1> SUFFICES ASSUME Init PROVE Backed OBVIOUS
<1> USE DEF Init
<1>1. \A a \in Account : \A r \in Role : heldUntil[a][r] <= now OBVIOUS
<1>2. ASSUME NEW b \in Browser, jar[b] # None PROVE TokenBacked(jar[b])
  <2>1. PICK a \in Account :
          accounts[a] # None /\ jar[b] = [sub |-> a, role |-> accounts[a].role, iat |-> 0]
    <3>1. jar \in [Browser -> {None} \cup {[sub |-> a, role |-> accounts[a].role, iat |-> 0] :
                                          a \in {x \in Account : accounts[x] # None}}]
      OBVIOUS
    <3> HIDE DEF Init
    <3>2. jar[b] \in {[sub |-> a, role |-> accounts[a].role, iat |-> 0] :
                       a \in {x \in Account : accounts[x] # None}}
      BY <1>2, <3>1
    <3> QED BY <3>2
  <2> QED BY <2>1 DEF TokenBacked, Had, Exists
<1>3. \A s \in Slot : flight[s] = None OBVIOUS
<1>4. \A b \in Browser : live[b] = None OBVIOUS
<1> QED BY <1>1, <1>2, <1>3, <1>4 DEF Backed

LEMMA BackedStep == Base /\ Backed /\ [Next]_vars => Backed'
<1> SUFFICES ASSUME Base, Backed, [Next]_vars PROVE Backed' OBVIOUS
<1>0. Types /\ Types' /\ Remembers /\ Aimed /\ Unique BY BaseStep DEF Base
<1>a. \A x \in Account : \A y \in Role : heldUntil[x][y] <= now BY DEF Backed
<1>b. \A x \in Account : \A y \in Role : heldUntil'[x][y] <= now'
  <2> SUFFICES ASSUME NEW x \in Account, NEW y \in Role PROVE heldUntil'[x][y] <= now' OBVIOUS
  <2>1. heldUntil'[x][y] = heldUntil[x][y] \/ heldUntil'[x][y] = now BY <1>0 DEF Remembers
  <2>2. heldUntil[x][y] \in Int /\ heldUntil[x][y] <= now /\ now \in Nat BY <1>0, <1>a DEF Types
  <2>3. now' \in Nat /\ now' >= now BY <1>0 DEF Remembers
  <2> QED BY <2>1, <2>2, <2>3
<1>c. \A t \in Token : TokenBacked(t) => TokenBacked(t)' BY <1>0, <1>a, BackedStays
\* An open connection keeps its grounds.
<1>d. ASSUME NEW b \in Browser, live[b] # None
      PROVE  live[b].at <= now' /\ Had(live[b].sub, live[b].role, live[b].at - TTL + 1)
                 /\ \A c \in Connection : c = live[b] => Had(c.sub, c.role, c.at - TTL + 1)'
  <2>1. live[b] \in Connection /\ live[b].at <= now
        /\ Had(live[b].sub, live[b].role, live[b].at - TTL + 1)
    BY <1>0, <1>d DEF Types, Backed
  <2>2. ASSUME NEW c \in Connection, c = live[b] PROVE Had(c.sub, c.role, c.at - TTL + 1)'
    <3>1. c.sub \in Account /\ c.role \in Role /\ c.at \in Nat BY DEF Connection
    <3>2. now \in Nat /\ c.at <= now BY <2>1, <2>2, <1>0 DEF Types
    <3>3. c.at - TTL + 1 \in Int /\ c.at - TTL + 1 <= now BY <3>1, <3>2
    <3>4. Had(c.sub, c.role, c.at - TTL + 1) BY <2>1, <2>2
    <3> QED BY <1>0, <1>a, <3>1, <3>3, <3>4, HadStays
  <2>3. live[b].at <= now' BY <1>0, <2>1 DEF Remembers, Types, Connection
  <2> QED BY <2>1, <2>2, <2>3
<1>e. ASSUME NEW b \in Browser, live'[b] # None, live'[b] = live[b]
      PROVE  live'[b].at <= now' /\ Had(live[b].sub, live[b].role, live[b].at - TTL + 1)'
  <2>1. live[b] \in Connection BY <1>0, <1>e DEF Types
  <2>2. PICK c \in Connection : c = live[b] BY <2>1
  <2>3. Had(c.sub, c.role, c.at - TTL + 1)' BY <1>d, <1>e, <2>2
  <2>4. c = live'[b] BY <1>e, <2>2
  <2> QED BY <1>d, <1>e, <2>3, <2>4 DEF Had, Exists
\* Cookies and requests that stay as they are.
<1>f. \A b \in Browser : jar'[b] # None /\ jar'[b] = jar[b] => TokenBacked(jar[b])'
  <2> SUFFICES ASSUME NEW b \in Browser, jar'[b] # None, jar'[b] = jar[b] PROVE TokenBacked(jar[b])'
    OBVIOUS
  <2>1. PICK t \in Token : t = jar[b] BY <1>0 DEF Types
  <2>2. TokenBacked(t)' BY <1>c, <2>1 DEF Backed
  <2> QED BY <2>1, <2>2 DEF TokenBacked, Had, Exists
<1>g. \A s \in Slot : flight'[s] # None /\ flight'[s] = flight[s] =>
        /\ flight'[s].token # None => TokenBacked(flight[s].token)'
        /\ flight'[s].cookie \in Token => TokenBacked(flight[s].cookie)'
  <2> SUFFICES ASSUME NEW s \in Slot, flight'[s] # None, flight'[s] = flight[s]
               PROVE  /\ flight'[s].token # None => TokenBacked(flight[s].token)'
                      /\ flight'[s].cookie \in Token => TokenBacked(flight[s].cookie)'
    OBVIOUS
  <2>1. flight[s] \in Request BY <1>0 DEF Types
  <2>2. ASSUME flight'[s].token # None PROVE TokenBacked(flight[s].token)'
    <3>1. PICK t \in Token : t = flight[s].token BY <2>1, <2>2 DEF Request
    <3>2. TokenBacked(t)' BY <1>c, <3>1 DEF Backed
    <3> QED BY <3>1, <3>2 DEF TokenBacked, Had, Exists
  <2>3. ASSUME flight'[s].cookie \in Token PROVE TokenBacked(flight[s].cookie)'
    <3>1. PICK t \in Token : t = flight[s].cookie BY <2>3
    <3>2. TokenBacked(t)' BY <1>c, <3>1 DEF Backed
    <3> QED BY <3>1, <3>2 DEF TokenBacked, Had, Exists
  <2> QED BY <2>2, <2>3
\* It suffices to look at what is new.
<1>h. ASSUME \A b \in Browser : jar'[b] # None /\ jar'[b] # jar[b] => TokenBacked(jar[b])',
             \A s \in Slot : flight'[s] # None /\ flight'[s] # flight[s] =>
               /\ flight'[s].token # None => TokenBacked(flight[s].token)'
               /\ flight'[s].cookie \in Token => TokenBacked(flight[s].cookie)',
             \A b \in Browser : live'[b] # None /\ live'[b] # live[b] =>
               live'[b].at <= now' /\ Had(live[b].sub, live[b].role, live[b].at - TTL + 1)'
      PROVE  Backed'
  BY <1>b, <1>e, <1>f, <1>g, <1>h DEF Backed
<1>1. CASE Quiet BY <1>1, <1>h DEF Quiet
<1>2. ASSUME NEW ask \in scenario.asks, Send(ask[1], ask[2]) PROVE Backed'
  <2>1. UNCHANGED <<clock, database, jar, live, history>> BY <1>2 DEF Send
  <2>2. PICK s \in Slot :
          /\ \A x \in Slot \ {s} : flight'[x] = flight[x]
          /\ flight'[s].token = jar[ask[1]] /\ flight'[s].cookie = Keep /\ ask[1] \in Browser
    BY <1>0, <1>2, SendFacts
  <2>3. jar'[ask[1]] # None => TokenBacked(jar[ask[1]])' BY <1>f, <2>1, <2>2
  <2>4. flight'[s].token # None => TokenBacked(flight[s].token)'
    BY <2>1, <2>2, <2>3 DEF TokenBacked, Had, Exists
  <2>5. Keep \notin Token OBVIOUS
  <2> QED BY <2>1, <2>2, <2>4, <2>5, <1>h
<1>3. ASSUME NEW s \in Slot, Serve(s) PROVE Backed'
  <2>1. Served(s) BY <1>0, <1>3, ServeFacts
  <2>2. /\ flight[s] \in Request /\ flight[s] # None /\ flight'[s].token = flight[s].token
        /\ \A x \in Slot \ {s} : flight'[x] = flight[x]
        /\ UNCHANGED <<jar, live>>
        /\ flight'[s].cookie \in {flight[s].cookie, Keep, None} \/ Fresh(flight'[s].cookie)
    BY <2>1 DEF Served, Handled
  <2>3. flight'[s].token # None => TokenBacked(flight[s].token)'
    <3> SUFFICES ASSUME flight'[s].token # None PROVE TokenBacked(flight[s].token)' OBVIOUS
    <3>1. PICK t \in Token : t = flight[s].token BY <2>2 DEF Request
    <3>2. TokenBacked(t)' BY <1>c, <2>2, <3>1 DEF Backed
    <3> QED BY <2>2, <3>1, <3>2 DEF TokenBacked, Had, Exists
  <2>4. ASSUME flight'[s].cookie \in Token PROVE TokenBacked(flight[s].cookie)'
    <3>1. PICK t \in Token : t = flight'[s].cookie BY <2>4
    <3>2. t = flight[s].cookie \/ Fresh(t) BY <2>2, <2>4, <3>1
    <3>3. TokenBacked(t)' BY <1>0, <1>c, <2>2, <3>2, FreshIsBacked DEF Backed
    <3> QED BY <3>1, <3>3 DEF TokenBacked, Had, Exists
  <2> QED BY <2>2, <2>3, <2>4, <1>h
<1>4. ASSUME NEW s \in Slot, Receive(s) PROVE Backed'
  <2>1. /\ flight[s] \in Request /\ flight[s] # None /\ flight[s].browser \in Browser
        /\ flight' = [flight EXCEPT ![s] = None] /\ live' = live
        /\ jar'[flight[s].browser] =
             IF flight[s].cookie = Keep THEN jar[flight[s].browser] ELSE flight[s].cookie
        /\ \A b \in Browser \ {flight[s].browser} : jar'[b] = jar[b]
    BY <1>0, <1>4, ReceiveFacts
  <2>2. \A x \in Slot : flight'[x] # None => flight'[x] = flight[x] BY <1>0, <2>1, DropFacts
  <2>3. ASSUME NEW b \in Browser, jar'[b] # None, jar'[b] # jar[b] PROVE TokenBacked(jar[b])'
    <3>1. b = flight[s].browser /\ jar'[b] = flight[s].cookie BY <2>1, <2>3
    <3>2. flight[s].cookie \in Token BY <1>0, <2>3, <3>1 DEF Types
    <3>3. PICK t \in Token : t = flight[s].cookie BY <3>2
    <3>4. TokenBacked(t)' BY <1>c, <2>1, <3>2, <3>3 DEF Backed
    <3> QED BY <3>1, <3>3, <3>4 DEF TokenBacked, Had, Exists
  <2> QED BY <2>1, <2>2, <2>3, <1>h
<1>5. ASSUME NEW b \in Browser, OpenLive(b) PROVE Backed'
  <2>1. /\ jar[b] \in Token /\ Valid(jar[b])
        /\ live'[b] = [sub |-> jar[b].sub, role |-> jar[b].role, at |-> now]
        /\ \A x \in Browser \ {b} : live'[x] = live[x]
        /\ UNCHANGED <<clock, database, jar, flight, heldUntil>>
    BY <1>0, <1>5, OpenFacts
  <2>2. PICK t \in Token : t = jar[b] BY <2>1
  <2>3. TokenBacked(t) /\ now < t.iat + TTL BY <2>1, <2>2 DEF Backed, Valid
  <2>4. t.sub \in Account /\ t.role \in Role /\ t.iat \in Nat /\ now \in Nat BY <1>0 DEF Token, Types
  <2>5. heldUntil[t.sub][t.role] \in Int BY <1>0, <2>4 DEF Types
  <2>6. heldUntil[t.sub][t.role] >= t.iat => heldUntil[t.sub][t.role] >= now - TTL + 1
    BY <2>3, <2>4, <2>5
  <2>7. Had(t.sub, t.role, now - TTL + 1) BY <2>3, <2>6 DEF TokenBacked, Had
  <2>8. live'[b].at = now /\ live'[b].sub = t.sub /\ live'[b].role = t.role BY <2>1, <2>2
  <2>9. now' = now /\ accounts' = accounts /\ heldUntil' = heldUntil BY <2>1 DEF clock, database
  <2>10. live'[b].at <= now' /\ Had(live[b].sub, live[b].role, live[b].at - TTL + 1)'
    BY <2>4, <2>7, <2>8, <2>9 DEF Had, Exists
  <2> QED BY <2>1, <2>10, <1>h
<1>6. ASSUME NEW p \in Replica, InsertAdmin(p) PROVE Backed'
  <2>1. UNCHANGED <<jar, flight, live>> BY <1>6 DEF InsertAdmin
  <2> QED BY <2>1, <1>h
<1> QED BY <1>0, <1>1, <1>2, <1>3, <1>4, <1>5, <1>6, StepCases

THEOREM BackedHolds == Spec => [](Base /\ Backed)
<1>1. Init => Base /\ Backed BY BaseInit, BackedInit
<1>2. Base /\ Backed /\ [Next]_vars => (Base /\ Backed)' BY BaseStep, BackedStep
<1> QED BY <1>1, <1>2, PTL DEF Spec

\* Of any accounts and requests: an address has one account, and every cookie names an
\* id that was drawn once (uq_users_email, User.id).
THEOREM SessionTypeCorrect == Spec => []SessionTypeOK
<1>1. Base /\ Backed => SessionTypeOK
  BY DEF Base, Types, Unique, Backed, TokenBacked, SessionTypeOK
<1> QED BY <1>1, BackedHolds, PTL

\* However often tokens are renewed, replies lost and accounts edited, a WebSocket opens
\* under a role its account has, or lost less than one life of a token before.
THEOREM TrustHolds == Spec => []TrustIsBounded
<1>1. Base /\ Backed => TrustIsBounded
  <2> SUFFICES ASSUME Base, Backed, NEW b \in Browser, live[b] # None
               PROVE  \/ Exists(live[b].sub) /\ accounts[live[b].sub].role = live[b].role
                      \/ heldUntil[live[b].sub][live[b].role] > live[b].at - TTL
    BY DEF TrustIsBounded
  <2>1. live[b] \in Connection /\ Had(live[b].sub, live[b].role, live[b].at - TTL + 1)
    BY DEF Base, Types, Backed
  <2>2. live[b].sub \in Account /\ live[b].role \in Role /\ live[b].at \in Nat
    BY <2>1 DEF Connection
  <2>3. heldUntil[live[b].sub][live[b].role] \in Int BY <2>2 DEF Base, Types
  <2>4. CASE Exists(live[b].sub) /\ accounts[live[b].sub].role = live[b].role BY <2>4
  <2>5. CASE heldUntil[live[b].sub][live[b].role] >= live[b].at - TTL + 1
    BY <2>2, <2>3, <2>5
  <2> QED BY <2>1, <2>4, <2>5 DEF Had
<1> QED BY <1>1, BackedHolds, PTL

-----------------------------------------------------------------------------
(* Admins.                                                                   *)

\* No edit that is about to be committed is against the one who asked for it.
NotAgainstOneself ==
  \A s \in Slot :
    flight[s] # None /\ flight[s].at = "loaded" /\ flight[s].ask.do \in {"patch", "delete"} =>
      ~AgainstOneself(s)

LEMMA NotAgainstStep == Base /\ NotAgainstOneself /\ [Next]_vars => NotAgainstOneself'
<1> SUFFICES ASSUME Base, NotAgainstOneself, [Next]_vars PROVE NotAgainstOneself' OBVIOUS
<1>0. Types /\ Aimed /\ Unique BY DEF Base
\* Only requests that are new or moved count.
<1>a. ASSUME \A s \in Slot : flight'[s] # None /\ flight'[s] # flight[s]
               /\ flight'[s].at = "loaded" /\ flight'[s].ask.do \in {"patch", "delete"} =>
                 ~AgainstOneself(s)'
      PROVE  NotAgainstOneself'
  BY <1>a DEF NotAgainstOneself, AgainstOneself
<1>1. CASE Quiet BY <1>1, <1>a DEF Quiet
<1>2. ASSUME NEW ask \in scenario.asks, Send(ask[1], ask[2]) PROVE NotAgainstOneself'
  <2>1. PICK s \in Slot : /\ \A x \in Slot \ {s} : flight'[x] = flight[x]
                          /\ flight'[s].at = "sent"
    BY <1>0, <1>2, SendFacts
  <2> QED BY <2>1, <1>a
<1>3. ASSUME NEW s \in Slot, Serve(s) PROVE NotAgainstOneself'
  <2>1. Served(s) BY <1>0, <1>3, ServeFacts
  <2>2. /\ flight'[s].ask.do = flight[s].ask.do /\ flight'[s].token = flight[s].token
        /\ \A x \in Slot \ {s} : flight'[x] = flight[x]
    BY <2>1 DEF Served, Handled
  <2>3. flight'[s].at = "loaded" /\ flight[s].ask.do # "login" =>
          flight'[s].ask = flight[s].ask /\ ~AgainstOneself(s)
    BY <2>1 DEF Served
  <2>4. flight'[s].at = "loaded" /\ flight'[s].ask.do \in {"patch", "delete"} =>
          ~AgainstOneself(s)'
    BY <2>2, <2>3 DEF AgainstOneself
  <2> QED BY <2>2, <2>4, <1>a
<1>4. ASSUME NEW s \in Slot, Receive(s) PROVE NotAgainstOneself'
  <2>1. \A x \in Slot : flight'[x] # None => flight'[x] = flight[x]
    BY <1>0, <1>4, ReceiveFacts, DropFacts
  <2> QED BY <2>1, <1>a
<1>5. ASSUME NEW b \in Browser, OpenLive(b) PROVE NotAgainstOneself'
  <2>1. flight' = flight BY <1>5 DEF OpenLive
  <2> QED BY <2>1, <1>a
<1>6. ASSUME NEW p \in Replica, InsertAdmin(p) PROVE NotAgainstOneself'
  <2>1. flight' = flight BY <1>6 DEF InsertAdmin
  <2> QED BY <2>1, <1>a
<1> QED BY <1>0, <1>1, <1>2, <1>3, <1>4, <1>5, <1>6, StepCases

LEMMA AdminStep == Base /\ NotAgainstOneself /\ AdminRemains /\ [Next]_vars => AdminRemains'
<1> SUFFICES ASSUME Base, NotAgainstOneself, AdminRemains, [Next]_vars PROVE AdminRemains' OBVIOUS
<1>0. Types /\ Aimed /\ Unique BY DEF Base
\* Steps that leave the active admins what they are.
<1>a. ASSUME UNCHANGED <<excused, ruled>>, \A a \in Account : Exists(a) => accounts'[a] = accounts[a]
      PROVE  AdminRemains'
  <2>1. ActiveAdmins \subseteq ActiveAdmins' BY <1>a DEF ActiveAdmins, Admins, Exists
  <2> QED BY <1>a, <2>1 DEF AdminRemains
<1>1. CASE Quiet BY <1>1, <1>a DEF Quiet
<1>2. CASE \E ask \in scenario.asks : Send(ask[1], ask[2])
  BY <1>2, <1>a DEF Send, database, history
<1>3. ASSUME NEW s \in Slot, Serve(s) PROVE AdminRemains'
  <2>1. CASE CommitEdit(s)
    <3> DEFINE a == flight[s].ask.on
               actor == flight[s].token.sub
               row == IF flight[s].ask.do = "delete" THEN None
                      ELSE Edited(a, flight[s].row, flight[s].ask)
    <3>1. /\ flight[s] \in Request /\ flight[s] # None
          /\ flight[s].ask.do \in {"patch", "delete"} /\ flight[s].at = "loaded"
      BY <1>0, <2>1, AtIsRequest DEF CommitEdit
    <3>2. a \in Account /\ flight[s].ask \in Body /\ ~AgainstOneself(s)
      BY <1>0, <3>1 DEF Aimed, NotAgainstOneself, Request
    <3>3. CASE ~Exists(a) BY <2>1, <3>3, <1>a DEF CommitEdit
    <3>4. CASE Exists(a)
      <4>1. /\ accounts' = [accounts EXCEPT ![a] = row]
            /\ excused' = (excused \/ actor \notin ActiveAdmins
                                 \/ (accounts[a].role = "admin" /\ row # None /\ row.role # "admin"))
            /\ ruled' = (ruled \/ ActiveAdmins' # {})
        BY <2>1, <3>4 DEF CommitEdit
      <4>2. accounts'[a] = row /\ \A x \in Account \ {a} : accounts'[x] = accounts[x]
        BY <1>0, <3>2, <4>1 DEF Types
      <4>3. ASSUME ruled', ~excused' PROVE ActiveAdmins' # {}
        <5>1. /\ actor \in Account /\ accounts[actor] # None /\ accounts[actor].role = "admin"
              /\ accounts[actor].active
          BY <4>1, <4>3 DEF ActiveAdmins, Admins, Exists
        <5>2. CASE actor # a
          <6>1. accounts'[actor] = accounts[actor] BY <4>2, <5>1, <5>2
          <6> QED BY <5>1, <6>1 DEF ActiveAdmins, Admins, Exists
        <5>3. CASE actor = a
          <6>1. flight[s].ask.do # "delete" /\ flight[s].ask.active # "no"
            BY <3>2, <5>3 DEF AgainstOneself
          <6>2. row = Edited(a, flight[s].row, flight[s].ask) BY <6>1
          <6>3. row \in Row /\ row.active
            BY <1>0, <3>2, <3>4, <5>1, <5>3, <6>1, <6>2, EditedIsRow
          <6>4. row # None BY <6>3
          <6>5. row.role = "admin" BY <4>1, <4>3, <5>1, <5>3, <6>4
          <6> HIDE DEF row
          <6> QED BY <3>2, <4>2, <6>3, <6>4, <6>5 DEF ActiveAdmins, Admins, Exists
        <5> QED BY <5>2, <5>3
      <4> QED BY <4>3 DEF AdminRemains
    <3> QED BY <3>3, <3>4
  <2>2. CASE Signup(s)
    <3>1. UNCHANGED <<excused, ruled, now, heldUntil>> BY <2>2 DEF Signup, history, clock
    <3>2. \A a \in Account : Exists(a) => a \in issued BY <1>0 DEF Unique
    <3>3. flight[s].ask.on \in Email
           /\ (UNCHANGED database \/ Insert(flight[s].ask.on, "guest"))
      BY <1>0, <2>2, SignupHandles
    <3>4. \A a \in Account : Exists(a) => accounts'[a] = accounts[a]
      BY <1>0, <3>1, <3>2, <3>3, InsertRemembers DEF Role, database
    <3> QED BY <3>1, <3>4, <1>a
  <2>3. CASE Authenticate(s) BY <2>3, <1>a DEF Authenticate, database, history
  <2>4. CASE Load(s) BY <2>4, <1>a DEF Load, database, history
  <2>5. CASE Logout(s) BY <2>5, <1>a DEF Logout, database, history
  <2>6. CASE LoginRead(s) BY <2>6, <1>a DEF LoginRead, database, history
  <2>7. CASE LoginCommit(s) BY <2>7, <1>a DEF LoginCommit, database, history
  <2> QED BY <1>3, <2>1, <2>2, <2>3, <2>4, <2>5, <2>6, <2>7 DEF Serve
<1>4. CASE \E s \in Slot : Receive(s) BY <1>4, <1>a DEF Receive, database
<1>5. CASE \E b \in Browser : OpenLive(b) BY <1>5, <1>a DEF OpenLive, database, history
<1>6. ASSUME NEW p \in Replica, InsertAdmin(p) PROVE AdminRemains'
  <2>1. \A a \in Account : Exists(a) => accounts'[a] = accounts[a] BY <1>0, <1>6, BootstrapFacts
  <2>2. excused' = excused /\ ruled' = (ruled \/ ActiveAdmins' # {}) BY <1>6 DEF InsertAdmin
  <2>3. ActiveAdmins \subseteq ActiveAdmins' BY <2>1 DEF ActiveAdmins, Admins, Exists
  <2> QED BY <2>2, <2>3 DEF AdminRemains
<1> QED BY <1>0, <1>1, <1>2, <1>3, <1>4, <1>5, <1>6, StepCases

\* users.py: with any accounts, whatever the admins do to each other at the same time, one
\* stays active unless an admin is demoted or an edit outlives its author's rights.
THEOREM AdminStays == Spec => []AdminRemains
<1> DEFINE I == Base /\ NotAgainstOneself /\ AdminRemains
<1>1. Init => I
  <2>1. Init => NotAgainstOneself /\ AdminRemains BY DEF Init, NotAgainstOneself, AdminRemains
  <2> QED BY <2>1, BaseInit
<1>2. I /\ [Next]_vars => I' BY BaseStep, NotAgainstStep, AdminStep
<1> QED BY <1>1, <1>2, PTL DEF Spec

-----------------------------------------------------------------------------
(* Logging out.                                                              *)

\* A browser that has logged out sends no cookie and is on the way to get none.
SignedOut ==
  /\ \A b \in Browser : left[b] = "yes" =>
       /\ jar[b] = None
       /\ \A s \in Slot : flight[s] # None /\ flight[s].browser = b
                           /\ flight[s].ask.do \notin {"login", "signup"} =>
            flight[s].token = None /\ flight[s].cookie \in {Keep, None}
  /\ \A s \in Slot : flight[s] # None /\ flight[s].ask.do = "logout" /\ flight[s].at = "reply" =>
       flight[s].cookie = None

LEMMA SignedOutStep == Base /\ SignedOut /\ [Next]_vars => SignedOut'
<1> SUFFICES ASSUME Base, SignedOut, [Next]_vars PROVE SignedOut' OBVIOUS
<1>0. Types /\ Aimed /\ Unique BY DEF Base
<1>1. CASE Quiet BY <1>1 DEF Quiet, SignedOut
<1>2. ASSUME NEW ask \in scenario.asks, Send(ask[1], ask[2]) PROVE SignedOut'
  <2>1. UNCHANGED <<jar, left>> BY <1>2 DEF Send, history
  <2>2. PICK s \in Slot :
          /\ \A x \in Slot \ {s} : flight'[x] = flight[x]
          /\ flight'[s].browser = ask[1] /\ flight'[s].at = "sent"
          /\ flight'[s].token = jar[ask[1]] /\ flight'[s].cookie = Keep
    BY <1>0, <1>2, SendFacts
  <2> QED BY <2>1, <2>2 DEF SignedOut
<1>3. ASSUME NEW s \in Slot, Serve(s) PROVE SignedOut'
  <2>1. Served(s) BY <1>0, <1>3, ServeFacts
  <2>2. /\ flight[s] # None /\ flight[s] \in Request
        /\ flight'[s].browser = flight[s].browser /\ flight'[s].ask.do = flight[s].ask.do
        /\ flight'[s].token = flight[s].token
        /\ \A x \in Slot \ {s} : flight'[x] = flight[x]
        /\ UNCHANGED <<jar, left>>
    BY <2>1 DEF Served, Handled
  <2>3. \/ flight'[s].cookie \in {flight[s].cookie, Keep, None}
        \/ flight[s].ask.do \in {"login", "signup"} \/ flight[s].token # None
    BY <2>1 DEF Served
  <2>4. flight[s].ask.do = "logout" => flight'[s].cookie = None BY <2>1 DEF Served
  <2> QED BY <2>2, <2>3, <2>4 DEF SignedOut
<1>4. ASSUME NEW s \in Slot, Receive(s) PROVE SignedOut'
  <2> DEFINE b == flight[s].browser
             c == flight[s].cookie
  <2>1. /\ flight[s] \in Request /\ flight[s] # None /\ b \in Browser
        /\ flight' = [flight EXCEPT ![s] = None]
        /\ jar'[b] = IF c = Keep THEN jar[b] ELSE c
        /\ \A x \in Browser \ {b} : jar'[x] = jar[x] /\ left'[x] = left[x]
    BY <1>0, <1>4, ReceiveFacts
  <2>2. \A x \in Slot : flight'[x] # None => x # s /\ flight'[x] = flight[x] BY <1>0, <2>1, DropFacts
  <2>3. left'[b] = CASE flight[s].ask.do = "logout" -> (IF Others(b, s) = {} THEN "yes" ELSE "raced")
                     [] flight[s].ask.do \in {"login", "signup"} /\ c # Keep -> "no"
                     [] OTHER -> left[b]
    BY <1>0, <1>4, <2>1 DEF Receive, Types
  <2>4. flight[s].at = "reply" BY <1>4 DEF Receive, At
  <2>5. ASSUME left'[b] = "yes"
        PROVE  /\ jar'[b] = None
               /\ \A x \in Slot : flight'[x] # None /\ flight'[x].browser = b
                     /\ flight'[x].ask.do \notin {"login", "signup"} =>
                    flight'[x].token = None /\ flight'[x].cookie \in {Keep, None}
    <3>1. CASE flight[s].ask.do = "logout"
      <4>1. c = None BY <2>1, <2>4, <3>1 DEF SignedOut
      <4>2. Others(b, s) = {} BY <2>3, <2>5, <3>1
      <4>3. \A x \in Slot \ {s} : flight[x] # None => flight[x].browser # b BY <4>2 DEF Others
      <4> QED BY <2>1, <2>2, <4>1, <4>3
    <3>2. CASE flight[s].ask.do # "logout"
      <4>1. left[b] = "yes" /\ ~(flight[s].ask.do \in {"login", "signup"} /\ c # Keep)
        BY <2>3, <2>5, <3>2
      <4>2. c \in {Keep, None} BY <2>1, <4>1 DEF SignedOut
      <4> QED BY <2>1, <2>2, <4>1, <4>2 DEF SignedOut
    <3> QED BY <3>1, <3>2
  <2> HIDE DEF c
  <2> QED BY <2>1, <2>2, <2>5 DEF SignedOut
<1>5. CASE \E b \in Browser : OpenLive(b) BY <1>5 DEF OpenLive, SignedOut, history
<1>6. CASE \E p \in Replica : InsertAdmin(p) BY <1>6 DEF InsertAdmin, SignedOut
<1> QED BY <1>0, <1>1, <1>2, <1>3, <1>4, <1>5, <1>6, StepCases

\* auth.py logout: of any requests, those sent before or after a logout that had nothing
\* beside it in flight do not bring the session back.
THEOREM LogoutStays == Spec => []LogoutHolds
<1>1. Init => Base /\ SignedOut
  <2>1. Init => SignedOut BY DEF Init, SignedOut
  <2> QED BY <2>1, BaseInit
<1>2. Base /\ SignedOut /\ [Next]_vars => (Base /\ SignedOut)' BY BaseStep, SignedOutStep
<1>3. SignedOut => LogoutHolds BY DEF SignedOut, LogoutHolds
<1> QED BY <1>1, <1>2, <1>3, PTL DEF Spec
-----------------------------------------------------------------------------
(* Polling.                                                                  *)

\* lapsed holds every account that is not active, and keeps it.
Lapses ==
  /\ lapsed \subseteq Account
  /\ \A a \in Account : Exists(a) /\ ~accounts[a].active => a \in lapsed

Lapsing ==
  /\ Lapses' /\ lapsed \subseteq lapsed'
  /\ \A a \in issued : Exists(a)' => Exists(a)

LEMMA InsertLapses ==
  ASSUME Types, Lapses, NEW e \in Email, NEW role \in Role, Insert(e, role), lapsed' = lapsed
  PROVE  Lapsing
<1>1. PICK n \in Account \ issued :
        accounts' = [accounts EXCEPT ![n] = [email |-> e, role |-> role, active |-> TRUE]]
  BY DEF Insert
<1>2. accounts'[n] = [email |-> e, role |-> role, active |-> TRUE] BY <1>1 DEF Types
<1>3. accounts'[n].active BY <1>2
<1>4. \A x \in Account \ {n} : accounts'[x] = accounts[x] BY <1>1 DEF Types
<1>5. \A a \in issued : a # n /\ a \in Account BY DEF Types
<1> QED BY <1>3, <1>4, <1>5 DEF Lapsing, Lapses, Exists

LEMMA CommitLapses ==
  ASSUME Types, Aimed, Lapses, NEW s \in Slot, CommitEdit(s)
  PROVE  Lapsing
<1> DEFINE a == flight[s].ask.on
           row == IF flight[s].ask.do = "delete" THEN None ELSE Edited(a, flight[s].row, flight[s].ask)
<1>1. flight[s] # None /\ flight[s].ask.do \in {"patch", "delete"}
  BY AtIsRequest DEF CommitEdit
<1>2. a \in Account /\ issued \subseteq Account BY <1>1 DEF Aimed, Types
<1>3. CASE ~Exists(a) BY <1>3 DEF CommitEdit, Lapsing, Lapses, Exists
<1>4. CASE Exists(a)
  <2>1. /\ accounts' = [accounts EXCEPT ![a] = row]
        /\ lapsed' = (IF row # None /\ ~row.active THEN lapsed \cup {a} ELSE lapsed)
    BY <1>4 DEF CommitEdit
  <2> HIDE DEF row
  <2>2. accounts'[a] = row /\ \A x \in Account \ {a} : accounts'[x] = accounts[x]
    BY <1>2, <2>1 DEF Types
  <2>3. lapsed \subseteq lapsed' /\ lapsed' \subseteq Account BY <1>2, <2>1 DEF Lapses
  <2>4. \A x \in Account : Exists(x)' /\ ~accounts'[x].active => x \in lapsed'
    BY <2>1, <2>2, <2>3 DEF Lapsing, Lapses, Exists
  <2> QED BY <1>2, <1>4, <2>2, <2>3, <2>4 DEF Lapsing, Lapses, Exists
<1> QED BY <1>3, <1>4

LEMMA LapsesStep ==
  ASSUME Base, Lapses, [Next]_vars
  PROVE  Lapsing
<1>0. Types /\ Aimed /\ Unique BY DEF Base
<1>a. UNCHANGED <<accounts, lapsed>> => Lapsing BY DEF Lapsing, Lapses, Exists
<1>1. CASE Quiet BY <1>1, <1>a DEF Quiet
<1>2. CASE \E ask \in scenario.asks : Send(ask[1], ask[2])
  BY <1>2, <1>a DEF Send, database, history
<1>3. ASSUME NEW s \in Slot, Serve(s) PROVE Lapsing
  <2>1. CASE CommitEdit(s) BY <1>0, <2>1, CommitLapses
  <2>2. CASE Signup(s)
    <3>1. lapsed' = lapsed BY <2>2 DEF Signup, history
    <3>2. flight[s].ask.on \in Email
           /\ (UNCHANGED database \/ Insert(flight[s].ask.on, "guest"))
      BY <1>0, <2>2, SignupHandles
    <3>3. CASE UNCHANGED database BY <1>a, <3>1, <3>3 DEF database
    <3>4. CASE Insert(flight[s].ask.on, "guest")
      BY <1>0, <3>1, <3>2, <3>4, InsertLapses DEF Role
    <3> QED BY <3>2, <3>3, <3>4
  <2>3. CASE Authenticate(s) BY <2>3, <1>a DEF Authenticate, database, history
  <2>4. CASE Load(s) BY <2>4, <1>a DEF Load, database, history
  <2>5. CASE Logout(s) BY <2>5, <1>a DEF Logout, database, history
  <2>6. CASE LoginRead(s) BY <2>6, <1>a DEF LoginRead, database, history
  <2>7. CASE LoginCommit(s) BY <2>7, <1>a DEF LoginCommit, database, history
  <2> QED BY <1>3, <2>1, <2>2, <2>3, <2>4, <2>5, <2>6, <2>7 DEF Serve
<1>4. CASE \E s \in Slot : Receive(s) BY <1>4, <1>a DEF Receive, database
<1>5. CASE \E b \in Browser : OpenLive(b) BY <1>5, <1>a DEF OpenLive, database, history
<1>6. ASSUME NEW p \in Replica, InsertAdmin(p) PROVE Lapsing
  <2>1. lapsed' = lapsed BY <1>6 DEF InsertAdmin
  <2>2. CASE UNCHANGED database BY <1>a, <2>1, <2>2 DEF database
  <2>3. CASE Insert(AdminEmail, "admin") BY <1>0, <2>1, <2>3, InsertLapses DEF Role
  <2> QED BY <1>6, <2>2, <2>3 DEF InsertAdmin
<1> QED BY <1>0, <1>1, <1>2, <1>3, <1>4, <1>5, <1>6, StepCases

\* A token whose account is there and was active all the time.
Sound(t) == t # None /\ Exists(t.sub) /\ t.sub \notin lapsed

\* A token that is sound after a step was sound before it.
LEMMA SoundBefore ==
  ASSUME Base, Lapses, [Next]_vars, NEW t, t # None => t.sub \in issued, Sound(t)'
  PROVE  Sound(t)
BY LapsesStep DEF Sound, Lapsing

\* The token a diligent browser keeps was young when its last poll was answered.
Kept ==
  \A b \in scenario.diligent : jar[b] # None =>
    /\ polled[b] <= now /\ (now - polled[b]) * 2 <= TTL
    /\ Sound(jar[b]) => (polled[b] - jar[b].iat) * 2 < TTL

\* What is on its way from or to a diligent browser was sent in this second.
PromptAt(s) ==
  LET f == flight[s] IN
  f # None /\ f.browser \in scenario.diligent =>
    /\ f.cookie \in Token => f.cookie.iat = now
    /\ jar[f.browser] \in {None, f.token} \/ jar[f.browser].iat = now
    /\ Sound(f.token) => Valid(f.token)
    /\ f.at = "reply" /\ f.ask.do = "poll" /\ f.cookie = Keep /\ Sound(f.token) =>
         (now - f.token.iat) * 2 < TTL

Diligent ==
  /\ polled \in [Browser -> Nat] /\ Lapses
  /\ Kept /\ \A s \in Slot : PromptAt(s)

LEMMA KeptIsValid ==
  ASSUME Base, Diligent, NEW b \in scenario.diligent, Sound(jar[b])
  PROVE  Valid(jar[b])
<1>1. /\ b \in Browser /\ jar[b] # None /\ jar[b] \in Token
  BY DEF Base, Types, Sound
<1>2. jar[b].iat \in Nat /\ now \in Nat /\ polled[b] \in Nat /\ TTL \in Nat
  BY <1>1 DEF Token, Base, Types, Diligent
<1>3. (now - polled[b]) * 2 <= TTL /\ (polled[b] - jar[b].iat) * 2 < TTL
  BY <1>1 DEF Diligent, Kept
<1>4. now < jar[b].iat + TTL BY <1>2, <1>3
<1> QED BY <1>1, <1>4 DEF Valid

LEMMA DiligentInit == Init => Diligent
<1> SUFFICES ASSUME Init PROVE Diligent OBVIOUS
<1>1. polled \in [Browser -> Nat] /\ Lapses BY DEF Init, Lapses
<1>2. \A s \in Slot : PromptAt(s) BY DEF Init, PromptAt
<1>3. ASSUME NEW b \in scenario.diligent, jar[b] # None
      PROVE  polled[b] = 0 /\ now = 0 /\ jar[b].iat = 0
  BY <1>3 DEF Init
<1>4. Kept BY <1>3 DEF Kept
<1> QED BY <1>1, <1>2, <1>4 DEF Diligent
\* Sending and answering leave the cookies and the clock alone.
LEMMA PromptStays ==
  ASSUME Base, Lapses, Backed, [Next]_vars, NEW s \in Slot, PromptAt(s),
         flight'[s] = flight[s], UNCHANGED <<scenario, now, jar>>
  PROVE  PromptAt(s)'
<1>1. flight[s] # None /\ flight[s].token # None => flight[s].token.sub \in issued
  BY DEF Backed, TokenBacked
<1>2. flight[s] # None /\ Sound(flight[s].token)' => Sound(flight[s].token)
  BY <1>1, SoundBefore
<1> QED BY <1>2 DEF PromptAt, Valid

LEMMA KeptStays ==
  ASSUME Base, Lapses, Backed, [Next]_vars, Kept, UNCHANGED <<scenario, now, jar, polled>>
  PROVE  Kept'
<1>1. \A b \in scenario.diligent : jar[b] # None => jar[b].sub \in issued
  BY DEF Backed, TokenBacked, Base, Types
<1>2. \A b \in scenario.diligent : Sound(jar[b])' => Sound(jar[b])
  <2>1. TAKE b \in scenario.diligent
  <2>2. HAVE Sound(jar[b])'
  <2>3. PICK t : t = jar[b] OBVIOUS
  <2>4. Sound(t)' BY <2>2, <2>3 DEF Sound
  <2> QED BY <1>1, <2>3, <2>4, SoundBefore
<1> QED BY <1>2 DEF Kept

\* The server does not poll.
LEMMA ServeKeepsPolled ==
  ASSUME NEW s \in Slot, Serve(s)
  PROVE  UNCHANGED <<scenario, now, jar, polled>>
<1>1. CASE Authenticate(s) BY <1>1 DEF Authenticate, clock, history
<1>2. CASE Load(s) BY <1>2 DEF Load, clock, history
<1>3. CASE CommitEdit(s) BY <1>3 DEF CommitEdit, clock
<1>4. CASE Logout(s) BY <1>4 DEF Logout, clock, history
<1>5. CASE Signup(s) BY <1>5 DEF Signup, clock, history
<1>6. CASE LoginRead(s) BY <1>6 DEF LoginRead, clock, history
<1>7. CASE LoginCommit(s) BY <1>7 DEF LoginCommit, clock, history
<1> QED BY <1>1, <1>2, <1>3, <1>4, <1>5, <1>6, <1>7 DEF Serve

\* A poll with a sound token is answered with a fresh one, or the token is young.
LEMMA PollAnswered ==
  ASSUME Base, Lapses, NEW s \in Slot, Serve(s), flight[s].ask.do = "poll",
         Sound(flight[s].token), Valid(flight[s].token), flight'[s].cookie = Keep
  PROVE  (now - flight[s].token.iat) * 2 < TTL
<1> DEFINE t == flight[s].token
<1>0. Types BY DEF Base
<1>1. Authenticate(s)
  BY DEF Serve, Load, CommitEdit, Logout, Signup, LoginRead, LoginCommit, At
<1>2. flight[s] \in Request /\ flight[s] # None
  BY <1>0, <1>1, AtIsRequest DEF Authenticate
<1>3. t \in Token /\ t.sub \in Account /\ t.iat \in Nat /\ now \in Nat
  BY <1>0, <1>2 DEF Request, Sound, Token, Types
<1>4. Known(t) BY <1>3 DEF Known, Sound, Lapses
<1>5. Answer(s, Renewed(t)) BY <1>1, <1>4 DEF Authenticate
<1>6. Renewed(t) \in Token \cup {None, Keep} BY <1>0, <1>3, <1>4, RenewedIsCookie
<1>7. Renewed(t) = Keep BY <1>0, <1>2, <1>5, <1>6, AnswerFacts
<1>8. NewToken(t.sub) # Keep BY <1>0, <1>3, <1>4, NewTokenIsToken DEF Known
<1>9. ~ShouldReissue(t) BY <1>7, <1>8 DEF Renewed
<1> QED BY <1>3, <1>9 DEF ShouldReissue

LEMMA ServeDiligent ==
  ASSUME Base, Backed, Diligent, [Next]_vars, NEW s \in Slot, Serve(s)
  PROVE  Diligent'
<1>0. Types /\ Aimed /\ Unique /\ Lapses BY DEF Base, Diligent
<1>1. Served(s) /\ UNCHANGED <<scenario, now, jar, polled>>
  BY <1>0, ServeFacts, ServeKeepsPolled
<1>2. Lapses' BY <1>0, LapsesStep DEF Lapsing
<1>3. Kept' BY <1>0, <1>1, KeptStays DEF Diligent
<1>4. \A x \in Slot \ {s} : PromptAt(x)'
  BY <1>0, <1>1, PromptStays DEF Diligent, Served, Handled
<1>5. PromptAt(s)'
  <2>1. /\ flight[s] # None /\ flight'[s].browser = flight[s].browser
        /\ flight'[s].token = flight[s].token /\ flight'[s].ask.do = flight[s].ask.do
        /\ PromptAt(s)
    BY <1>1 DEF Served, Handled, Diligent
  <2> SUFFICES ASSUME flight'[s].browser \in scenario.diligent PROVE PromptAt(s)'
    BY <1>1 DEF PromptAt
  <2>2. flight'[s].cookie \in Token => flight'[s].cookie.iat = now
    <3>1. CASE flight'[s].cookie \in {flight[s].cookie, Keep, None}
      BY <1>1, <2>1, <3>1 DEF PromptAt
    <3>2. CASE Fresh(flight'[s].cookie) BY <1>1, <3>2 DEF Fresh
    <3> QED BY <1>1, <3>1, <3>2 DEF Served
  <2>3. jar[flight[s].browser] \in {None, flight[s].token} \/ jar[flight[s].browser].iat = now
    BY <1>1, <2>1 DEF PromptAt
  <2>4. flight[s].token # None => flight[s].token.sub \in issued
    BY <2>1 DEF Backed, TokenBacked
  <2>5. Sound(flight[s].token)' => Sound(flight[s].token)
    <3>1. PICK t : t = flight[s].token OBVIOUS
    <3>2. Sound(flight[s].token)' => Sound(t)' BY <2>1, <3>1 DEF Sound
    <3> QED BY <1>0, <2>4, <3>1, <3>2, SoundBefore
  <2>6. Sound(flight[s].token) => Valid(flight[s].token) BY <1>1, <2>1 DEF PromptAt
  <2>7. flight[s].ask.do = "poll" /\ flight'[s].cookie = Keep /\ Sound(flight[s].token) =>
          (now - flight[s].token.iat) * 2 < TTL
    BY <1>0, <2>6, PollAnswered
  <2> QED BY <1>1, <2>1, <2>2, <2>3, <2>5, <2>6, <2>7 DEF PromptAt, Valid
<1> QED BY <1>1, <1>2, <1>3, <1>4, <1>5 DEF Diligent

LEMMA ReceiveDiligent ==
  ASSUME Base, Backed, Diligent, [Next]_vars, NEW s \in Slot, Receive(s)
  PROVE  Diligent'
<1> DEFINE b == flight[s].browser
           c == flight[s].cookie
<1>0. Types /\ Aimed /\ Unique /\ Lapses BY DEF Base, Diligent
<1>1. /\ flight[s] \in Request /\ flight[s] # None /\ b \in Browser
      /\ flight' = [flight EXCEPT ![s] = None]
      /\ jar'[b] = IF c = Keep THEN jar[b] ELSE c
      /\ \A x \in Browser \ {b} : jar'[x] = jar[x]
      /\ UNCHANGED <<clock, database>>
  BY <1>0, ReceiveFacts
<1>2. /\ \A x \in Slot : flight'[x] # None => x # s /\ flight'[x] = flight[x]
      /\ scenario' = scenario /\ now' = now /\ accounts' = accounts /\ lapsed' = lapsed
  BY <1>0, <1>1, DropFacts DEF clock, database, Receive
<1>3. polled' = [polled EXCEPT ![b] =
        IF b \in scenario.diligent /\ (flight[s].ask.do = "poll" \/ c # Keep) THEN now ELSE @]
  BY DEF Receive
<1>4. now \in Nat /\ TTL \in Nat /\ TTL > 0 /\ flight[s].at = "reply"
  BY <1>0 DEF Types, Receive, At
<1>5. polled' \in [Browser -> Nat] /\ Lapses' BY <1>0, <1>2, <1>3, <1>4 DEF Diligent, Lapses, Exists
<1>6. c \in Token \cup {None, Keep} /\ jar[b] \in Token \cup {None} /\ flight[s].token \in Token \cup {None}
  BY <1>0, <1>1 DEF Request, Types
<1>7. \A t : Sound(t)' <=> Sound(t)
  BY <1>2 DEF Sound, Exists
<1>8. PromptAt(s) BY DEF Diligent
<1> HIDE DEF b, c
<1>9. ASSUME NEW x \in scenario.diligent, jar'[x] # None
      PROVE  /\ polled'[x] <= now /\ (now - polled'[x]) * 2 <= TTL
             /\ Sound(jar'[x]) => (polled'[x] - jar'[x].iat) * 2 < TTL
  <2>1. x \in Browser BY <1>0 DEF Types
  <2>2. CASE polled'[x] = polled[x] /\ jar'[x] = jar[x]
    BY <1>9, <2>2 DEF Diligent, Kept
  <2>3. CASE x = b /\ c # Keep
    <3>1. polled'[x] = now /\ jar'[x] = c BY <1>0, <1>1, <1>3, <2>1, <2>3 DEF Diligent
    <3>2. c \in Token /\ c.iat = now BY <1>1, <1>6, <1>8, <1>9, <2>3, <3>1 DEF PromptAt, b, c
    <3> QED BY <1>4, <3>1, <3>2
  <2>4. CASE x = b /\ c = Keep /\ flight[s].ask.do = "poll"
    <3>1. polled'[x] = now /\ jar'[x] = jar[x] BY <1>0, <1>1, <1>3, <2>1, <2>4 DEF Diligent
    <3>2. jar[x] = flight[s].token \/ jar[x].iat = now
      BY <1>1, <1>8, <1>9, <2>4, <3>1 DEF PromptAt, b, c
    <3>3. Sound(flight[s].token) => (now - flight[s].token.iat) * 2 < TTL
      BY <1>1, <1>4, <1>8, <2>4 DEF PromptAt, b, c
    <3> QED BY <1>4, <3>1, <3>2, <3>3
  <2> QED BY <1>1, <1>3, <2>1, <2>2, <2>3, <2>4 DEF Diligent
<1>10. Kept'
  <2>1. \A x \in scenario.diligent : Sound(jar[x])' <=> Sound(jar'[x])
    BY <1>2 DEF Sound, Exists
  <2> QED BY <1>2, <1>9, <2>1 DEF Kept
<1>11. ASSUME NEW x \in Slot PROVE PromptAt(x)'
  <2>1. CASE flight'[x] = None BY <2>1 DEF PromptAt
  <2>2. CASE flight'[x] # None
    <3>1. x # s /\ flight'[x] = flight[x] /\ PromptAt(x) BY <1>2, <2>2 DEF Diligent
    <3>2. Sound(flight[x].token)' <=> Sound(flight[x].token) BY <1>2, <3>1 DEF Sound, Exists
    <3>3. flight[x].browser \in Browser BY <1>0, <2>2, <3>1 DEF Types, Request
    <3>4. flight[x].browser \in scenario.diligent =>
            \/ jar'[flight[x].browser] = jar[flight[x].browser]
            \/ jar'[flight[x].browser] \in {None} \/ jar'[flight[x].browser].iat = now
      BY <1>1, <1>6, <1>8, <3>3 DEF PromptAt, b, c
    <3> QED BY <1>2, <3>1, <3>2, <3>4 DEF PromptAt, Valid
  <2> QED BY <2>1, <2>2
<1> QED BY <1>5, <1>10, <1>11 DEF Diligent

LEMMA DiligentStep == Base /\ Backed /\ Diligent /\ [Next]_vars => Diligent'
<1> SUFFICES ASSUME Base, Backed, Diligent, [Next]_vars PROVE Diligent' OBVIOUS
<1>0. Types /\ Aimed /\ Unique /\ Lapses BY DEF Base, Diligent
<1>l. Lapses' BY <1>0, LapsesStep DEF Lapsing
<1>a. ASSUME UNCHANGED <<scenario, now, jar, polled>>,
             \A s \in Slot : flight'[s] = None \/ flight'[s] = flight[s]
      PROVE  Diligent'
  <2>1. Kept' BY <1>0, <1>a, KeptStays DEF Diligent
  <2>2. ASSUME NEW s \in Slot PROVE PromptAt(s)'
    <3>1. CASE flight'[s] = None BY <3>1 DEF PromptAt
    <3>2. CASE flight'[s] = flight[s] BY <1>0, <1>a, <3>2, PromptStays DEF Diligent
    <3> QED BY <1>a, <3>1, <3>2
  <2> QED BY <1>a, <1>l, <2>1, <2>2 DEF Diligent
<1>1. CASE Second
  <2>1. /\ now' = now + 1 /\ UNCHANGED <<scenario, accounts, jar, flight, polled, lapsed>>
        /\ \A b \in scenario.diligent : InTime(b)
    BY <1>1 DEF Second, database, history
  <2>2. ASSUME NEW s \in Slot PROVE PromptAt(s)' BY <2>1 DEF PromptAt, InTime
  <2>3. ASSUME NEW b \in scenario.diligent, jar[b] # None
        PROVE  /\ polled[b] <= now + 1 /\ (now + 1 - polled[b]) * 2 <= TTL
    <3>1. b \in Browser /\ now \in Nat /\ polled[b] \in Nat BY <1>0 DEF Types, Diligent
    <3>2. polled[b] <= now BY <2>3 DEF Diligent, Kept
    <3> QED BY <2>1, <2>3, <3>1, <3>2 DEF InTime
  <2>4. \A b \in scenario.diligent : jar[b] # None /\ Sound(jar[b]) =>
          (polled[b] - jar[b].iat) * 2 < TTL
    BY DEF Diligent, Kept
  <2>5. Kept'
    <3> SUFFICES ASSUME NEW b \in scenario.diligent, jar[b] # None
                 PROVE  /\ polled[b] <= now' /\ (now' - polled[b]) * 2 <= TTL
                        /\ Sound(jar[b])' => (polled[b] - jar[b].iat) * 2 < TTL
      BY <2>1 DEF Kept
    <3>0. b \in Browser /\ now \in Nat /\ polled[b] \in Nat /\ TTL \in Nat
      BY <1>0 DEF Types, Diligent
    <3>1. polled[b] <= now + 1 /\ (now + 1 - polled[b]) * 2 <= TTL BY <2>3
    <3>2. now' = now + 1 BY <2>1
    <3>3. Sound(jar[b])' => (polled[b] - jar[b].iat) * 2 < TTL
      BY <2>1, <2>3, <2>4 DEF Sound, Exists
    <3>4. polled[b] <= now' /\ (now' - polled[b]) * 2 <= TTL BY ONLY <3>0, <3>1, <3>2
    <3> QED BY <3>3, <3>4
  <2> QED BY <1>l, <2>1, <2>2, <2>5 DEF Diligent
<1>2. CASE Quiet /\ now' = now BY <1>2, <1>a DEF Quiet
<1>3. ASSUME NEW ask \in scenario.asks, Send(ask[1], ask[2]) PROVE Diligent'
  <2>1. UNCHANGED <<scenario, now, jar, polled, accounts, lapsed>> BY <1>3 DEF Send, clock, database, history
  <2>2. PICK s \in Slot :
          /\ \A x \in Slot \ {s} : flight'[x] = flight[x]
          /\ flight'[s].browser = ask[1] /\ flight'[s].at = "sent"
          /\ flight'[s].token = jar[ask[1]] /\ flight'[s].cookie = Keep
    BY <1>0, <1>3, SendFacts
  <2>3. Kept' BY <1>0, <2>1, KeptStays DEF Diligent
  <2>4. \A x \in Slot \ {s} : PromptAt(x)' BY <1>0, <2>1, <2>2, PromptStays DEF Diligent
  <2>5. ask[1] \in scenario.diligent /\ Sound(jar[ask[1]]) => Valid(jar[ask[1]]) BY KeptIsValid
  <2>6. Sound(flight[s].token)' => Sound(jar[ask[1]])
    BY <2>1, <2>2 DEF Sound, Exists
  <2>7. PromptAt(s)' BY <2>1, <2>2, <2>5, <2>6 DEF PromptAt, Valid
  <2> QED BY <1>l, <2>1, <2>3, <2>4, <2>7 DEF Diligent
<1>4. ASSUME NEW s \in Slot, Serve(s) \/ Receive(s) PROVE Diligent'
  BY <1>4, ServeDiligent, ReceiveDiligent
<1>5. CASE \E b \in Browser : OpenLive(b) BY <1>5, <1>a DEF OpenLive, clock, history
<1>6. CASE \E p \in Replica : InsertAdmin(p) BY <1>6, <1>a DEF InsertAdmin, clock
<1> QED BY <1>0, <1>1, <1>2, <1>3, <1>4, <1>5, <1>6, StepCases DEF Quiet

\* auth/user.py: whatever else its browser sends, whatever replies are lost and accounts
\* edited, a browser whose polls are answered every half TTL keeps a valid token.
THEOREM PollingHolds == Spec => []PollingKeepsSession
<1>1. Init => Base /\ Backed /\ Diligent BY BaseInit, BackedInit, DiligentInit
<1>2. Base /\ Backed /\ Diligent /\ [Next]_vars => (Base /\ Backed /\ Diligent)'
  BY BaseStep, BackedStep, DiligentStep
<1>3. Base /\ Diligent => PollingKeepsSession
  BY KeptIsValid DEF PollingKeepsSession, Sound
<1> QED BY <1>1, <1>2, <1>3, PTL DEF Spec
=============================================================================
