------------------------------ MODULE Sessions ------------------------------
(***************************************************************************)
(* Accounts and sessions of the dashboard (backend/app/auth,               *)
(* api/v1/auth.py, api/v1/users.py, the bootstrap in main.py and the       *)
(* handshake of api/v1/live.py).  A session is a signed token in a cookie; *)
(* the server keeps nothing of it, but reads the account on every request  *)
(* and, past half the token's life, answers with a fresh one.  A WebSocket *)
(* trusts the role in the token.                                           *)
(*                                                                         *)
(* Requests of all browsers interleave at every await; replies may be lost. *)
(* Time is in seconds, passwords are the right ones.                       *)
(***************************************************************************)
EXTENDS Integers, FiniteSets

CONSTANTS
  Email, Account,   \* users.email; user ids, drawn fresh for every row
  Browser, Slot,    \* browsers; requests that may be in flight at once
  Replica,          \* API processes
  TTL,              \* JWT_TTL_SECONDS
  AdminEmail,       \* ADMIN_EMAIL
  None, Keep,       \* no row, request or cookie; a reply that sets no cookie
  Scenario          \* bound: the accounts at first, the requests made, for how long

Role == {"guest", "member", "contributor", "admin"}
Row == [email : Email, role : Role, active : BOOLEAN]
Token == [sub : Account, role : Role, iat : Nat]
Authenticated == {"poll", "patch", "delete"}
Kind == Authenticated \cup {"logout", "signup", "login"}
Body == [do : Kind, on : Email \cup Account \cup {None}, role : Role \cup {"unset"},
         active : {"unset", "yes", "no"}]

\* s.diligent: browsers that poll at least every half TTL and are answered within a second.
SessionAssumption ==
  /\ TTL \in Nat \ {0} /\ AdminEmail \in Email
  /\ None \notin Email \cup Account \cup Row \cup Token /\ Keep \notin Token \cup {None}
  /\ IsFiniteSet(Account)
  /\ \A s \in Scenario :
       /\ s.accounts \in [Account -> Row \cup {None}]
       /\ \A a, b \in Account : s.accounts[a] # None /\ s.accounts[b] # None
                                  /\ s.accounts[a].email = s.accounts[b].email => a = b
       /\ s.jar \in [Browser -> {None} \cup {[sub |-> a, role |-> s.accounts[a].role, iat |-> 0] :
                                              a \in {x \in Account : s.accounts[x] # None}}]
       /\ s.asks \subseteq Browser \X Body
       /\ \A ask \in s.asks :
            /\ ask[2].do \in {"signup", "login"} => ask[2].on \in Email
            /\ ask[2].do \in {"patch", "delete"} => ask[2].on \in Account
       /\ s.diligent \cup s.listening \subseteq Browser
       /\ {s.last, s.boots} \subseteq Nat
ASSUME SessionAssumption

VARIABLES
  scenario, now,
  accounts, issued,   \* Account -> its row; the ids drawn so far
  jar,                \* Browser -> its access_token cookie
  flight,             \* Slot -> a request from its sending to its reply
  live,               \* Browser -> its WebSocket
  boot, boots,        \* Replica -> how far _bootstrap_admin is; startups so far
  heldUntil,          \* history: account, role -> when the account lost the role
  polled,             \* history: diligent Browser -> when a poll was last answered or a cookie came
  lapsed,             \* history: the accounts that were not active at some time
  left,               \* history: Browser -> no | yes (logged out) | raced
  excused, ruled      \* history: how the last admin went; there was an admin
clock == <<scenario, now>>
database == <<accounts, issued>>
history == <<heldUntil, polled, lapsed, left, excused, ruled>>
vars == <<clock, database, jar, flight, live, boot, boots, history>>

Exists(a) == accounts[a] # None
Admins == {a \in Account : Exists(a) /\ accounts[a].role = "admin"}
ActiveAdmins == {a \in Admins : accounts[a].active}
Taken(e) == \E a \in Account : Exists(a) /\ accounts[a].email = e
Free == {s \in Slot : flight[s] = None}

Init ==
  /\ scenario \in Scenario /\ now = 0
  /\ accounts = scenario.accounts
  /\ issued = {a \in Account : accounts[a] # None}
  /\ jar = scenario.jar /\ flight = [s \in Slot |-> None]
  /\ live = [b \in Browser |-> None]
  /\ boot = [p \in Replica |-> "up"] /\ boots = 0
  /\ heldUntil = [a \in Account |-> [r \in Role |-> -1]]
  /\ polled = [b \in Browser |-> 0] /\ lapsed = {a \in Account : Exists(a) /\ ~accounts[a].active}
  /\ left = [b \in Browser |-> "no"]
  /\ excused = FALSE /\ ruled = (ActiveAdmins # {})

-----------------------------------------------------------------------------
(* Roles and tokens.                                                       *)

\* ROLE_PERMISSIONS
Permissions(role) ==
  CASE role = "guest" -> {"dashboard.preview"}
    [] role = "member" -> {"dashboard.view", "live.realtime"}
    [] role = "contributor" -> {"dashboard.view", "live.realtime", "event.label.write", "event.delete"}
    [] role = "admin" -> {"dashboard.view", "live.realtime", "event.label.write", "event.delete",
                          "device.config.write", "device.register", "user.manage",
                          "event.candidate.manage"}

\* encode_access_token
NewToken(a) == [sub |-> a, role |-> accounts[a].role, iat |-> now]

\* decode_access_token: PyJWT refuses a token in the second it expires.
Valid(t) == t # None /\ now < t.iat + TTL

\* Mutant: re-issued at the end of the life.
ReissueLate(t) == now - t.iat >= TTL
\* should_reissue
ShouldReissue(t) == (now - t.iat) * 2 >= TTL

\* Mutant: the role of the old token goes into the new one.
RenewedAsBefore(t) == IF ShouldReissue(t) THEN [t EXCEPT !.iat = now] ELSE Keep
\* get_current_user: the cookie of the reply.
Renewed(t) == IF ShouldReissue(t) THEN NewToken(t.sub) ELSE Keep

\* get_current_user: the account that asks.
Known(t) == Valid(t) /\ Exists(t.sub) /\ accounts[t.sub].active

-----------------------------------------------------------------------------
(* Requests.                                                               *)

Send(b, ask) ==
  /\ Free # {}
  /\ LET s == CHOOSE x \in Free : TRUE IN
       flight' = [flight EXCEPT ![s] =
         [browser |-> b, ask |-> ask, token |-> jar[b], at |-> "sent", row |-> None, cookie |-> Keep]]
  /\ UNCHANGED <<clock, database, jar, live, boot, boots, history>>

At(s, kinds, stage) == flight[s] # None /\ flight[s].ask.do \in kinds /\ flight[s].at = stage

\* A refusal carries no cookie: the dependency's response is thrown away.
Answer(s, cookie) == flight' = [flight EXCEPT ![s] = [@ EXCEPT !.at = "reply", !.cookie = cookie]]
Refuse(s) == Answer(s, Keep)

\* get_current_user and require_permission.
Authenticate(s) ==
  LET t == flight[s].token IN
  /\ At(s, Authenticated, "sent")
  /\ IF ~Known(t) THEN Refuse(s)
     ELSE IF flight[s].ask.do = "poll" THEN Answer(s, Renewed(t))
     ELSE IF "user.manage" \notin Permissions(accounts[t.sub].role) THEN Refuse(s)
     ELSE flight' = [flight EXCEPT ![s] =
                           [@ EXCEPT !.at = "authorised", !.cookie = Renewed(t),
                                     !.row = accounts[t.sub]]]
  /\ UNCHANGED <<clock, database, jar, live, boot, boots, history>>

\* Mutant: one may delete one's own account.
OnlyDeactivating(s) == flight[s].ask.active = "no" /\ flight[s].ask.on = flight[s].token.sub
\* "cannot deactivate yourself", "cannot delete yourself"
AgainstOneself(s) ==
  /\ flight[s].ask.on = flight[s].token.sub
  /\ flight[s].ask.do = "delete" \/ flight[s].ask.active = "no"

\* session.get(User, user_id) in patch_user and delete_user; the session of the request
\* has the row of the one who asks already.
Load(s) ==
  LET a == flight[s].ask.on
      row == IF a = flight[s].token.sub THEN flight[s].row ELSE accounts[a]
  IN
  /\ At(s, {"patch", "delete"}, "authorised")
  /\ IF row = None \/ AgainstOneself(s) THEN Refuse(s)
     ELSE flight' = [flight EXCEPT ![s] = [@ EXCEPT !.at = "loaded", !.row = row]]
  /\ UNCHANGED <<clock, database, jar, live, boot, boots, history>>

\* The UPDATE names the columns whose value differs from the row that was read.
Edited(a, read, ask) ==
  [accounts[a] EXCEPT
     !.role = IF ask.role \notin {"unset", read.role} THEN ask.role ELSE @,
     !.active = IF ask.active # "unset" /\ (ask.active = "yes") # read.active
                THEN ask.active = "yes" ELSE @]

Loses(a, row) ==
  heldUntil' = IF row # None /\ row.role = accounts[a].role THEN heldUntil
               ELSE [heldUntil EXCEPT ![a][accounts[a].role] = now]

\* session.commit(); a row that is gone is not updated (StaleDataError).
CommitEdit(s) ==
  LET a == flight[s].ask.on
      actor == flight[s].token.sub
      row == IF flight[s].ask.do = "delete" THEN None ELSE Edited(a, flight[s].row, flight[s].ask)
  IN
  /\ At(s, {"patch", "delete"}, "loaded")
  /\ IF Exists(a)
     THEN /\ accounts' = [accounts EXCEPT ![a] = row]
          /\ Loses(a, row)
          /\ lapsed' = (IF row # None /\ ~row.active THEN lapsed \cup {a} ELSE lapsed)
          /\ excused' = (excused \/ actor \notin ActiveAdmins
                                 \/ (accounts[a].role = "admin" /\ row # None /\ row.role # "admin"))
          /\ ruled' = (ruled \/ ActiveAdmins' # {})
          /\ Answer(s, flight[s].cookie)
     ELSE /\ UNCHANGED <<accounts, heldUntil, lapsed, excused, ruled>>
          /\ IF flight[s].ask.do = "delete" THEN Answer(s, flight[s].cookie) ELSE Refuse(s)
  /\ UNCHANGED <<clock, issued, jar, live, boot, boots, polled, left>>

\* Mutant: the cookie is not the one that was set.
LogoutElsewhere(s) ==
  /\ At(s, {"logout"}, "sent") /\ Refuse(s)
  /\ UNCHANGED <<clock, database, jar, live, boot, boots, history>>
Logout(s) ==
  /\ At(s, {"logout"}, "sent") /\ Answer(s, None)
  /\ UNCHANGED <<clock, database, jar, live, boot, boots, history>>

Insert(e, role) ==
  \E a \in Account \ issued :
    /\ accounts' = [accounts EXCEPT ![a] = [email |-> e, role |-> role, active |-> TRUE]]
    /\ issued' = issued \cup {a}

\* Mutant: the address is looked up, not constrained.
SignupUnchecked(s) ==
  /\ At(s, {"signup"}, "sent") /\ Insert(flight[s].ask.on, "guest")
  /\ flight' = [flight EXCEPT ![s].at = "reply"]
  /\ UNCHANGED <<clock, jar, live, boot, boots, history>>
\* uq_users_email decides between two at once.
Signup(s) ==
  LET e == flight[s].ask.on IN
  /\ At(s, {"signup"}, "sent")
  /\ IF Taken(e) THEN Refuse(s) /\ UNCHANGED database
     ELSE /\ Insert(e, "guest")
          /\ \E a \in issued' \ issued : Answer(s, [sub |-> a, role |-> "guest", iat |-> now])
  /\ UNCHANGED <<clock, jar, live, boot, boots, history>>

LoginRead(s) ==
  LET mine == {a \in Account : Exists(a) /\ accounts[a].email = flight[s].ask.on} IN
  /\ At(s, {"login"}, "sent")
  /\ IF \E a \in mine : accounts[a].active
     THEN \E a \in mine : flight' = [flight EXCEPT ![s] = [@ EXCEPT !.at = "loaded", !.ask.on = a]]
     ELSE Refuse(s)
  /\ UNCHANGED <<clock, database, jar, live, boot, boots, history>>

\* last_login_at is written, the row read again; whether it is still active is not.
LoginCommit(s) ==
  LET a == flight[s].ask.on IN
  /\ At(s, {"login"}, "loaded")
  /\ IF Exists(a) THEN Answer(s, NewToken(a)) ELSE Refuse(s)
  /\ UNCHANGED <<clock, database, jar, live, boot, boots, history>>

Others(b, s) == {x \in Slot \ {s} : flight[x] # None /\ flight[x].browser = b}

\* The browser stores the cookie of the reply.
Receive(s) ==
  LET b == flight[s].browser
      c == flight[s].cookie
      ask == flight[s].ask.do
  IN
  /\ At(s, Kind, "reply")
  /\ flight' = [flight EXCEPT ![s] = None]
  /\ jar' = [jar EXCEPT ![b] = IF c = Keep THEN @ ELSE c]
  /\ polled' = [polled EXCEPT ![b] = IF b \in scenario.diligent /\ (ask = "poll" \/ c # Keep)
                                          THEN now ELSE @]
  /\ left' = [left EXCEPT ![b] =
       CASE ask = "logout" -> IF Others(b, s) = {} THEN "yes" ELSE "raced"
         [] ask \in {"login", "signup"} /\ c # Keep -> "no"
         [] OTHER -> @]
  /\ UNCHANGED <<clock, database, live, boot, boots, heldUntil, lapsed, excused, ruled>>

Lose(s) ==
  /\ At(s, Kind, "reply") /\ flight' = [flight EXCEPT ![s] = None]
  /\ UNCHANGED <<clock, database, jar, live, boot, boots, history>>

-----------------------------------------------------------------------------
(* The live WebSocket: no look at the account.                             *)

OpenLive(b) ==
  /\ b \in scenario.listening /\ live[b] = None /\ Valid(jar[b]) /\ "live.realtime" \in Permissions(jar[b].role)
  /\ live' = [live EXCEPT ![b] = [sub |-> jar[b].sub, role |-> jar[b].role, at |-> now]]
  /\ UNCHANGED <<clock, database, jar, flight, boot, boots, history>>

CloseLive(b) ==
  /\ live[b] # None /\ live' = [live EXCEPT ![b] = None]
  /\ UNCHANGED <<clock, database, jar, flight, boot, boots, history>>

-----------------------------------------------------------------------------
(* _bootstrap_admin, in every API process that starts.                     *)

Startup(p) ==
  /\ boot[p] = "up" /\ boots < scenario.boots
  /\ boots' = boots + 1 /\ boot' = [boot EXCEPT ![p] = "checking"]
  /\ UNCHANGED <<clock, database, jar, flight, live, history>>

\* Any admin counts, also one that is not active.
CheckAdmin(p) ==
  /\ boot[p] = "checking"
  /\ boot' = [boot EXCEPT ![p] = IF Admins = {} THEN "inserting" ELSE "up"]
  /\ UNCHANGED <<clock, database, jar, flight, live, boots, history>>

InsertAdmin(p) ==
  /\ boot[p] = "inserting" /\ boot' = [boot EXCEPT ![p] = "up"]
  /\ IF Taken(AdminEmail) THEN UNCHANGED database ELSE Insert(AdminEmail, "admin")
  /\ ruled' = (ruled \/ ActiveAdmins' # {})
  /\ UNCHANGED <<clock, jar, flight, live, boots, heldUntil, polled, lapsed, left, excused>>

-----------------------------------------------------------------------------
\* A diligent browser does not let half a TTL pass.
InTime(b) ==
  /\ jar[b] # None => (now + 1 - polled[b]) * 2 <= TTL
  /\ \A s \in Slot : flight[s] # None => flight[s].browser # b

Second ==
  /\ now < scenario.last /\ \A b \in scenario.diligent : InTime(b)
  /\ now' = now + 1
  /\ UNCHANGED <<scenario, database, jar, flight, live, boot, boots, history>>

Serve(s) ==
  \/ Authenticate(s) \/ Load(s) \/ CommitEdit(s) \/ Logout(s) \/ Signup(s)
  \/ LoginRead(s) \/ LoginCommit(s)

Next ==
  \/ Second
  \/ \E ask \in scenario.asks : Send(ask[1], ask[2])
  \/ \E s \in Slot : Serve(s) \/ Receive(s) \/ Lose(s)
  \/ \E b \in Browser : OpenLive(b) \/ CloseLive(b)
  \/ \E p \in Replica : Startup(p) \/ CheckAdmin(p) \/ InsertAdmin(p)

Spec == Init /\ [][Next]_vars

-----------------------------------------------------------------------------
\* Types: an address has one account, and a cookie names an id that was drawn once.
SessionTypeOK ==
  /\ accounts \in [Account -> Row \cup {None}] /\ issued \subseteq Account
  /\ \A a \in Account : Exists(a) => a \in issued
  /\ \A a, b \in Account :
       Exists(a) /\ Exists(b) /\ accounts[a].email = accounts[b].email => a = b
  /\ \A b \in Browser : jar[b] # None => jar[b] \in Token /\ jar[b].sub \in issued

\* A WebSocket is opened under a role its account has, or lost no longer than one life
\* of a token ago, however often the token was renewed, edited accounts and lost replies
\* notwithstanding (auth/user.py: tokens are renewed "with the user's current role").
TrustIsBounded ==
  \A b \in Browser : live[b] # None =>
    LET c == live[b] IN
      \/ Exists(c.sub) /\ accounts[c.sub].role = c.role
      \/ heldUntil[c.sub][c.role] > c.at - TTL

\* "A browser that keeps polling therefore never expires" (auth/user.py): one whose polls
\* are answered at least every half TTL holds a valid token as long as its account is
\* there, unless the account was not active for a while.
PollingKeepsSession ==
  \A b \in scenario.diligent :
    jar[b] # None /\ Exists(jar[b].sub) /\ jar[b].sub \notin lapsed => Valid(jar[b])

\* Once there is an active admin there always is one ("the bootstrap admin should always
\* be reachable", users.py), if none is demoted and every edit is committed while the one
\* who asked for it is still an active admin.
AdminRemains == ruled /\ ~excused => ActiveAdmins # {}

\* Who has logged out stays so until the next login, unless another request of the same
\* browser was under way: its reply may bring a renewed token.
LogoutHolds == \A b \in Browser : left[b] = "yes" => jar[b] = None
=============================================================================
