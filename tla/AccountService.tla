--------------------------- MODULE AccountService ---------------------------
(***************************************************************************)
(* The account service of http-server/src/main.cpp: registration, sessions *)
(* and forgotten passwords.  httplib runs every handler on a thread of its *)
(* pool.  The handlers share the database, active_refresh_tokens and       *)
(* emails_for_reset without any lock, so a handler is cut into a step for  *)
(* each access; a single access is taken to be atomic (the containers      *)
(* themselves are assumed to survive the data races).  A handler that only *)
(* answers (/test, the pages) has no action.                               *)
(*                                                                         *)
(* A suffix after "_" in a name marks a faulty variant.                    *)
(***************************************************************************)
EXTENDS Integers, Sequences, FiniteSets

CONSTANTS Thread,       \* of httplib's pool
          Name, Email, Password,
          NoEmail,      \* the empty address: get_param_value of a missing parameter
          Token,        \* tokens generateToken can draw
          NoToken,      \* a Referer without "/reset/"
          Ttl,          \* seconds a reset token is valid (600 in the code)
          RefreshLife,  \* seconds a refresh token is valid (7 days)
          LastSecond,   \* bound: the clock stops here
          MaxRequests   \* bound: requests that begin a handler

ASSUME AccountServiceAssumption ==
  /\ NoEmail \notin Email /\ NoToken \notin Token
  /\ Ttl \in Nat /\ RefreshLife \in Nat \ {0}
  /\ LastSecond \in Nat /\ MaxRequests \in Nat
  /\ IsFiniteSet(Thread)

Address == Email \union {NoEmail}

VARIABLES users,          \* the collection, in insertion order
          active,         \* active_refresh_tokens
          tokens,         \* of the TokenGenerator: when each was made
          emails_for_reset,
          mail,           \* links that arrived, with the second of their token
          req,            \* what each thread is doing
          now,            \* system_clock, in seconds
          requests,       \* how many began
          logins,         \* history: sessions given for a password
          doubles,        \* history: refreshes of a token that was erased meanwhile
          redeemed,       \* history: how often each reset token gave an address
          changes,        \* history: password changes of each address
          raced           \* history: reset tokens two threads read before an erasure
stores == <<users, active, tokens, emails_for_reset, mail>>
history == <<logins, doubles, redeemed, changes, raced>>
vars == <<stores, req, now, requests, history>>

Idle == [op |-> "idle"]
Session == [user : Address, iat : 0..LastSecond]
Account == [name : Name, email : Address, password : Password,
            seen : Nat,         \* history: accounts there were when it was asked for
            blind : BOOLEAN]    \* history: a lookup failed

Init == /\ users = <<>> /\ active = {} /\ mail = {}
        /\ tokens = << >> /\ emails_for_reset = << >>
        /\ req = [t \in Thread |-> Idle]
        /\ now = 0 /\ requests = 0
        /\ logins = [e \in Address |-> 0] /\ doubles = [e \in Address |-> 0]
        /\ redeemed = [k \in Token |-> 0] /\ raced = {}
        /\ changes = [e \in Address |-> 0]

Begin(t, r) == /\ req[t] = Idle
               /\ requests < MaxRequests
               /\ requests' = requests + 1
               /\ req' = [req EXCEPT ![t] = r]
At(t, op) == req[t].op = op
Become(t, r) == req' = [req EXCEPT ![t] = r] /\ UNCHANGED requests
Put(map, k, v) == [x \in DOMAIN map \union {k} |-> IF x = k THEN v ELSE map[x]]
Drop(map, k) == [x \in DOMAIN map \ {k} |-> map[x]]

-----------------------------------------------------------------------------
(* /register: two lookups and an insertion, three calls of the database.   *)
(* find_documents says "not there" when the database fails.                *)
NameTaken(name) == \E i \in DOMAIN users : users[i].name = name
EmailTaken_Never(email) == FALSE
EmailTaken(email) == \E i \in DOMAIN users : users[i].email = email

RegisterFindsNoName(t, name, email, password) ==
  \E fails \in BOOLEAN :
    /\ NameTaken(name) => fails
    /\ Begin(t, [op |-> "find email", name |-> name, email |-> email,
                 password |-> password, seen |-> Len(users), blind |-> fails])
    /\ UNCHANGED <<stores, now, history>>

RegisterFindsEmail(t) ==
  /\ At(t, "find email")
  /\ \/ /\ EmailTaken(req[t].email)
        /\ Become(t, Idle)
     \/ /\ ~ EmailTaken(req[t].email)
        /\ Become(t, [req[t] EXCEPT !.op = "insert"])
     \/ Become(t, [req[t] EXCEPT !.op = "insert", !.blind = TRUE])
  /\ UNCHANGED <<stores, now, history>>

RegisterInserts(t) ==
  /\ At(t, "insert")
  /\ \/ users' = Append(users, [name |-> req[t].name, email |-> req[t].email,
                                password |-> req[t].password,
                                seen |-> req[t].seen, blind |-> req[t].blind])
     \/ UNCHANGED users         \* insert_document failed; nobody is told
  /\ Become(t, Idle)
  /\ UNCHANGED <<active, tokens, emails_for_reset, mail, now, history>>

-----------------------------------------------------------------------------
(* /login: the password of the last document with the address decides.     *)
StoredPassword(email) ==
  users[CHOOSE i \in DOMAIN users :
          /\ users[i].email = email
          /\ \A j \in DOMAIN users : users[j].email = email => j <= i].password

LoginFindsPassword(t, email, password) ==
  /\ EmailTaken(email) /\ StoredPassword(email) = password
  /\ Begin(t, [op |-> "grant", user |-> email])
  /\ UNCHANGED <<stores, now, history>>

(* create_token and the insertion of the refresh token.  Its second is     *)
(* all that tells it from the other refresh tokens of the address.         *)
LoginGrants(t) ==
  /\ At(t, "grant")
  /\ active' = active \union {[user |-> req[t].user, iat |-> now]}
  /\ logins' = [logins EXCEPT ![req[t].user] = @ + 1]
  /\ Become(t, Idle)
  /\ UNCHANGED <<users, tokens, emails_for_reset, mail, now, doubles, redeemed, changes,
                 raced>>

-----------------------------------------------------------------------------
(* /refresh: find, verify and erase, insert another one.                   *)
RefreshFinds(t, session) ==
  /\ session \in active
  /\ Begin(t, [op |-> "rotate", session |-> session])
  /\ UNCHANGED <<stores, now, history>>

ErasedSession_Kept(session) == active

ErasedSession(session) == active \ {session}

RefreshErases(t) ==
  LET session == req[t].session
  IN  /\ At(t, "rotate")
      /\ IF now - session.iat >= RefreshLife
           THEN /\ Become(t, Idle)
                /\ UNCHANGED <<active, doubles>>
           ELSE /\ active' = ErasedSession(session)
                /\ doubles' = [doubles EXCEPT ![session.user] =
                                 IF session \in active THEN @ ELSE @ + 1]
                /\ Become(t, [op |-> "renew", user |-> session.user])
      /\ UNCHANGED <<users, tokens, emails_for_reset, mail, now, logins, redeemed, changes, raced>>

RefreshInserts(t) ==
  /\ At(t, "renew")
  /\ active' = active \union {[user |-> req[t].user, iat |-> now]}
  /\ Become(t, Idle)
  /\ UNCHANGED <<users, tokens, emails_for_reset, mail, now, history>>

-----------------------------------------------------------------------------
(* /reset_pass: a fresh token, its address, the mail.                      *)
CreatedAt_Expiry == now + Ttl

CreatedAt == now

ResetPassDraws(t, email, k) ==
  /\ \A m \in mail : m.token # k
  /\ k \notin DOMAIN tokens /\ k \notin DOMAIN emails_for_reset /\ redeemed[k] = 0
  /\ \A u \in Thread : req[u].op \in {"remember", "send mail", "forget"} => req[u].token # k
  /\ tokens' = Put(tokens, k, CreatedAt)
  /\ Begin(t, [op |-> "remember", token |-> k, email |-> email, at |-> now])
  /\ UNCHANGED <<users, active, emails_for_reset, mail, now, history>>

ResetPassRemembers(t) ==
  /\ At(t, "remember")
  /\ emails_for_reset' = Put(emails_for_reset, req[t].token, req[t].email)
  /\ Become(t, [req[t] EXCEPT !.op = "send mail"])
  /\ UNCHANGED <<users, active, tokens, mail, now, history>>

ResetPassMails(t) ==
  /\ At(t, "send mail")
  /\ \/ /\ req[t].email # NoEmail
        /\ mail' = mail \union {[to |-> req[t].email, token |-> req[t].token, at |-> req[t].at]}
     \/ UNCHANGED mail          \* EmailSender::send failed
  /\ Become(t, Idle)
  /\ UNCHANGED <<users, active, tokens, emails_for_reset, now, history>>

Expired_AtTtl(k) == now - tokens[k] >= Ttl

Expired(k) == now - tokens[k] > Ttl

(* /reset/:token: isValidToken forgets a token that has expired.           *)
ResetPage(k) ==
  /\ k \in DOMAIN tokens /\ Expired(k)
  /\ tokens' = Drop(tokens, k)
  /\ UNCHANGED <<users, active, emails_for_reset, mail, req, now, requests, history>>

-----------------------------------------------------------------------------
(* /save_password: the subscript makes an entry with the empty address if  *)
(* there is none; the entry goes before the two passwords are compared.    *)
(* A Referer names a token that was mailed; a made-up one does what the    *)
(* empty string does.  That the token has expired is not looked at.        *)
SaveReads(t, k, password, confirmed) ==
  LET known == k \in DOMAIN emails_for_reset
  IN  /\ k = NoToken \/ \E m \in mail : m.token = k
      /\ Begin(t, [op |-> "forget", token |-> k, password |-> password,
                   confirmed |-> confirmed,
                   email |-> IF known THEN emails_for_reset[k] ELSE NoEmail])
      /\ emails_for_reset' = IF known THEN emails_for_reset
                                      ELSE Put(emails_for_reset, k, NoEmail)
      /\ IF known /\ emails_for_reset[k] # NoEmail
           THEN /\ redeemed' = [redeemed EXCEPT ![k] = @ + 1]
                /\ raced' = IF \E u \in Thread : At(u, "forget") /\ req[u].token = k
                              THEN raced \union {k} ELSE raced
           ELSE UNCHANGED <<redeemed, raced>>
      /\ UNCHANGED <<users, active, tokens, mail, now, logins, doubles, changes>>

EmailsAfter_Kept(k) == emails_for_reset

EmailsAfter(k) == Drop(emails_for_reset, k)

SaveForgets(t) ==
  /\ At(t, "forget")
  /\ emails_for_reset' = EmailsAfter(req[t].token)
  /\ Become(t, IF req[t].confirmed THEN [req[t] EXCEPT !.op = "update"] ELSE Idle)
  /\ UNCHANGED <<users, active, tokens, mail, now, history>>

(* update_many: every account with the address, if the database answers.   *)
SaveUpdates(t) ==
  /\ At(t, "update")
  /\ \/ /\ users' = [i \in DOMAIN users |->
                       IF users[i].email = req[t].email
                         THEN [users[i] EXCEPT !.password = req[t].password]
                         ELSE users[i]]
        /\ changes' = [changes EXCEPT ![req[t].email] = @ + 1]
     \/ UNCHANGED <<users, changes>>
  /\ Become(t, Idle)
  /\ UNCHANGED <<active, tokens, emails_for_reset, mail, now, logins, doubles,
                 redeemed, raced>>

Tick == /\ now < LastSecond
        /\ now' = now + 1
        /\ UNCHANGED <<stores, req, requests, history>>

Next ==
  \/ \E t \in Thread, name \in Name, email \in Address, password \in Password :
       RegisterFindsNoName(t, name, email, password)
  \/ \E t \in Thread : RegisterFindsEmail(t)
  \/ \E t \in Thread : RegisterInserts(t)
  \/ \E t \in Thread, email \in Address, password \in Password :
       LoginFindsPassword(t, email, password)
  \/ \E t \in Thread : LoginGrants(t)
  \/ \E t \in Thread, session \in active : RefreshFinds(t, session)
  \/ \E t \in Thread : RefreshErases(t)
  \/ \E t \in Thread : RefreshInserts(t)
  \/ \E t \in Thread, email \in Address, k \in Token : ResetPassDraws(t, email, k)
  \/ \E t \in Thread : ResetPassRemembers(t)
  \/ \E t \in Thread : ResetPassMails(t)
  \/ \E k \in Token : ResetPage(k)
  \/ \E t \in Thread, k \in Token \union {NoToken}, password \in Password,
       confirmed \in BOOLEAN : SaveReads(t, k, password, confirmed)
  \/ \E t \in Thread : SaveForgets(t)
  \/ \E t \in Thread : SaveUpdates(t)
  \/ Tick

Spec == Init /\ [][Next]_vars

-----------------------------------------------------------------------------
Request ==
  {Idle}
  \union [op : {"find email", "insert"}, name : Name, email : Address,
          password : Password, seen : Nat, blind : BOOLEAN]
  \union [op : {"grant", "renew"}, user : Address]
  \union [op : {"rotate"}, session : Session]
  \union [op : {"remember", "send mail"}, token : Token, email : Address, at : 0..LastSecond]
  \union [op : {"forget", "update"}, token : Token \union {NoToken},
          password : Password, confirmed : BOOLEAN, email : Address]

(* The variables have the types the program declares.                      *)
TypeOK ==
  /\ users \in Seq(Account)
  /\ active \subseteq Session
  /\ DOMAIN tokens \subseteq Token /\ \A k \in DOMAIN tokens : tokens[k] \in 0..now
  /\ DOMAIN emails_for_reset \subseteq Token \union {NoToken}
  /\ \A k \in DOMAIN emails_for_reset : emails_for_reset[k] \in Address
  /\ mail \subseteq [to : Email, token : Token, at : 0..LastSecond]
  /\ req \in [Thread -> Request]
  /\ now \in 0..LastSecond /\ requests \in 0..MaxRequests
  /\ {logins, doubles, changes} \subseteq [Address -> Nat]
  /\ redeemed \in [Token -> Nat] /\ raced \subseteq Token

(* Two accounts share a name or an address only if the second was asked    *)
(* for before the first was inserted, or a lookup failed.  The lookups and *)
(* the insertion are three calls of the database and nothing in it makes   *)
(* a field unique.                                                         *)
DuplicatesOverlap ==
  \A i, j \in DOMAIN users :
    i < j /\ (users[i].name = users[j].name \/ users[i].email = users[j].email)
      => users[j].seen < i \/ users[j].blind

(* A link that was mailed and not used yet still leads to its address, and *)
(* its page is refused only when the link is older than Ttl: whatever is   *)
(* posted without a link, with a used one or by several threads.           *)
LinksWork ==
  \A m \in mail : redeemed[m.token] = 0 =>
    /\ m.token \in DOMAIN emails_for_reset
    /\ emails_for_reset[m.token] = m.to
    /\ m.token \notin DOMAIN tokens => now - m.at > Ttl

(* The passwords of an address change at most once for each link mailed to *)
(* it, unless two threads read the entry of one link before either erased  *)
(* it: reading and erasing are two accesses without a lock.                *)
OneChangePerLink ==
  \A e \in Email : LET links == {m \in mail : m.to = e}
                  IN  changes[e] <= Cardinality(links) \/ \E m \in links : m.token \in raced

(* Refreshing multiplies no sessions: the refresh tokens of an address,    *)
(* with those about to be inserted, are at most its logins, plus one for   *)
(* every time two threads refreshed the same token.                        *)
SessionsComeFromLogins ==
  \A e \in Address :
    Cardinality({s \in active : s.user = e})
      + Cardinality({t \in Thread : At(t, "renew") /\ req[t].user = e})
      <= logins[e] + doubles[e]
=============================================================================
