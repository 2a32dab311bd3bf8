----------------------- MODULE AccountService_proofs -----------------------
(***************************************************************************)
(* Proofs about AccountService, for any number of threads, names,          *)
(* addresses and tokens.                                                   *)
(***************************************************************************)
EXTENDS AccountService, FiniteSetTheorems, TLAPS

Registration == [op : {"find email", "insert"}, name : Name, email : Address,
                 password : Password, seen : Nat, blind : BOOLEAN]
Grant == [op : {"grant", "renew"}, user : Address]
Rotation == [op : {"rotate"}, session : Session]
Reset == [op : {"remember", "send mail"}, token : Token, email : Address,
          at : 0..LastSecond]
Saving == [op : {"forget", "update"}, token : Token \union {NoToken},
           password : Password, confirmed : BOOLEAN, email : Address]

(* What a thread is doing tells what its request holds.                    *)
LEMMA RequestFact ==
  ASSUME NEW r \in Request
  PROVE  /\ r.op \in {"find email", "insert"} => r \in Registration
         /\ r.op \in {"grant", "renew"} => r \in Grant
         /\ r.op = "rotate" => r \in Rotation
         /\ r.op \in {"remember", "send mail"} => r \in Reset
         /\ r.op \in {"forget", "update"} => r \in Saving
<1>1. r \in {Idle} \union Registration \union Grant \union Rotation \union Reset \union Saving
  BY DEF Request, Registration, Grant, Rotation, Reset, Saving
<1>2. Idle.op = "idle"
  BY DEF Idle
<1>3. r \in Registration => r.op \in {"find email", "insert"}
  BY DEF Registration
<1>4. r \in Grant => r.op \in {"grant", "renew"}
  BY DEF Grant
<1>5. r \in Rotation => r.op = "rotate"
  BY DEF Rotation
<1>6. r \in Reset => r.op \in {"remember", "send mail"}
  BY DEF Reset
<1>7. r \in Saving => r.op \in {"forget", "update"}
  BY DEF Saving
<1> QED
  BY <1>1, <1>2, <1>3, <1>4, <1>5, <1>6, <1>7

LEMMA KindsFact ==
  /\ Idle \in Request
  /\ Registration \subseteq Request /\ Grant \subseteq Request
  /\ Rotation \subseteq Request /\ Reset \subseteq Request /\ Saving \subseteq Request
  BY DEF Request, Idle, Registration, Grant, Rotation, Reset, Saving

LEMMA AtFact ==
  ASSUME TypeOK, NEW t \in Thread
  PROVE  /\ req[t].op \in {"find email", "insert"} =>
              /\ req[t] \in Registration
              /\ req[t].seen \in Nat /\ req[t].blind \in BOOLEAN
         /\ req[t].op \in {"grant", "renew"} => req[t] \in Grant /\ req[t].user \in Address
         /\ req[t].op = "rotate" => req[t] \in Rotation /\ req[t].session \in Session
         /\ req[t].op \in {"remember", "send mail"} =>
              /\ req[t] \in Reset
              /\ req[t].token \in Token /\ req[t].email \in Address
              /\ req[t].at \in 0..LastSecond
         /\ req[t].op \in {"forget", "update"} =>
              /\ req[t] \in Saving
              /\ req[t].token \in Token \union {NoToken} /\ req[t].email \in Address
<1>1. req[t] \in Request
  BY DEF TypeOK
<1>2. req[t] \in Registration => req[t].seen \in Nat /\ req[t].blind \in BOOLEAN
  BY DEF Registration
<1>3. req[t] \in Grant => req[t].user \in Address
  BY DEF Grant
<1>4. req[t] \in Rotation => req[t].session \in Session
  BY DEF Rotation
<1>5. req[t] \in Reset =>
        req[t].token \in Token /\ req[t].email \in Address /\ req[t].at \in 0..LastSecond
  BY DEF Reset
<1>6. req[t] \in Saving => req[t].token \in Token \union {NoToken} /\ req[t].email \in Address
  BY DEF Saving
<1> QED
  BY <1>1, <1>2, <1>3, <1>4, <1>5, <1>6, RequestFact

(* The steps of a handler after its first keep what the request holds.     *)
LEMMA ResetStep ==
  ASSUME NEW r \in Reset, NEW q, q = [r EXCEPT !.op = "send mail"]
  PROVE  /\ q.op = "send mail" /\ q.token = r.token /\ q.email = r.email /\ q.at = r.at
  BY DEF Reset

LEMMA SavingStep ==
  ASSUME NEW r \in Saving, NEW q, q = [r EXCEPT !.op = "update"]
  PROVE  q.op = "update" /\ q.token = r.token /\ q.email = r.email
  BY DEF Saving

LEMMA AppendFact ==
  ASSUME NEW S, NEW s \in Seq(S), NEW x \in S
  PROVE  /\ Append(s, x) \in Seq(S)
         /\ Len(Append(s, x)) = Len(s) + 1
         /\ Append(s, x)[Len(s) + 1] = x
         /\ \A i \in 1..Len(s) : Append(s, x)[i] = s[i]
  OBVIOUS

LEMMA SameLengthFact ==
  ASSUME NEW S, NEW s \in Seq(S), NEW f, DOMAIN f = DOMAIN s,
         \A i \in DOMAIN s : f[i] \in S, f = [i \in DOMAIN s |-> f[i]]
  PROVE  f \in Seq(S) /\ Len(f) = Len(s)
<1>1. DOMAIN s = 1..Len(s) /\ Len(s) \in Nat
  OBVIOUS
<1>2. f \in [1..Len(s) -> S]
  BY <1>1
<1> QED
  BY <1>1, <1>2

(* A thread begins a handler, or goes to the next access of its handler.   *)
LEMMA BeginFact ==
  ASSUME TypeOK, NEW t \in Thread, NEW r \in Request, Begin(t, r)
  PROVE  req' \in [Thread -> Request] /\ requests' \in 0..MaxRequests
<1>1. req \in [Thread -> Request] /\ requests \in 0..MaxRequests /\ MaxRequests \in Nat
  BY AccountServiceAssumption DEF TypeOK
<1> QED
  BY <1>1 DEF Begin

LEMMA BecomeFact ==
  ASSUME TypeOK, NEW t \in Thread, NEW r \in Request, Become(t, r)
  PROVE  req' \in [Thread -> Request] /\ requests' = requests
  BY DEF Become, TypeOK

-----------------------------------------------------------------------------
(* What is posted without a link leads to nobody's address.                *)
NobodysEntry == NoToken \in DOMAIN emails_for_reset => emails_for_reset[NoToken] = NoEmail

LEMMA TypeInit == Init => TypeOK /\ NobodysEntry
<1> SUFFICES ASSUME Init PROVE TypeOK /\ NobodysEntry
  OBVIOUS
<1>1. Idle \in Request
  BY KindsFact
<1> QED
  BY <1>1, AccountServiceAssumption DEF Init, TypeOK, NobodysEntry

LEMMA TypeNext ==
  ASSUME TypeOK, NobodysEntry, [Next]_vars
  PROVE  TypeOK'
<1>0. /\ \A t \in Thread : req[t] \in Request
      /\ Len(users) \in Nat
      /\ now \in 0..LastSecond /\ LastSecond \in Nat
      /\ active \subseteq Session /\ users \in Seq(Account)
      /\ logins \in [Address -> Nat] /\ doubles \in [Address -> Nat]
      /\ changes \in [Address -> Nat] /\ redeemed \in [Token -> Nat]
      /\ DOMAIN tokens \subseteq Token /\ \A k \in DOMAIN tokens : tokens[k] \in 0..now
      /\ DOMAIN emails_for_reset \subseteq Token \union {NoToken}
      /\ \A k \in DOMAIN emails_for_reset : emails_for_reset[k] \in Address
  BY AccountServiceAssumption DEF TypeOK
<1>1. ASSUME NEW t \in Thread, NEW name \in Name, NEW email \in Address, NEW password \in Password,
             RegisterFindsNoName(t, name, email, password)
      PROVE  TypeOK'
  <2>1. PICK fails \in BOOLEAN :
          Begin(t, [op |-> "find email", name |-> name, email |-> email,
                    password |-> password, seen |-> Len(users), blind |-> fails])
    BY <1>1 DEF RegisterFindsNoName
  <2>2. [op |-> "find email", name |-> name, email |-> email,
         password |-> password, seen |-> Len(users), blind |-> fails] \in Registration
    BY <1>0 DEF Registration
  <2>3. req' \in [Thread -> Request] /\ requests' \in 0..MaxRequests
    BY <2>1, <2>2, KindsFact, BeginFact
  <2> QED
    BY <1>0, <1>1, <2>3 DEF TypeOK, RegisterFindsNoName, stores, history
<1>2. ASSUME NEW t \in Thread, RegisterFindsEmail(t) PROVE TypeOK'
  <2>1. req[t] \in Registration
    BY <1>0, <1>2, RequestFact DEF RegisterFindsEmail, At
  <2>2. /\ [req[t] EXCEPT !.op = "insert"] \in Registration
        /\ [req[t] EXCEPT !.op = "insert", !.blind = TRUE] \in Registration
    BY <2>1 DEF Registration
  <2>3. req' \in [Thread -> Request] /\ requests' = requests
    BY <1>2, <2>2, KindsFact, BecomeFact DEF RegisterFindsEmail
  <2> QED
    BY <1>0, <1>2, <2>3 DEF TypeOK, RegisterFindsEmail, stores, history
<1>3. ASSUME NEW t \in Thread, RegisterInserts(t) PROVE TypeOK'
  <2>1. req[t] \in Registration
    BY <1>0, <1>3, RequestFact DEF RegisterInserts, At
  <2>2. [name |-> req[t].name, email |-> req[t].email, password |-> req[t].password,
         seen |-> req[t].seen, blind |-> req[t].blind] \in Account
    BY <2>1 DEF Registration, Account
  <2>3. req' \in [Thread -> Request] /\ requests' = requests
    BY <1>3, KindsFact, BecomeFact DEF RegisterInserts
  <2>4. PICK a \in Account : users' = Append(users, a) \/ users' = users
    BY <1>0, <1>3, <2>2 DEF RegisterInserts
  <2>5. Append(users, a) \in Seq(Account)
    BY <1>0, AppendFact
  <2>6. users' \in Seq(Account)
    BY <1>0, <2>4, <2>5
  <2> QED
    BY <1>0, <1>3, <2>3, <2>6 DEF TypeOK, RegisterInserts, stores, history
<1>4. ASSUME NEW t \in Thread, NEW email \in Address, NEW password \in Password,
             LoginFindsPassword(t, email, password)
      PROVE  TypeOK'
  <2>1. [op |-> "grant", user |-> email] \in Grant
    BY DEF Grant
  <2>2. req' \in [Thread -> Request] /\ requests' \in 0..MaxRequests
    BY <1>4, <2>1, KindsFact, BeginFact DEF LoginFindsPassword
  <2> QED
    BY <1>0, <1>4, <2>2 DEF TypeOK, LoginFindsPassword, stores, history
<1>5. ASSUME NEW t \in Thread, LoginGrants(t) PROVE TypeOK'
  <2>1. req[t] \in Grant
    BY <1>0, <1>5, RequestFact DEF LoginGrants, At
  <2>2. req[t].user \in Address
    BY <2>1 DEF Grant
  <2>3. req' \in [Thread -> Request] /\ requests' = requests
    BY <1>5, KindsFact, BecomeFact DEF LoginGrants
  <2>4. active' \subseteq Session
    BY <1>0, <1>5, <2>2 DEF LoginGrants, Session
  <2>5. logins' \in [Address -> Nat]
    BY <1>0, <1>5, <2>2 DEF LoginGrants
  <2> QED
    BY <1>0, <1>5, <2>3, <2>4, <2>5 DEF TypeOK, LoginGrants, stores, history
<1>6. ASSUME NEW t \in Thread, NEW session \in active, RefreshFinds(t, session)
      PROVE  TypeOK'
  <2>1. [op |-> "rotate", session |-> session] \in Rotation
    BY <1>0 DEF Rotation
  <2>2. req' \in [Thread -> Request] /\ requests' \in 0..MaxRequests
    BY <1>6, <2>1, KindsFact, BeginFact DEF RefreshFinds
  <2> QED
    BY <1>0, <1>6, <2>2 DEF TypeOK, RefreshFinds, stores, history
<1>7. ASSUME NEW t \in Thread, RefreshErases(t) PROVE TypeOK'
  <2>1. req[t] \in Rotation
    BY <1>0, <1>7, RequestFact DEF RefreshErases, At
  <2>2. req[t].session.user \in Address
    BY <2>1 DEF Rotation, Session
  <2>3. [op |-> "renew", user |-> req[t].session.user] \in Grant
    BY <2>2 DEF Grant
  <2>4. req' \in [Thread -> Request] /\ requests' = requests
    BY <1>7, <2>3, KindsFact, BecomeFact DEF RefreshErases
  <2>5. active' \subseteq Session /\ doubles' \in [Address -> Nat]
    BY <1>0, <1>7, <2>2 DEF RefreshErases, ErasedSession
  <2> QED
    BY <1>0, <1>7, <2>4, <2>5 DEF TypeOK, RefreshErases, stores, history
<1>8. ASSUME NEW t \in Thread, RefreshInserts(t) PROVE TypeOK'
  <2>1. req[t] \in Grant
    BY <1>0, <1>8, RequestFact DEF RefreshInserts, At
  <2>2. req[t].user \in Address
    BY <2>1 DEF Grant
  <2>3. req' \in [Thread -> Request] /\ requests' = requests
    BY <1>8, KindsFact, BecomeFact DEF RefreshInserts
  <2>4. active' \subseteq Session
    BY <1>0, <1>8, <2>2 DEF RefreshInserts, Session
  <2> QED
    BY <1>0, <1>8, <2>3, <2>4 DEF TypeOK, RefreshInserts, stores, history
<1>9. ASSUME NEW t \in Thread, NEW email \in Address, NEW k \in Token,
             ResetPassDraws(t, email, k)
      PROVE  TypeOK'
  <2>1. [op |-> "remember", token |-> k, email |-> email, at |-> now] \in Reset
    BY <1>0 DEF Reset
  <2>2. req' \in [Thread -> Request] /\ requests' \in 0..MaxRequests
    BY <1>9, <2>1, KindsFact, BeginFact DEF ResetPassDraws
  <2>3. tokens' = Put(tokens, k, now)
    BY <1>9 DEF ResetPassDraws, CreatedAt
  <2>4. /\ DOMAIN tokens' \subseteq Token
        /\ \A x \in DOMAIN tokens' : tokens'[x] \in 0..now
    BY <1>0, <2>3 DEF Put
  <2> QED
    BY <1>0, <1>9, <2>2, <2>4 DEF TypeOK, ResetPassDraws, stores, history
<1>10. ASSUME NEW t \in Thread, ResetPassRemembers(t) PROVE TypeOK'
  <2>1. req[t] \in Reset
    BY <1>0, <1>10, RequestFact DEF ResetPassRemembers, At
  <2>2. /\ req[t].token \in Token /\ req[t].email \in Address
        /\ [req[t] EXCEPT !.op = "send mail"] \in Reset
    BY <2>1 DEF Reset
  <2>3. req' \in [Thread -> Request] /\ requests' = requests
    BY <1>10, <2>2, KindsFact, BecomeFact DEF ResetPassRemembers
  <2>4. /\ DOMAIN emails_for_reset' \subseteq Token \union {NoToken}
        /\ \A x \in DOMAIN emails_for_reset' : emails_for_reset'[x] \in Address
    BY <1>0, <1>10, <2>2 DEF ResetPassRemembers, Put
  <2> QED
    BY <1>0, <1>10, <2>3, <2>4 DEF TypeOK, ResetPassRemembers, stores, history
<1>11. ASSUME NEW t \in Thread, ResetPassMails(t) PROVE TypeOK'
  <2>1. req[t] \in Reset
    BY <1>0, <1>11, RequestFact DEF ResetPassMails, At
  <2>2. req' \in [Thread -> Request] /\ requests' = requests
    BY <1>11, KindsFact, BecomeFact DEF ResetPassMails
  <2>3. req[t].token \in Token /\ req[t].email \in Address /\ req[t].at \in 0..LastSecond
    BY <2>1 DEF Reset
  <2>4. mail' \subseteq [to : Email, token : Token, at : 0..LastSecond]
    <3>1. req[t].email # NoEmail =>
            [to |-> req[t].email, token |-> req[t].token, at |-> req[t].at]
              \in [to : Email, token : Token, at : 0..LastSecond]
      BY <2>3 DEF Address
    <3> QED
      BY <1>11, <3>1 DEF ResetPassMails, TypeOK
  <2> QED
    BY <1>0, <1>11, <2>2, <2>4 DEF TypeOK, ResetPassMails, stores, history
<1>12. ASSUME NEW k \in Token, ResetPage(k) PROVE TypeOK'
  <2>1. tokens' = Drop(tokens, k)
    BY <1>12 DEF ResetPage
  <2>2. /\ DOMAIN tokens' \subseteq Token
        /\ \A x \in DOMAIN tokens' : tokens'[x] \in 0..now
    BY <1>0, <2>1 DEF Drop
  <2> QED
    BY <1>0, <1>12, <2>2 DEF TypeOK, ResetPage, stores, history
<1>13. ASSUME NEW t \in Thread, NEW k \in Token \union {NoToken}, NEW password \in Password,
              NEW confirmed \in BOOLEAN, SaveReads(t, k, password, confirmed)
       PROVE  TypeOK'
  <2> DEFINE found == IF k \in DOMAIN emails_for_reset THEN emails_for_reset[k] ELSE NoEmail
  <2>1. found \in Address
    BY <1>0 DEF Address
  <2>2. [op |-> "forget", token |-> k, password |-> password, confirmed |-> confirmed,
         email |-> found] \in Saving
    BY <2>1 DEF Saving
  <2>3. req' \in [Thread -> Request] /\ requests' \in 0..MaxRequests
    BY <1>13, <2>2, KindsFact, BeginFact DEF SaveReads
  <2>4. /\ DOMAIN emails_for_reset' \subseteq Token \union {NoToken}
        /\ \A x \in DOMAIN emails_for_reset' : emails_for_reset'[x] \in Address
    BY <1>0, <1>13 DEF SaveReads, Put, Address
  <2>5. k \in DOMAIN emails_for_reset /\ emails_for_reset[k] # NoEmail => k \in Token
    BY DEF NobodysEntry
  <2>6. redeemed' \in [Token -> Nat] /\ raced' \subseteq Token
    <3>1. CASE k \in DOMAIN emails_for_reset /\ emails_for_reset[k] # NoEmail
      <4>1. k \in Token /\ redeemed' = [redeemed EXCEPT ![k] = @ + 1]
        BY <1>13, <2>5, <3>1 DEF SaveReads
      <4>2. raced' \in {raced, raced \union {k}}
        BY <1>13, <3>1 DEF SaveReads
      <4> QED
        BY <1>0, <4>1, <4>2 DEF TypeOK
    <3>2. CASE ~ (k \in DOMAIN emails_for_reset /\ emails_for_reset[k] # NoEmail)
      BY <1>0, <1>13, <3>2 DEF SaveReads, TypeOK
    <3> QED
      BY <3>1, <3>2
  <2> QED
    BY <1>0, <1>13, <2>3, <2>4, <2>6 DEF TypeOK, SaveReads, stores, history
<1>14. ASSUME NEW t \in Thread, SaveForgets(t) PROVE TypeOK'
  <2>1. req[t] \in Saving
    BY <1>0, <1>14, RequestFact DEF SaveForgets, At
  <2>2. [req[t] EXCEPT !.op = "update"] \in Saving
    BY <2>1 DEF Saving
  <2>3. req' \in [Thread -> Request] /\ requests' = requests
    BY <1>14, <2>2, KindsFact, BecomeFact DEF SaveForgets
  <2>4. /\ DOMAIN emails_for_reset' \subseteq Token \union {NoToken}
        /\ \A x \in DOMAIN emails_for_reset' : emails_for_reset'[x] \in Address
    BY <1>0, <1>14 DEF SaveForgets, EmailsAfter, Drop
  <2> QED
    BY <1>0, <1>14, <2>3, <2>4 DEF TypeOK, SaveForgets, stores, history
<1>15. ASSUME NEW t \in Thread, SaveUpdates(t) PROVE TypeOK'
  <2>1. req[t] \in Saving
    BY <1>0, <1>15, RequestFact DEF SaveUpdates, At
  <2>2. req[t].email \in Address /\ req[t].password \in Password
    BY <2>1 DEF Saving
  <2>3. req' \in [Thread -> Request] /\ requests' = requests
    BY <1>15, KindsFact, BecomeFact DEF SaveUpdates
  <2>4. users' \in Seq(Account)
    <3>1. ASSUME NEW i \in DOMAIN users
          PROVE  [users[i] EXCEPT !.password = req[t].password] \in Account
      <4>1. users[i] \in Account
        BY <1>0
      <4> QED
        BY <2>2, <4>1 DEF Account
    <3> DEFINE updated == [i \in DOMAIN users |->
                             IF users[i].email = req[t].email
                               THEN [users[i] EXCEPT !.password = req[t].password]
                               ELSE users[i]]
    <3>2. DOMAIN updated = DOMAIN users /\ \A i \in DOMAIN users : updated[i] \in Account
      BY <1>0, <3>1
    <3>3. updated = [i \in DOMAIN users |-> updated[i]]
      OBVIOUS
    <3>4. users' = updated \/ users' = users
      BY <1>15 DEF SaveUpdates
    <3> HIDE DEF updated
    <3>5. updated \in Seq(Account)
      BY <1>0, <3>2, <3>3, SameLengthFact
    <3> QED
      BY <1>0, <3>4, <3>5
  <2>5. \/ changes' = [changes EXCEPT ![req[t].email] = @ + 1]
        \/ changes' = changes
    BY <1>15, Zenon DEF SaveUpdates
  <2>6. changes' \in [Address -> Nat]
    BY <1>0, <2>2, <2>5
  <2> QED
    BY <1>0, <1>15, <2>3, <2>4, <2>6 DEF TypeOK, SaveUpdates, stores, history
<1>16. ASSUME Tick PROVE TypeOK'
  BY <1>0, <1>16 DEF Tick, TypeOK, stores, history
<1>17. ASSUME UNCHANGED vars PROVE TypeOK'
  BY <1>17 DEF vars, TypeOK, stores, history
<1> QED
  BY <1>1, <1>2, <1>3, <1>4, <1>5, <1>6, <1>7, <1>8, <1>9, <1>10, <1>11, <1>12, <1>13,
     <1>14, <1>15, <1>16, <1>17 DEF Next

LEMMA NobodysEntryNext ==
  ASSUME TypeOK, NobodysEntry, [Next]_vars
  PROVE  NobodysEntry'
<1>1. ASSUME emails_for_reset' = emails_for_reset PROVE NobodysEntry'
  BY <1>1 DEF NobodysEntry
<1>2. ASSUME NEW t \in Thread, ResetPassRemembers(t) PROVE NobodysEntry'
  <2>1. req[t].token \in Token
    BY <1>2, AtFact DEF ResetPassRemembers, At
  <2> QED
    BY <1>2, <2>1, AccountServiceAssumption DEF ResetPassRemembers, Put, NobodysEntry
<1>3. ASSUME NEW t \in Thread, NEW k \in Token \union {NoToken}, NEW password \in Password,
             NEW confirmed \in BOOLEAN, SaveReads(t, k, password, confirmed)
      PROVE  NobodysEntry'
  BY <1>3 DEF SaveReads, Put, NobodysEntry
<1>4. ASSUME NEW t \in Thread, SaveForgets(t) PROVE NobodysEntry'
  BY <1>4 DEF SaveForgets, EmailsAfter, Drop, NobodysEntry
<1> QED
  BY <1>1, <1>2, <1>3, <1>4
     DEF Next, vars, stores, history, RegisterFindsNoName, RegisterFindsEmail, RegisterInserts,
         LoginFindsPassword, LoginGrants, RefreshFinds, RefreshErases, RefreshInserts,
         ResetPassDraws, ResetPassMails, ResetPage, SaveUpdates, Tick

-----------------------------------------------------------------------------
(* A registration at work has not missed an account that was there when it *)
(* was asked for, unless a lookup failed.                                  *)
LookupHolds(t) ==
  req[t].op \in {"find email", "insert"} =>
    /\ req[t].seen <= Len(users)
    /\ \/ req[t].blind
       \/ \A i \in DOMAIN users : i <= req[t].seen =>
            /\ users[i].name # req[t].name
            /\ req[t].op = "insert" => users[i].email # req[t].email

LookupsHold == \A t \in Thread : LookupHolds(t)

SameAccounts ==
  /\ DOMAIN users' = DOMAIN users /\ Len(users') = Len(users)
  /\ \A i \in DOMAIN users :
       /\ users'[i].name = users[i].name /\ users'[i].email = users[i].email
       /\ users'[i].seen = users[i].seen /\ users'[i].blind = users[i].blind

LEMMA QuietLookups ==
  ASSUME LookupsHold, DuplicatesOverlap, SameAccounts,
         \A t \in Thread : req'[t].op \in {"find email", "insert"} => req'[t] = req[t]
  PROVE  LookupsHold' /\ DuplicatesOverlap'
<1>1. ASSUME NEW t \in Thread PROVE LookupHolds(t)'
  <2>1. LookupHolds(t)
    BY DEF LookupsHold
  <2>2. CASE req'[t].op \notin {"find email", "insert"}
    BY <2>2 DEF LookupHolds
  <2>3. CASE req'[t] = req[t]
    BY <2>1, <2>3 DEF LookupHolds, SameAccounts
  <2> QED
    BY <2>2, <2>3
<1>2. DuplicatesOverlap'
  <2> SUFFICES ASSUME NEW i \in DOMAIN users', NEW j \in DOMAIN users', i < j,
                      users'[i].name = users'[j].name \/ users'[i].email = users'[j].email
               PROVE  users'[j].seen < i \/ users'[j].blind
    BY DEF DuplicatesOverlap
  <2>1. i \in DOMAIN users /\ j \in DOMAIN users
    BY DEF SameAccounts
  <2>2. users[i].name = users[j].name \/ users[i].email = users[j].email
    BY <2>1 DEF SameAccounts
  <2>3. users[j].seen < i \/ users[j].blind
    BY <2>1, <2>2 DEF DuplicatesOverlap
  <2> QED
    BY <2>1, <2>3 DEF SameAccounts
<1> QED
  BY <1>1, <1>2 DEF LookupsHold

LEMMA LookupsNext ==
  ASSUME TypeOK, NobodysEntry, LookupsHold, DuplicatesOverlap, [Next]_vars
  PROVE  LookupsHold' /\ DuplicatesOverlap'
<1>0. /\ req \in [Thread -> Request] /\ users \in Seq(Account)
      /\ DOMAIN users = 1..Len(users) /\ Len(users) \in Nat
  BY DEF TypeOK
<1>1. ASSUME users' = users PROVE SameAccounts
  BY <1>1 DEF SameAccounts
<1>2. ASSUME NEW t \in Thread, NEW r, Begin(t, r), r.op \notin {"find email", "insert"}
      PROVE  \A u \in Thread : req'[u].op \in {"find email", "insert"} => req'[u] = req[u]
  BY <1>0, <1>2 DEF Begin
<1>3. ASSUME NEW t \in Thread, NEW r, Become(t, r), r.op \notin {"find email", "insert"}
      PROVE  \A u \in Thread : req'[u].op \in {"find email", "insert"} => req'[u] = req[u]
  BY <1>0, <1>3 DEF Become
<1>4. ASSUME NEW t \in Thread, NEW name \in Name, NEW email \in Address,
             NEW password \in Password, RegisterFindsNoName(t, name, email, password)
      PROVE  LookupsHold' /\ DuplicatesOverlap'
  <2>1. PICK fails \in BOOLEAN :
          /\ NameTaken(name) => fails
          /\ req' = [req EXCEPT ![t] = [op |-> "find email", name |-> name, email |-> email,
                 password |-> password, seen |-> Len(users), blind |-> fails]]
    BY <1>4 DEF RegisterFindsNoName, Begin
  <2>2. users' = users
    BY <1>4 DEF RegisterFindsNoName, stores
  <2>3. LookupHolds(t)'
    <3>1. /\ req'[t].op = "find email" /\ req'[t].name = name
          /\ req'[t].seen = Len(users) /\ req'[t].blind = fails
      BY <1>0, <2>1
    <3>2. fails \/ \A i \in DOMAIN users : users[i].name # name
      BY <2>1 DEF NameTaken
    <3>3. req'[t].seen <= Len(users')
      <4>1. Len(users) <= Len(users)
        BY <1>0
      <4>2. Len(users') = Len(users)
        BY <2>2
      <4> QED
        BY <3>1, <4>1, <4>2, Zenon
    <3>4. req'[t].blind \/ \A i \in DOMAIN users' : users'[i].name # req'[t].name
      BY <2>2, <3>1, <3>2
    <3>5. req'[t].op # "insert"
      BY <3>1
    <3> QED
      BY <3>3, <3>4, <3>5 DEF LookupHolds
  <2>4. ASSUME NEW u \in Thread \ {t} PROVE LookupHolds(u)'
    BY <1>0, <2>1, <2>2 DEF LookupHolds, LookupsHold
  <2> QED
    BY <2>2, <2>3, <2>4 DEF LookupsHold, DuplicatesOverlap
<1>5. ASSUME NEW t \in Thread, RegisterFindsEmail(t)
      PROVE  LookupsHold' /\ DuplicatesOverlap'
  <2>1. users' = users /\ req[t].op = "find email"
    BY <1>5 DEF RegisterFindsEmail, stores, At
  <2>2. req[t] \in Registration
    BY <2>1, AtFact
  <2>3. CASE Become(t, Idle)
    BY <1>1, <1>3, <2>1, <2>3, QuietLookups DEF Idle
  <2>4. CASE Become(t, [req[t] EXCEPT !.op = "insert"]) /\ ~ EmailTaken(req[t].email)
    <3> DEFINE q == [req[t] EXCEPT !.op = "insert"]
    <3>1. /\ q.op = "insert" /\ q.name = req[t].name /\ q.email = req[t].email
          /\ q.seen = req[t].seen /\ q.blind = req[t].blind
      BY <2>2 DEF Registration
    <3>2. req' = [req EXCEPT ![t] = q]
      BY <2>4 DEF Become
    <3> HIDE DEF q
    <3>3. LookupHolds(t)'
      BY <1>0, <2>1, <2>4, <3>1, <3>2 DEF LookupHolds, LookupsHold, EmailTaken
    <3>4. ASSUME NEW u \in Thread \ {t} PROVE LookupHolds(u)'
      BY <1>0, <2>1, <3>2 DEF LookupHolds, LookupsHold
    <3> QED
      BY <2>1, <3>3, <3>4 DEF LookupsHold, DuplicatesOverlap
  <2>5. CASE Become(t, [req[t] EXCEPT !.op = "insert", !.blind = TRUE])
    <3> DEFINE q == [req[t] EXCEPT !.op = "insert", !.blind = TRUE]
    <3>1. /\ q.op = "insert" /\ q.name = req[t].name /\ q.email = req[t].email
          /\ q.seen = req[t].seen /\ q.blind = TRUE
      BY <2>2 DEF Registration
    <3>2. req' = [req EXCEPT ![t] = q]
      BY <2>5 DEF Become
    <3> HIDE DEF q
    <3>3. LookupHolds(t)'
      BY <1>0, <2>1, <3>1, <3>2 DEF LookupHolds, LookupsHold
    <3>4. ASSUME NEW u \in Thread \ {t} PROVE LookupHolds(u)'
      BY <1>0, <2>1, <3>2 DEF LookupHolds, LookupsHold
    <3> QED
      BY <2>1, <3>3, <3>4 DEF LookupsHold, DuplicatesOverlap
  <2> QED
    BY <1>5, <2>3, <2>4, <2>5, Zenon DEF RegisterFindsEmail
<1>6. ASSUME NEW t \in Thread, RegisterInserts(t)
      PROVE  LookupsHold' /\ DuplicatesOverlap'
  <2>1. req[t].op = "insert" /\ req' = [req EXCEPT ![t] = Idle]
    BY <1>6 DEF RegisterInserts, At, Become
  <2>2. CASE users' = users
    BY <1>1, <1>3, <1>6, <2>2, QuietLookups DEF Idle, RegisterInserts
  <2>3. CASE users' # users
    <3> DEFINE a == [name |-> req[t].name, email |-> req[t].email, password |-> req[t].password,
                     seen |-> req[t].seen, blind |-> req[t].blind]
    <3>1. users' = Append(users, a)
      BY <1>6, <2>3 DEF RegisterInserts
    <3>2. /\ a.name = req[t].name /\ a.email = req[t].email
          /\ a.seen = req[t].seen /\ a.blind = req[t].blind
      OBVIOUS
    <3>3. req[t].seen \in Nat
      BY <2>1, AtFact
    <3> HIDE DEF a
    <3>4. /\ Len(users') = Len(users) + 1 /\ DOMAIN users' = 1..(Len(users) + 1)
          /\ users'[Len(users) + 1] = a
          /\ \A i \in 1..Len(users) : users'[i] = users[i]
      BY <1>0, <3>1
    <3>5. LookupsHold'
      <4> SUFFICES ASSUME NEW u \in Thread PROVE LookupHolds(u)'
        BY DEF LookupsHold
      <4>1. LookupHolds(u)
        BY DEF LookupsHold
      <4>2. CASE u = t
        BY <1>0, <2>1, <4>2 DEF Idle, LookupHolds
      <4>3. CASE u # t /\ req[u].op \in {"find email", "insert"}
        <5>1. req'[u] = req[u] /\ req[u].seen \in Nat /\ req[u].seen <= Len(users)
          BY <1>0, <2>1, <4>1, <4>3, AtFact DEF LookupHolds
        <5>2. \A i \in DOMAIN users' : i <= req[u].seen =>
                i \in DOMAIN users /\ users'[i] = users[i]
          BY <1>0, <3>4, <5>1
        <5>3. \/ req[u].blind
              \/ \A i \in DOMAIN users' : i <= req[u].seen =>
                   /\ users'[i].name # req[u].name
                   /\ req[u].op = "insert" => users'[i].email # req[u].email
          BY <4>1, <4>3, <5>2 DEF LookupHolds
        <5>4. req[u].seen <= Len(users')
          BY <1>0, <3>4, <5>1
        <5> QED
          BY <5>1, <5>3, <5>4 DEF LookupHolds
      <4>4. CASE u # t /\ req[u].op \notin {"find email", "insert"}
        BY <1>0, <2>1, <4>4 DEF LookupHolds
      <4> QED
        BY <4>2, <4>3, <4>4
    <3>6. DuplicatesOverlap'
      <4> SUFFICES ASSUME NEW i \in DOMAIN users', NEW j \in DOMAIN users', i < j,
                          users'[i].name = users'[j].name \/ users'[i].email = users'[j].email
                   PROVE  users'[j].seen < i \/ users'[j].blind
        BY DEF DuplicatesOverlap
      <4>1. i \in DOMAIN users /\ users'[i] = users[i] /\ i \in Nat /\ j \in Nat
        BY <1>0, <3>4
      <4>2. CASE j \in DOMAIN users
        BY <1>0, <3>4, <4>1, <4>2 DEF DuplicatesOverlap
      <4>3. CASE j = Len(users) + 1
        <5>1. LookupHolds(t)
          BY DEF LookupsHold
        <5>2. \/ req[t].blind
              \/ i <= req[t].seen => /\ users[i].name # req[t].name
                                     /\ users[i].email # req[t].email
          BY <2>1, <4>1, <5>1 DEF LookupHolds
        <5> QED
          BY <3>2, <3>3, <3>4, <4>1, <4>3, <5>2
      <4> QED
        BY <1>0, <3>4, <4>2, <4>3
    <3> QED
      BY <3>5, <3>6
  <2> QED
    BY <2>2, <2>3
<1>7. ASSUME NEW t \in Thread, SaveUpdates(t)
      PROVE  LookupsHold' /\ DuplicatesOverlap'
  <2>1. SameAccounts
    <3> DEFINE updated == [i \in DOMAIN users |->
                             IF users[i].email = req[t].email
                               THEN [users[i] EXCEPT !.password = req[t].password]
                               ELSE users[i]]
    <3>1. users' = updated \/ users' = users
      BY <1>7 DEF SaveUpdates
    <3>2. ASSUME NEW i \in DOMAIN users
          PROVE  /\ updated[i].name = users[i].name /\ updated[i].email = users[i].email
                 /\ updated[i].seen = users[i].seen /\ updated[i].blind = users[i].blind
      <4>1. users[i] \in Account
        BY <1>0
      <4> QED
        BY <4>1 DEF Account
    <3>3. DOMAIN updated = DOMAIN users
      OBVIOUS
    <3> HIDE DEF updated
    <3>4. DOMAIN users' = DOMAIN users /\ Len(users') = Len(users)
      <4>1. users' \in Seq(Account)
        BY TypeNext DEF TypeOK
      <4> QED
        BY <1>0, <3>1, <3>3, <4>1
    <3> QED
      BY <1>0, <3>1, <3>2, <3>4 DEF SameAccounts
  <2> QED
    BY <1>3, <1>7, <2>1, QuietLookups DEF SaveUpdates, Idle
<1>8. CASE UNCHANGED <<users, req>>
  BY <1>8, <1>1, QuietLookups
<1>9. ASSUME NEW t \in Thread, RefreshErases(t)
      PROVE  LookupsHold' /\ DuplicatesOverlap'
  BY <1>1, <1>3, <1>9, QuietLookups DEF RefreshErases, stores, Idle
<1>10. ASSUME NEW t \in Thread, ResetPassRemembers(t)
       PROVE  LookupsHold' /\ DuplicatesOverlap'
  <2>1. [req[t] EXCEPT !.op = "send mail"].op = "send mail"
    BY <1>10, AtFact, ResetStep DEF ResetPassRemembers, At
  <2> QED
    BY <1>1, <1>3, <1>10, <2>1, QuietLookups DEF ResetPassRemembers
<1>11. ASSUME NEW t \in Thread, SaveForgets(t)
       PROVE  LookupsHold' /\ DuplicatesOverlap'
  <2>1. [req[t] EXCEPT !.op = "update"].op = "update"
    BY <1>11, AtFact, SavingStep DEF SaveForgets, At
  <2> QED
    BY <1>1, <1>3, <1>11, <2>1, QuietLookups DEF SaveForgets, Idle
<1>12. ASSUME NEW t \in Thread, NEW r, Begin(t, r), users' = users,
              r.op \notin {"find email", "insert"}
       PROVE  LookupsHold' /\ DuplicatesOverlap'
  BY <1>1, <1>2, <1>12, QuietLookups
<1>13. ASSUME NEW t \in Thread, NEW r, Become(t, r), users' = users,
              r.op \notin {"find email", "insert"}
       PROVE  LookupsHold' /\ DuplicatesOverlap'
  BY <1>1, <1>3, <1>13, QuietLookups
<1>14. ASSUME NEW t \in Thread, NEW email \in Address, NEW k \in Token,
              ResetPassDraws(t, email, k)
       PROVE  LookupsHold' /\ DuplicatesOverlap'
  BY <1>12, <1>14 DEF ResetPassDraws
<1>15. ASSUME NEW t \in Thread, NEW k \in Token \union {NoToken}, NEW password \in Password,
              NEW confirmed \in BOOLEAN, SaveReads(t, k, password, confirmed)
       PROVE  LookupsHold' /\ DuplicatesOverlap'
  BY <1>12, <1>15 DEF SaveReads
<1>16. ASSUME NEW t \in Thread, NEW email \in Address, NEW password \in Password,
              LoginFindsPassword(t, email, password)
       PROVE  LookupsHold' /\ DuplicatesOverlap'
  BY <1>12, <1>16 DEF LoginFindsPassword, stores
<1>17. ASSUME NEW t \in Thread, NEW session \in active, RefreshFinds(t, session)
       PROVE  LookupsHold' /\ DuplicatesOverlap'
  BY <1>12, <1>17 DEF RefreshFinds, stores
<1>18. ASSUME NEW t \in Thread, LoginGrants(t) \/ RefreshInserts(t) \/ ResetPassMails(t)
       PROVE  LookupsHold' /\ DuplicatesOverlap'
  BY <1>13, <1>18 DEF LoginGrants, RefreshInserts, ResetPassMails, Idle
<1>19. ASSUME Tick \/ (\E k \in Token : ResetPage(k)) \/ UNCHANGED vars
       PROVE  UNCHANGED <<users, req>>
  BY <1>19 DEF Tick, ResetPage, vars, stores
<1> QED
  BY <1>4, <1>5, <1>6, <1>7, <1>8, <1>9, <1>10, <1>11, <1>14, <1>15, <1>16, <1>17, <1>18,
     <1>19 DEF Next

-----------------------------------------------------------------------------
(* A token nobody was told of, and the second that is known of a token as  *)
(* long as its page would accept it.                                       *)
Fresh(k) == redeemed[k] = 0 /\ \A m \in mail : m.token # k
Dated(k, at) == /\ k \in DOMAIN tokens => tokens[k] = at
                /\ k \notin DOMAIN tokens => now - at > Ttl
Making(t) == req[t].op \in {"remember", "send mail"}

(* A link that is being made has a token of its own.                       *)
LinkMade(t) ==
  Making(t) =>
    /\ Fresh(req[t].token)
    /\ Dated(req[t].token, req[t].at)
    /\ \A u \in Thread \ {t} : Making(u) => req[u].token # req[t].token
    /\ req[t].op = "send mail" => /\ req[t].token \in DOMAIN emails_for_reset
                                  /\ emails_for_reset[req[t].token] = req[t].email

(* A link that was mailed leads to its address until it gave it away.      *)
LinkMailed(m) ==
  /\ Dated(m.token, m.at)
  /\ redeemed[m.token] = 0 => /\ m.token \in DOMAIN emails_for_reset
                              /\ emails_for_reset[m.token] # NoEmail
  /\ m.token \in DOMAIN emails_for_reset => emails_for_reset[m.token] \in {m.to, NoEmail}

(* A thread that is about to erase an entry has read a link.               *)
LinkUsed(t) ==
  req[t].op = "forget" /\ req[t].token # NoToken =>
    /\ redeemed[req[t].token] > 0
    /\ \E m \in mail : m.token = req[t].token

LinksHold == /\ \A t \in Thread : LinkMade(t) /\ LinkUsed(t)
             /\ \A m \in mail : LinkMailed(m)

LEMMA LinksImplyLinksWork == LinksHold => LinksWork
  BY DEF LinksHold, LinkMailed, Dated, LinksWork

LEMMA QuietLinks ==
  ASSUME LinksHold, UNCHANGED <<tokens, emails_for_reset, mail, now, redeemed>>,
         \A t \in Thread : req'[t].op \in {"remember", "send mail", "forget"} => req'[t] = req[t]
  PROVE  LinksHold'
<1>1. ASSUME NEW t \in Thread PROVE (LinkMade(t) /\ LinkUsed(t))'
  <2>1. CASE req'[t].op \notin {"remember", "send mail", "forget"}
    BY <2>1 DEF LinkMade, LinkUsed, Making
  <2>2. CASE req'[t] = req[t]
    <3>1. LinkMade(t) /\ LinkUsed(t)
      BY DEF LinksHold
    <3>2. \A u \in Thread : Making(u)' => Making(u) /\ req'[u] = req[u]
      BY DEF Making
    <3>3. LinkMade(t)'
      BY <2>2, <3>1, <3>2 DEF LinkMade, Fresh, Dated
    <3> QED
      BY <2>2, <3>1, <3>3 DEF LinkUsed
  <2> QED
    BY <2>1, <2>2
<1>2. ASSUME NEW m \in mail PROVE LinkMailed(m)'
  BY DEF LinksHold, LinkMailed, Dated
<1> QED
  BY <1>1, <1>2 DEF LinksHold

LEMMA LinksNext ==
  ASSUME TypeOK, NobodysEntry, LinksHold, [Next]_vars
  PROVE  LinksHold'
<1>0. /\ req \in [Thread -> Request]
      /\ now \in Int /\ Ttl \in Int /\ NoToken \notin Token
      /\ \A m \in mail : m.token \in Token /\ m.at \in Int /\ m.to \in Email
      /\ redeemed \in [Token -> Nat]
  BY AccountServiceAssumption DEF TypeOK
<1>1. ASSUME NEW t \in Thread, NEW r, Begin(t, r) \/ Become(t, r),
             r.op \notin {"remember", "send mail", "forget"},
             UNCHANGED <<tokens, emails_for_reset, mail, now, redeemed>>
      PROVE  LinksHold'
  BY <1>0, <1>1, QuietLinks DEF Begin, Become
<1>2. ASSUME NEW t \in Thread, NEW email \in Address, NEW k \in Token,
             ResetPassDraws(t, email, k)
      PROVE  LinksHold'
  <2> DEFINE r == [op |-> "remember", token |-> k, email |-> email, at |-> now]
  <2>1. /\ req'[t] = r /\ \A u \in Thread \ {t} : req'[u] = req[u]
        /\ r.op = "remember" /\ r.token = k /\ r.at = now
    BY <1>0, <1>2 DEF ResetPassDraws, Begin
  <2> HIDE DEF r
  <2>2. /\ \A m \in mail : m.token # k
        /\ redeemed[k] = 0
        /\ \A u \in Thread : req[u].op \in {"remember", "send mail", "forget"} => req[u].token # k
        /\ UNCHANGED <<emails_for_reset, mail, now, redeemed>>
        /\ tokens' = Put(tokens, k, now)
    BY <1>2 DEF ResetPassDraws, history, CreatedAt
  <2>3. /\ DOMAIN tokens' = DOMAIN tokens \union {k} /\ tokens'[k] = now
        /\ \A x \in DOMAIN tokens \ {k} : tokens'[x] = tokens[x]
    BY <2>2 DEF Put
  <2>4. ASSUME NEW x, NEW at, x # k, Dated(x, at) PROVE Dated(x, at)'
    BY <2>2, <2>3, <2>4 DEF Dated
  <2>5. LinkMade(t)'
    BY <2>1, <2>2, <2>3 DEF LinkMade, Making, Fresh, Dated
  <2>6. LinkUsed(t)'
    BY <2>1 DEF LinkUsed
  <2>7. ASSUME NEW u \in Thread \ {t} PROVE LinkMade(u)'
    <3>1. LinkMade(u) /\ (Making(u) => req[u].token # k)
      BY <2>2 DEF LinksHold, Making
    <3>2. ASSUME NEW v \in Thread \ {u}, Making(v)', Making(u)
          PROVE  req'[v].token # req[u].token
      <4>1. CASE v = t
        BY <2>1, <3>1, <3>2, <4>1
      <4>2. CASE v # t
        BY <2>1, <3>1, <3>2, <4>2 DEF LinkMade, Making
      <4> QED
        BY <4>1, <4>2
    <3> QED
      BY <2>1, <2>2, <2>4, <3>1, <3>2 DEF LinkMade, Making, Fresh
  <2>8. ASSUME NEW u \in Thread \ {t} PROVE LinkUsed(u)'
    BY <2>1, <2>2 DEF LinksHold, LinkUsed
  <2>9. ASSUME NEW m \in mail PROVE LinkMailed(m)'
    BY <2>2, <2>4 DEF LinksHold, LinkMailed
  <2> QED
    BY <2>2, <2>5, <2>6, <2>7, <2>8, <2>9 DEF LinksHold
<1>3. ASSUME NEW t \in Thread, ResetPassRemembers(t) PROVE LinksHold'
  <2> DEFINE r == [req[t] EXCEPT !.op = "send mail"]
             k == req[t].token
  <2>1. req[t].op = "remember" /\ req[t] \in Reset /\ k \in Token
    BY <1>3, AtFact DEF ResetPassRemembers, At
  <2>2. r.op = "send mail" /\ r.token = k /\ r.email = req[t].email /\ r.at = req[t].at
    BY <2>1, ResetStep
  <2>3. req'[t] = r /\ \A u \in Thread \ {t} : req'[u] = req[u]
    BY <1>0, <1>3 DEF ResetPassRemembers, Become
  <2>4. /\ UNCHANGED <<tokens, mail, now, redeemed>>
        /\ emails_for_reset' = Put(emails_for_reset, k, req[t].email)
    BY <1>3 DEF ResetPassRemembers, history
  <2>5. LinkMade(t) /\ Making(t)
    BY <2>1 DEF LinksHold, Making
  <2> HIDE DEF r, k
  <2>6. /\ DOMAIN emails_for_reset' = DOMAIN emails_for_reset \union {k}
        /\ emails_for_reset'[k] = req[t].email
        /\ \A x \in DOMAIN emails_for_reset \ {k} : emails_for_reset'[x] = emails_for_reset[x]
    BY <2>4 DEF Put
  <2>7. /\ Fresh(k) /\ Dated(k, req[t].at)
        /\ \A u \in Thread \ {t} : Making(u) => req[u].token # k
    BY <2>5 DEF LinkMade, k
  <2>8. LinkMade(t)'
    BY <2>2, <2>3, <2>4, <2>6, <2>7 DEF LinkMade, Making, Fresh, Dated
  <2>9. LinkUsed(t)'
    BY <2>2, <2>3 DEF LinkUsed
  <2>10. ASSUME NEW u \in Thread \ {t} PROVE LinkMade(u)'
    <3>1. LinkMade(u) /\ (Making(u) => req[u].token # k)
      BY <2>7 DEF LinksHold
    <3>2. \A v \in Thread \ {u} : Making(v)' /\ Making(u) => req'[v].token # req[u].token
      <4> SUFFICES ASSUME NEW v \in Thread \ {u}, Making(v)', Making(u)
                   PROVE  req'[v].token # req[u].token
        OBVIOUS
      <4>1. CASE v = t
        BY <2>2, <2>3, <3>1, <4>1
      <4>2. CASE v # t
        BY <2>3, <3>1, <4>2 DEF LinkMade, Making
      <4> QED
        BY <4>1, <4>2
    <3> QED
      BY <2>3, <2>4, <2>6, <3>1, <3>2 DEF LinkMade, Making, Fresh, Dated
  <2>11. ASSUME NEW u \in Thread \ {t} PROVE LinkUsed(u)'
    BY <2>3, <2>4 DEF LinksHold, LinkUsed
  <2>12. ASSUME NEW m \in mail PROVE LinkMailed(m)'
    <3>1. m.token # k /\ LinkMailed(m)
      BY <2>7 DEF LinksHold, Fresh
    <3> QED
      BY <2>4, <2>6, <3>1 DEF LinkMailed, Dated
  <2> QED
    BY <2>4, <2>8, <2>9, <2>10, <2>11, <2>12 DEF LinksHold
<1>4. ASSUME NEW t \in Thread, ResetPassMails(t) PROVE LinksHold'
  <2>1. /\ req[t].op = "send mail" /\ req' = [req EXCEPT ![t] = Idle]
        /\ UNCHANGED <<tokens, emails_for_reset, now, redeemed>>
    BY <1>4 DEF ResetPassMails, At, Become, history
  <2>2. req'[t] = Idle /\ \A u \in Thread \ {t} : req'[u] = req[u]
    BY <1>0, <2>1
  <2>3. CASE mail' = mail
    <3>1. \A u \in Thread : req'[u].op \in {"remember", "send mail", "forget"}
                             => req'[u] = req[u]
      <4>1. Idle.op = "idle"
        BY DEF Idle
      <4> QED
        BY <2>2, <4>1
    <3> QED
      BY <2>1, <2>3, <3>1, QuietLinks
  <2>4. CASE mail' # mail
    <3>1. PICK l : /\ l = [to |-> req[t].email, token |-> req[t].token, at |-> req[t].at]
                   /\ req[t].email # NoEmail /\ mail' = mail \union {l}
      BY <1>4, <2>4 DEF ResetPassMails
    <3>2. l.to = req[t].email /\ l.token = req[t].token /\ l.at = req[t].at
      BY <3>1
    <3>3. /\ Fresh(req[t].token) /\ Dated(req[t].token, req[t].at)
          /\ \A u \in Thread \ {t} : Making(u) => req[u].token # req[t].token
          /\ req[t].token \in DOMAIN emails_for_reset
          /\ emails_for_reset[req[t].token] = req[t].email
      BY <2>1 DEF LinksHold, LinkMade, Making
    <3>4. LinkMailed(l)'
      BY <2>1, <3>1, <3>2, <3>3 DEF LinkMailed, Dated
    <3>5. ASSUME NEW m \in mail PROVE LinkMailed(m)'
      BY <2>1 DEF LinksHold, LinkMailed, Dated
    <3>6. LinkMade(t)' /\ LinkUsed(t)'
      BY <2>2 DEF LinkMade, LinkUsed, Making, Idle
    <3>7. ASSUME NEW u \in Thread \ {t} PROVE LinkMade(u)'
      <4>1. LinkMade(u) /\ (Making(u) => req[u].token # req[t].token)
        BY <3>3 DEF LinksHold
      <4>2. ASSUME NEW v \in Thread, Making(v)' PROVE Making(v) /\ req'[v] = req[v]
        <5>1. Idle.op = "idle"
          BY DEF Idle
        <5>2. v # t
          BY <2>2, <4>2, <5>1 DEF Making
        <5> QED
          BY <2>2, <4>2, <5>2 DEF Making
      <4> QED
        BY <2>1, <2>2, <3>1, <3>2, <4>1, <4>2 DEF LinkMade, Making, Fresh, Dated
    <3>8. ASSUME NEW u \in Thread \ {t} PROVE LinkUsed(u)'
      BY <2>1, <2>2, <3>1 DEF LinksHold, LinkUsed
    <3> QED
      BY <3>1, <3>4, <3>5, <3>6, <3>7, <3>8 DEF LinksHold
  <2> QED
    BY <2>3, <2>4
<1>5. ASSUME NEW k \in Token, ResetPage(k) PROVE LinksHold'
  <2>1. /\ UNCHANGED <<emails_for_reset, mail, req, now, redeemed>>
        /\ k \in DOMAIN tokens /\ now - tokens[k] > Ttl
        /\ tokens' = Drop(tokens, k)
    BY <1>5 DEF ResetPage, Expired, history
  <2>2. /\ DOMAIN tokens' = DOMAIN tokens \ {k}
        /\ \A x \in DOMAIN tokens' : tokens'[x] = tokens[x]
    BY <2>1 DEF Drop
  <2>3. ASSUME NEW x, NEW at, Dated(x, at) PROVE Dated(x, at)'
    BY <2>1, <2>2, <2>3 DEF Dated
  <2>4. ASSUME NEW t \in Thread PROVE (LinkMade(t) /\ LinkUsed(t))'
    BY <2>1, <2>3 DEF LinksHold, LinkMade, LinkUsed, Making, Fresh
  <2>5. ASSUME NEW m \in mail PROVE LinkMailed(m)'
    BY <2>1, <2>3 DEF LinksHold, LinkMailed
  <2> QED
    BY <2>1, <2>4, <2>5 DEF LinksHold
<1>6. ASSUME NEW t \in Thread, NEW k \in Token \union {NoToken}, NEW password \in Password,
             NEW confirmed \in BOOLEAN, SaveReads(t, k, password, confirmed)
      PROVE  LinksHold'
  <2>1. /\ req'[t].op = "forget" /\ req'[t].token = k
        /\ \A u \in Thread \ {t} : req'[u] = req[u]
    BY <1>0, <1>6 DEF SaveReads, Begin
  <2>2. UNCHANGED <<tokens, mail, now>> /\ (k = NoToken \/ \E m \in mail : m.token = k)
    BY <1>6 DEF SaveReads
  <2>3. /\ DOMAIN emails_for_reset' = DOMAIN emails_for_reset \union {k}
        /\ k \notin DOMAIN emails_for_reset => emails_for_reset'[k] = NoEmail
        /\ \A x \in DOMAIN emails_for_reset : emails_for_reset'[x] = emails_for_reset[x]
    BY <1>6 DEF SaveReads, Put
  <2>4. /\ redeemed' \in [Token -> Nat]
        /\ \A x \in Token : redeemed[x] > 0 => redeemed'[x] > 0
        /\ \A x \in Token \ {k} : redeemed'[x] = redeemed[x]
        /\ k \in DOMAIN emails_for_reset /\ emails_for_reset[k] # NoEmail /\ k \in Token
             => redeemed'[k] > 0
    <3>1. CASE k \in DOMAIN emails_for_reset /\ emails_for_reset[k] # NoEmail
      <4>1. redeemed' = [redeemed EXCEPT ![k] = @ + 1]
        BY <1>6, <3>1 DEF SaveReads
      <4>2. k \in Token
        BY <3>1 DEF NobodysEntry
      <4> QED
        BY <1>0, <4>1, <4>2
    <3>2. CASE ~ (k \in DOMAIN emails_for_reset /\ emails_for_reset[k] # NoEmail)
      <4>1. redeemed' = redeemed
        BY <1>6, <3>2 DEF SaveReads
      <4> QED
        BY <1>0, <3>2, <4>1
    <3> QED
      BY <3>1, <3>2
  <2>5. LinkMade(t)'
    BY <2>1 DEF LinkMade, Making
  <2>6. LinkUsed(t)'
    <3> SUFFICES ASSUME k # NoToken PROVE redeemed'[k] > 0 /\ \E m \in mail' : m.token = k
      BY <2>1 DEF LinkUsed
    <3>1. PICK m \in mail : m.token = k
      BY <2>2
    <3>2. LinkMailed(m) /\ k \in Token /\ redeemed[k] \in Nat
      BY <1>0, <3>1 DEF LinksHold
    <3>3. redeemed'[k] > 0
      <4>1. redeemed[k] = 0 => k \in DOMAIN emails_for_reset /\ emails_for_reset[k] # NoEmail
        BY <3>1, <3>2 DEF LinkMailed
      <4> QED
        BY <2>4, <3>2, <4>1
    <3> QED
      BY <2>2, <3>1, <3>3
  <2>7. ASSUME NEW u \in Thread \ {t} PROVE LinkMade(u)'
    <3> SUFFICES ASSUME Making(u) PROVE LinkMade(u)'
      BY <2>1 DEF LinkMade, Making
    <3>1. /\ LinkMade(u) /\ req[u].token \in Token
      BY AtFact DEF LinksHold, Making
    <3>2. req[u].token # k
      BY <1>0, <2>2, <3>1 DEF LinkMade, Fresh
    <3>3. \A v \in Thread : Making(v)' => Making(v) /\ req'[v] = req[v]
      BY <2>1 DEF Making
    <3> QED
      BY <2>1, <2>2, <2>3, <2>4, <3>1, <3>2, <3>3 DEF LinkMade, Fresh, Dated
  <2>8. ASSUME NEW u \in Thread \ {t} PROVE LinkUsed(u)'
    <3>1. req[u].op = "forget" => req[u].token \in Token \union {NoToken}
      BY AtFact
    <3> QED
      BY <2>1, <2>2, <2>4, <3>1 DEF LinksHold, LinkUsed
  <2>9. ASSUME NEW m \in mail PROVE LinkMailed(m)'
    <3>1. LinkMailed(m) /\ m.token \in Token
      BY <1>0 DEF LinksHold
    <3>2. Dated(m.token, m.at)'
      BY <2>2, <3>1 DEF LinkMailed, Dated
    <3>3. CASE m.token = k
      <4>1. redeemed'[k] = 0 => redeemed[k] = 0
        BY <1>0, <2>4, <3>1, <3>3
      <4> QED
        BY <2>3, <2>4, <3>1, <3>2, <3>3, <4>1 DEF LinkMailed
    <3>4. CASE m.token # k
      BY <2>3, <2>4, <3>1, <3>2, <3>4 DEF LinkMailed
    <3> QED
      BY <3>3, <3>4
  <2> QED
    BY <2>2, <2>5, <2>6, <2>7, <2>8, <2>9 DEF LinksHold
<1>7. ASSUME NEW t \in Thread, SaveForgets(t) PROVE LinksHold'
  <2> DEFINE k == req[t].token
  <2>1. req[t].op = "forget" /\ req[t] \in Saving /\ k \in Token \union {NoToken}
    BY <1>7, AtFact DEF SaveForgets, At
  <2>2. /\ req'[t].op \in {"idle", "update"}
        /\ \A u \in Thread \ {t} : req'[u] = req[u]
    <3>1. [req[t] EXCEPT !.op = "update"].op = "update" /\ Idle.op = "idle"
      BY <2>1, SavingStep DEF Idle
    <3>2. \/ Become(t, [req[t] EXCEPT !.op = "update"])
          \/ Become(t, Idle)
      BY <1>7 DEF SaveForgets
    <3> QED
      BY <1>0, <3>1, <3>2 DEF Become
  <2>3. /\ UNCHANGED <<tokens, mail, now, redeemed>>
        /\ emails_for_reset' = Drop(emails_for_reset, k)
    BY <1>7 DEF SaveForgets, EmailsAfter, history
  <2>4. LinkUsed(t)
    BY DEF LinksHold
  <2> HIDE DEF k
  <2>5. /\ DOMAIN emails_for_reset' = DOMAIN emails_for_reset \ {k}
        /\ \A x \in DOMAIN emails_for_reset' : emails_for_reset'[x] = emails_for_reset[x]
    BY <2>3 DEF Drop
  <2>6. k # NoToken => redeemed[k] > 0 /\ \E m \in mail : m.token = k
    BY <2>1, <2>4 DEF LinkUsed, k
  <2>7. LinkMade(t)' /\ LinkUsed(t)'
    BY <2>2 DEF LinkMade, LinkUsed, Making
  <2>8. ASSUME NEW u \in Thread \ {t} PROVE LinkMade(u)'
    <3> SUFFICES ASSUME Making(u) PROVE LinkMade(u)'
      BY <2>2 DEF LinkMade, Making
    <3>1. /\ LinkMade(u) /\ req[u].token \in Token
      BY AtFact DEF LinksHold, Making
    <3>2. req[u].token # k
      BY <1>0, <2>1, <2>6, <3>1 DEF LinkMade, Fresh
    <3>3. \A v \in Thread : Making(v)' => Making(v) /\ req'[v] = req[v]
      BY <2>2 DEF Making
    <3> QED
      BY <2>2, <2>3, <2>5, <3>1, <3>2, <3>3 DEF LinkMade, Fresh, Dated
  <2>9. ASSUME NEW u \in Thread \ {t} PROVE LinkUsed(u)'
    BY <2>2, <2>3 DEF LinksHold, LinkUsed
  <2>10. ASSUME NEW m \in mail PROVE LinkMailed(m)'
    <3>1. LinkMailed(m) /\ m.token \in Token
      BY <1>0 DEF LinksHold
    <3>2. redeemed[m.token] = 0 => m.token # k
      BY <1>0, <2>6, <3>1
    <3> QED
      BY <2>3, <2>5, <3>1, <3>2 DEF LinkMailed, Dated
  <2> QED
    BY <2>3, <2>7, <2>8, <2>9, <2>10 DEF LinksHold
<1>8. ASSUME Tick PROVE LinksHold'
  <2>1. /\ UNCHANGED <<tokens, emails_for_reset, mail, req, redeemed>> /\ now' = now + 1
    BY <1>8 DEF Tick, stores, history
  <2>2. ASSUME NEW x, NEW at \in Int, Dated(x, at) PROVE Dated(x, at)'
    BY <1>0, <2>1, <2>2 DEF Dated
  <2>3. ASSUME NEW t \in Thread PROVE (LinkMade(t) /\ LinkUsed(t))'
    <3>1. Making(t) => req[t].at \in Int
      <4>1. Making(t) => req[t].at \in 0..LastSecond
        BY AtFact DEF Making
      <4> QED
        BY <4>1
    <3> QED
      BY <2>1, <2>2, <3>1 DEF LinksHold, LinkMade, LinkUsed, Making, Fresh
  <2>4. ASSUME NEW m \in mail PROVE LinkMailed(m)'
    BY <1>0, <2>1, <2>2 DEF LinksHold, LinkMailed
  <2> QED
    BY <2>1, <2>3, <2>4 DEF LinksHold
<1>9. ASSUME UNCHANGED vars PROVE LinksHold'
  BY <1>9, QuietLinks DEF vars, stores, history
<1>10. ASSUME NEW t \in Thread, RegisterFindsEmail(t) PROVE LinksHold'
  <2>1. req[t] \in Registration
    BY <1>10, AtFact DEF RegisterFindsEmail, At
  <2>2. /\ Idle.op = "idle" /\ [req[t] EXCEPT !.op = "insert"].op = "insert"
        /\ [req[t] EXCEPT !.op = "insert", !.blind = TRUE].op = "insert"
    BY <2>1 DEF Registration, Idle
  <2>3. UNCHANGED <<tokens, emails_for_reset, mail, now, redeemed>>
    BY <1>10 DEF RegisterFindsEmail, stores, history
  <2>4. PICK r \in {Idle, [req[t] EXCEPT !.op = "insert"],
                    [req[t] EXCEPT !.op = "insert", !.blind = TRUE]} : Become(t, r)
    BY <1>10, Zenon DEF RegisterFindsEmail
  <2>5. r.op \notin {"remember", "send mail", "forget"}
    BY <2>2, <2>4
  <2> QED
    BY <1>1, <2>3, <2>4, <2>5
<1>11. ASSUME NEW t \in Thread, NEW name \in Name, NEW email \in Address,
              NEW password \in Password, RegisterFindsNoName(t, name, email, password)
       PROVE  LinksHold'
  BY <1>1, <1>11 DEF RegisterFindsNoName, stores, history
<1>12. ASSUME NEW t \in Thread,
              \/ RegisterInserts(t) \/ LoginGrants(t) \/ RefreshInserts(t) \/ SaveUpdates(t)
       PROVE  LinksHold'
  <2>1. Become(t, Idle) /\ UNCHANGED <<tokens, emails_for_reset, mail, now, redeemed>>
    BY <1>12, Zenon DEF RegisterInserts, LoginGrants, RefreshInserts, SaveUpdates, history
  <2>2. Idle.op = "idle"
    BY DEF Idle
  <2> QED
    BY <1>1, <2>1, <2>2
<1>13. ASSUME NEW t \in Thread, NEW email \in Address, NEW password \in Password,
              LoginFindsPassword(t, email, password)
       PROVE  LinksHold'
  BY <1>1, <1>13 DEF LoginFindsPassword, stores, history
<1>14. ASSUME NEW t \in Thread, NEW session \in active, RefreshFinds(t, session)
       PROVE  LinksHold'
  BY <1>1, <1>14 DEF RefreshFinds, stores, history
<1>15. ASSUME NEW t \in Thread, RefreshErases(t) PROVE LinksHold'
  <2>1. /\ Become(t, Idle) \/ Become(t, [op |-> "renew", user |-> req[t].session.user])
        /\ UNCHANGED <<tokens, emails_for_reset, mail, now, redeemed>>
    BY <1>15 DEF RefreshErases
  <2>2. Idle.op = "idle" /\ [op |-> "renew", user |-> req[t].session.user].op = "renew"
    BY DEF Idle
  <2> QED
    BY <1>1, <2>1, <2>2
<1> QED
  BY <1>2, <1>3, <1>4, <1>5, <1>6, <1>7, <1>8, <1>9, <1>10, <1>11, <1>12, <1>13, <1>14,
     <1>15 DEF Next

-----------------------------------------------------------------------------
LEMMA AddFact ==
  ASSUME NEW S, IsFiniteSet(S), NEW x
  PROVE  /\ IsFiniteSet(S \union {x}) /\ Cardinality(S) \in Nat
         /\ Cardinality(S \union {x}) \in Nat
         /\ Cardinality(S \union {x}) <= Cardinality(S) + 1
         /\ Cardinality(S) <= Cardinality(S \union {x})
         /\ x \notin S => Cardinality(S \union {x}) = Cardinality(S) + 1
<1>1. /\ IsFiniteSet(S \union {x}) /\ Cardinality(S) \in Nat
      /\ Cardinality(S \union {x}) = IF x \in S THEN Cardinality(S) ELSE Cardinality(S) + 1
  BY FS_AddElement, FS_CardinalityType
<1>2. x \in S => Cardinality(S \union {x}) = Cardinality(S)
  BY <1>1
<1>3. x \notin S => Cardinality(S \union {x}) = Cardinality(S) + 1
  BY <1>1
<1> QED
  BY <1>1, <1>2, <1>3

LEMMA RemoveFact ==
  ASSUME NEW S, IsFiniteSet(S), NEW x
  PROVE  /\ IsFiniteSet(S \ {x}) /\ Cardinality(S) \in Nat /\ Cardinality(S \ {x}) \in Nat
         /\ Cardinality(S \ {x}) <= Cardinality(S)
         /\ x \in S => Cardinality(S \ {x}) = Cardinality(S) - 1
<1>1. /\ IsFiniteSet(S \ {x}) /\ Cardinality(S) \in Nat /\ Cardinality(S \ {x}) \in Nat
      /\ Cardinality(S \ {x}) = IF x \in S THEN Cardinality(S) - 1 ELSE Cardinality(S)
  BY FS_RemoveElement, FS_CardinalityType
<1>2. x \in S => Cardinality(S \ {x}) = Cardinality(S) - 1
  BY <1>1
<1>3. x \notin S => Cardinality(S \ {x}) = Cardinality(S)
  BY <1>1
<1> QED
  BY <1>1, <1>2, <1>3

LEMMA SubsetFact ==
  ASSUME NEW S, IsFiniteSet(S), NEW T \in SUBSET S
  PROVE  /\ IsFiniteSet(T) /\ Cardinality(T) \in Nat /\ Cardinality(S) \in Nat
         /\ Cardinality(T) <= Cardinality(S)
  BY FS_Subset, FS_CardinalityType

ActiveOf(e) == {s \in active : s.user = e}
Renewing(e) == {t \in Thread : At(t, "renew") /\ req[t].user = e}
SessionsHold == IsFiniteSet(active) /\ SessionsComeFromLogins

LEMMA SessionsFact ==
  SessionsComeFromLogins <=>
    \A e \in Address :
      Cardinality(ActiveOf(e)) + Cardinality(Renewing(e)) <= logins[e] + doubles[e]
  BY DEF SessionsComeFromLogins, ActiveOf, Renewing

LEMMA FiniteSessions ==
  ASSUME SessionsHold, NEW e
  PROVE  /\ IsFiniteSet(ActiveOf(e)) /\ Cardinality(ActiveOf(e)) \in Nat
         /\ IsFiniteSet(Renewing(e)) /\ Cardinality(Renewing(e)) \in Nat
<1>1. ActiveOf(e) \in SUBSET active /\ Renewing(e) \in SUBSET Thread
  BY DEF ActiveOf, Renewing
<1>2. IsFiniteSet(active) /\ IsFiniteSet(Thread)
  BY AccountServiceAssumption DEF SessionsHold
<1> QED
  BY <1>1, <1>2, SubsetFact

LEMMA SessionsNext ==
  ASSUME TypeOK, SessionsHold, [Next]_vars
  PROVE  SessionsHold'
<1>0. /\ req \in [Thread -> Request] /\ Idle.op = "idle"
      /\ logins \in [Address -> Nat] /\ doubles \in [Address -> Nat]
  BY DEF TypeOK, Idle
<1>1. ASSUME UNCHANGED <<active, logins, doubles>>,
             \A e \in Address : Renewing(e)' = Renewing(e)
      PROVE  SessionsHold'
  <2>1. \A e : ActiveOf(e)' = ActiveOf(e)
    BY <1>1 DEF ActiveOf
  <2>2. \A e \in Address :
          Cardinality(ActiveOf(e)) + Cardinality(Renewing(e)) <= logins[e] + doubles[e]
    BY SessionsFact DEF SessionsHold
  <2>3. \A e \in Address :
          (Cardinality(ActiveOf(e)) + Cardinality(Renewing(e)) <= logins[e] + doubles[e])'
    BY <1>1, <2>1, <2>2
  <2>4. SessionsComeFromLogins'
    BY <2>3 DEF SessionsComeFromLogins, ActiveOf, Renewing, At
  <2> QED
    BY <1>1, <2>4 DEF SessionsHold
<1>2. ASSUME NEW t \in Thread, NEW r, Begin(t, r) \/ Become(t, r), r.op # "renew",
             req[t].op # "renew", UNCHANGED <<active, logins, doubles>>
      PROVE  SessionsHold'
  <2>1. \A e \in Address : Renewing(e)' = Renewing(e)
    BY <1>0, <1>2 DEF Renewing, At, Begin, Become
  <2> QED
    BY <1>1, <1>2, <2>1
<1>3. ASSUME NEW t \in Thread, LoginGrants(t) PROVE SessionsHold'
  <2>1. /\ req[t].op = "grant" /\ req' = [req EXCEPT ![t] = Idle] /\ UNCHANGED doubles
        /\ req[t].user \in Address
        /\ logins' = [logins EXCEPT ![req[t].user] = @ + 1]
    BY <1>3, AtFact DEF LoginGrants, At, Become
  <2>2. PICK s : s.user = req[t].user /\ active' = active \union {s}
    BY <1>3 DEF LoginGrants
  <2>3. ASSUME NEW e \in Address
        PROVE  (Cardinality(ActiveOf(e)) + Cardinality(Renewing(e)) <= logins[e] + doubles[e])'
    <3>1. Renewing(e)' = Renewing(e)
      BY <1>0, <2>1 DEF Renewing, At
    <3>2. /\ Cardinality(ActiveOf(e)) + Cardinality(Renewing(e)) <= logins[e] + doubles[e]
          /\ logins[e] \in Nat /\ doubles[e] \in Nat
      BY <1>0, SessionsFact DEF SessionsHold
    <3>3. CASE e = req[t].user
      <4>1. ActiveOf(e)' = ActiveOf(e) \union {s}
        BY <2>2, <3>3 DEF ActiveOf
      <4>2. Cardinality(ActiveOf(e)') <= Cardinality(ActiveOf(e)) + 1
        BY <4>1, FiniteSessions, AddFact
      <4>3. Cardinality(ActiveOf(e)') \in Nat
        BY <4>1, FiniteSessions, AddFact
      <4>4. logins'[e] = logins[e] + 1 /\ doubles'[e] = doubles[e]
        BY <1>0, <2>1, <3>3
      <4> QED
        BY <3>1, <3>2, <4>2, <4>3, <4>4, FiniteSessions
    <3>4. CASE e # req[t].user
      <4>1. ActiveOf(e)' = ActiveOf(e)
        BY <2>2, <3>4 DEF ActiveOf
      <4>2. logins'[e] = logins[e] /\ doubles'[e] = doubles[e]
        BY <1>0, <2>1, <3>4
      <4> QED
        BY <3>1, <3>2, <4>1, <4>2
    <3> QED
      BY <3>3, <3>4
  <2>4. SessionsComeFromLogins'
    BY <2>3 DEF SessionsComeFromLogins, ActiveOf, Renewing, At
  <2>5. IsFiniteSet(active)'
    BY <2>2, AddFact DEF SessionsHold
  <2> QED
    BY <2>4, <2>5 DEF SessionsHold
<1>4. ASSUME NEW t \in Thread, RefreshErases(t) PROVE SessionsHold'
  <2> DEFINE s == req[t].session
  <2>1. req[t].op = "rotate" /\ s \in Session
    BY <1>4, AtFact DEF RefreshErases, At
  <2>2. s.user \in Address
    BY <2>1 DEF Session
  <2>3. CASE Become(t, Idle) /\ UNCHANGED <<active, doubles>>
    BY <1>0, <1>2, <1>4, <2>1, <2>3 DEF RefreshErases
  <2>4. CASE /\ active' = active \ {s}
             /\ doubles' = [doubles EXCEPT ![s.user] = IF s \in active THEN @ ELSE @ + 1]
             /\ Become(t, [op |-> "renew", user |-> s.user])
    <3>1. UNCHANGED logins
      BY <1>4 DEF RefreshErases
    <3>2. /\ req'[t].op = "renew" /\ req'[t].user = s.user
          /\ \A u \in Thread \ {t} : req'[u] = req[u]
      BY <1>0, <2>4 DEF Become
    <3>3. PICK z : z = s
      OBVIOUS
    <3> HIDE DEF s
    <3>4. ASSUME NEW e \in Address
          PROVE  (Cardinality(ActiveOf(e)) + Cardinality(Renewing(e)) <= logins[e] + doubles[e])'
      <4>1. /\ Cardinality(ActiveOf(e)) + Cardinality(Renewing(e)) <= logins[e] + doubles[e]
            /\ logins[e] \in Nat /\ doubles[e] \in Nat
        BY <1>0, SessionsFact DEF SessionsHold
      <4>2. CASE e = z.user
        <5>1. ActiveOf(e)' = ActiveOf(e) \ {z} /\ (z \in active <=> z \in ActiveOf(e))
          BY <2>4, <3>3, <4>2 DEF ActiveOf
        <5>2. Renewing(e)' = Renewing(e) \union {t} /\ t \notin Renewing(e)
          BY <2>1, <3>2, <3>3, <4>2 DEF Renewing, At
        <5>3. /\ Cardinality(Renewing(e)') = Cardinality(Renewing(e)) + 1
          BY <5>2, FiniteSessions, AddFact
        <5>4. /\ Cardinality(ActiveOf(e)') \in Nat
              /\ Cardinality(ActiveOf(e)') <= Cardinality(ActiveOf(e))
              /\ z \in active => Cardinality(ActiveOf(e)') = Cardinality(ActiveOf(e)) - 1
          BY <5>1, FiniteSessions, RemoveFact
        <5>5. doubles'[e] = IF z \in active THEN doubles[e] ELSE doubles[e] + 1
          BY <1>0, <2>4, <3>3, <4>2
        <5>6. CASE z \in active
          BY <3>1, <4>1, <5>3, <5>4, <5>5, <5>6, FiniteSessions
        <5>7. CASE z \notin active
          BY <3>1, <4>1, <5>3, <5>4, <5>5, <5>7, FiniteSessions
        <5> QED
          BY <5>6, <5>7
      <4>3. CASE e # z.user
        <5>1. ActiveOf(e)' = ActiveOf(e)
          BY <2>4, <3>3, <4>3 DEF ActiveOf
        <5>2. Renewing(e)' = Renewing(e)
          BY <2>1, <3>2, <3>3, <4>3 DEF Renewing, At
        <5>3. doubles'[e] = doubles[e]
          BY <1>0, <2>4, <3>3, <4>3
        <5> QED
          BY <3>1, <4>1, <5>1, <5>2, <5>3
      <4> QED
        BY <4>2, <4>3
    <3>5. SessionsComeFromLogins'
      BY <3>4 DEF SessionsComeFromLogins, ActiveOf, Renewing, At
    <3>6. IsFiniteSet(active)'
      BY <2>4, RemoveFact DEF SessionsHold
    <3> QED
      BY <3>5, <3>6 DEF SessionsHold
  <2> QED
    BY <1>4, <2>3, <2>4, Zenon DEF RefreshErases, ErasedSession
<1>5. ASSUME NEW t \in Thread, RefreshInserts(t) PROVE SessionsHold'
  <2>1. /\ req[t].op = "renew" /\ req' = [req EXCEPT ![t] = Idle]
        /\ UNCHANGED <<logins, doubles>>
    BY <1>5 DEF RefreshInserts, At, Become, history
  <2>2. PICK s : s.user = req[t].user /\ active' = active \union {s}
    BY <1>5 DEF RefreshInserts
  <2>3. ASSUME NEW e \in Address
        PROVE  (Cardinality(ActiveOf(e)) + Cardinality(Renewing(e)) <= logins[e] + doubles[e])'
    <3>1. /\ Cardinality(ActiveOf(e)) + Cardinality(Renewing(e)) <= logins[e] + doubles[e]
          /\ logins[e] \in Nat /\ doubles[e] \in Nat
      BY <1>0, SessionsFact DEF SessionsHold
    <3>2. CASE e = s.user
      <4>1. ActiveOf(e)' = ActiveOf(e) \union {s}
        BY <2>2, <3>2 DEF ActiveOf
      <4>2. Renewing(e)' = Renewing(e) \ {t} /\ t \in Renewing(e)
        BY <1>0, <2>1, <2>2, <3>2 DEF Renewing, At
      <4>3. /\ Cardinality(ActiveOf(e)') \in Nat
            /\ Cardinality(ActiveOf(e)') <= Cardinality(ActiveOf(e)) + 1
        BY <4>1, FiniteSessions, AddFact
      <4>4. Cardinality(Renewing(e)') = Cardinality(Renewing(e)) - 1
        BY <4>2, FiniteSessions, RemoveFact
      <4> QED
        BY <2>1, <3>1, <4>3, <4>4, FiniteSessions
    <3>3. CASE e # s.user
      <4>1. ActiveOf(e)' = ActiveOf(e)
        BY <2>2, <3>3 DEF ActiveOf
      <4>2. Renewing(e)' = Renewing(e)
        BY <1>0, <2>1, <2>2, <3>3 DEF Renewing, At
      <4> QED
        BY <2>1, <3>1, <4>1, <4>2
    <3> QED
      BY <3>2, <3>3
  <2>4. SessionsComeFromLogins'
    BY <2>3 DEF SessionsComeFromLogins, ActiveOf, Renewing, At
  <2>5. IsFiniteSet(active)'
    BY <2>2, AddFact DEF SessionsHold
  <2> QED
    BY <2>4, <2>5 DEF SessionsHold
<1>6. ASSUME UNCHANGED <<active, logins, doubles, req>> PROVE SessionsHold'
  <2>1. \A e \in Address : Renewing(e)' = Renewing(e)
    BY <1>6 DEF Renewing, At
  <2> QED
    BY <1>1, <1>6, <2>1
<1>7. ASSUME NEW t \in Thread, RegisterFindsEmail(t) PROVE SessionsHold'
  <2>1. req[t].op = "find email" /\ req[t] \in Registration
    BY <1>7, AtFact DEF RegisterFindsEmail, At
  <2>2. /\ [req[t] EXCEPT !.op = "insert"].op = "insert"
        /\ [req[t] EXCEPT !.op = "insert", !.blind = TRUE].op = "insert"
    BY <2>1 DEF Registration
  <2>3. UNCHANGED <<active, logins, doubles>>
    BY <1>7 DEF RegisterFindsEmail, stores, history
  <2>4. PICK r \in {Idle, [req[t] EXCEPT !.op = "insert"],
                    [req[t] EXCEPT !.op = "insert", !.blind = TRUE]} : Become(t, r)
    BY <1>7, Zenon DEF RegisterFindsEmail
  <2>5. r.op # "renew"
    BY <1>0, <2>2, <2>4
  <2> QED
    BY <1>2, <2>1, <2>3, <2>4, <2>5
<1>8. ASSUME NEW t \in Thread,
             RegisterInserts(t) \/ ResetPassMails(t) \/ SaveUpdates(t)
      PROVE  SessionsHold'
  <2>1. /\ Become(t, Idle) /\ UNCHANGED <<active, logins, doubles>>
        /\ req[t].op \in {"insert", "send mail", "update"}
    BY <1>8, Zenon DEF RegisterInserts, ResetPassMails, SaveUpdates, history, At
  <2> QED
    BY <1>0, <1>2, <2>1
<1>9. ASSUME NEW t \in Thread, NEW r, Begin(t, r), r.op # "renew",
             UNCHANGED <<active, logins, doubles>>
      PROVE  SessionsHold'
  <2>1. req[t].op # "renew"
    BY <1>0, <1>9 DEF Begin
  <2> QED
    BY <1>2, <1>9, <2>1
<1>10. ASSUME NEW t \in Thread, NEW name \in Name, NEW email \in Address,
              NEW password \in Password, RegisterFindsNoName(t, name, email, password)
       PROVE  SessionsHold'
  BY <1>9, <1>10 DEF RegisterFindsNoName, stores, history
<1>11. ASSUME NEW t \in Thread, NEW email \in Address, NEW password \in Password,
              LoginFindsPassword(t, email, password)
       PROVE  SessionsHold'
  BY <1>9, <1>11 DEF LoginFindsPassword, stores, history
<1>12. ASSUME NEW t \in Thread, NEW session \in active, RefreshFinds(t, session)
       PROVE  SessionsHold'
  BY <1>9, <1>12 DEF RefreshFinds, stores, history
<1>13. ASSUME NEW t \in Thread, NEW email \in Address, NEW k \in Token,
              ResetPassDraws(t, email, k)
       PROVE  SessionsHold'
  BY <1>9, <1>13 DEF ResetPassDraws, history
<1>14. ASSUME NEW t \in Thread, NEW k \in Token \union {NoToken}, NEW password \in Password,
              NEW confirmed \in BOOLEAN, SaveReads(t, k, password, confirmed)
       PROVE  SessionsHold'
  BY <1>9, <1>14 DEF SaveReads
<1>15. ASSUME NEW t \in Thread, ResetPassRemembers(t) PROVE SessionsHold'
  <2>1. req[t].op = "remember" /\ [req[t] EXCEPT !.op = "send mail"].op = "send mail"
    BY <1>15, AtFact, ResetStep DEF ResetPassRemembers, At
  <2> QED
    BY <1>2, <1>15, <2>1 DEF ResetPassRemembers, history
<1>16. ASSUME NEW t \in Thread, SaveForgets(t) PROVE SessionsHold'
  <2>1. req[t].op = "forget" /\ [req[t] EXCEPT !.op = "update"].op = "update"
    BY <1>16, AtFact, SavingStep DEF SaveForgets, At
  <2>2. /\ Become(t, [req[t] EXCEPT !.op = "update"]) \/ Become(t, Idle)
        /\ UNCHANGED <<active, logins, doubles>>
    BY <1>16 DEF SaveForgets, history
  <2> QED
    BY <1>0, <1>2, <2>1, <2>2
<1>17. ASSUME Tick \/ (\E k \in Token : ResetPage(k)) \/ UNCHANGED vars
       PROVE  SessionsHold'
  BY <1>6, <1>17 DEF Tick, ResetPage, vars, stores, history
<1> QED
  BY <1>3, <1>4, <1>5, <1>7, <1>8, <1>10, <1>11, <1>12, <1>13, <1>14, <1>15, <1>16, <1>17
     DEF Next

-----------------------------------------------------------------------------
Unraced(e) == \A m \in mail : m.to = e => m.token \notin raced
Changing(e) == {t \in Thread : req[t].op \in {"forget", "update"} /\ req[t].email = e}
Used(e) == {m \in mail : m.to = e /\ redeemed[m.token] > 0}

(* Who changes a password or is about to used a link for it.               *)
Counted(e) ==
  Unraced(e) => changes[e] + Cardinality(Changing(e)) <= Cardinality(Used(e))

(* A link that gave its address away leads nowhere any more, once the      *)
(* thread that read it has erased its entry.                               *)
UsedUp(k) ==
  /\ redeemed[k] > 0 /\ k \notin raced
  /\ \A t \in Thread : req[t].op = "forget" => req[t].token # k
  /\ k \in DOMAIN emails_for_reset
  => emails_for_reset[k] = NoEmail

ChangesHold == /\ IsFiniteSet(mail)
               /\ \A e \in Email : Counted(e)
               /\ \A k \in Token : UsedUp(k)

LEMMA FiniteChanges ==
  ASSUME ChangesHold, NEW e
  PROVE  /\ IsFiniteSet(Used(e)) /\ Cardinality(Used(e)) \in Nat
         /\ IsFiniteSet(Changing(e)) /\ Cardinality(Changing(e)) \in Nat
<1>1. Used(e) \in SUBSET mail /\ Changing(e) \in SUBSET Thread
  BY DEF Used, Changing
<1>2. IsFiniteSet(mail) /\ IsFiniteSet(Thread)
  BY AccountServiceAssumption DEF ChangesHold
<1> QED
  BY <1>1, <1>2, SubsetFact

LEMMA ChangesImplyOneChangePerLink ==
  ASSUME TypeOK, ChangesHold
  PROVE  OneChangePerLink
<1> SUFFICES ASSUME NEW e \in Email, \A m \in mail : m.to = e => m.token \notin raced
             PROVE  changes[e] <= Cardinality({m \in mail : m.to = e})
  BY DEF OneChangePerLink
<1> DEFINE links == {m \in mail : m.to = e}
<1>1. changes[e] + Cardinality(Changing(e)) <= Cardinality(Used(e))
  BY DEF ChangesHold, Counted, Unraced
<1>2. links \in SUBSET mail /\ Used(e) \in SUBSET links
  BY DEF Used
<1>3. IsFiniteSet(links)
  BY <1>2, SubsetFact DEF ChangesHold
<1>4. Cardinality(Used(e)) <= Cardinality(links) /\ Cardinality(links) \in Nat
  BY <1>2, <1>3, SubsetFact
<1>5. changes[e] \in Nat
  BY DEF TypeOK, Address
<1> QED
  BY <1>1, <1>4, <1>5, FiniteChanges

LEMMA ChangesNext ==
  ASSUME TypeOK, NobodysEntry, LinksHold, ChangesHold, [Next]_vars
  PROVE  ChangesHold'
<1>0. /\ req \in [Thread -> Request] /\ Idle.op = "idle"
      /\ changes \in [Address -> Nat] /\ redeemed \in [Token -> Nat]
      /\ \A m \in mail : m.token \in Token /\ m.to \in Email
      /\ NoEmail \notin Email /\ Email \subseteq Address
  BY AccountServiceAssumption DEF TypeOK, Idle, Address
<1>1. ASSUME UNCHANGED <<mail, redeemed, changes, raced, emails_for_reset>>,
             \A e \in Email : Changing(e)' = Changing(e),
             \A t \in Thread : req[t].op = "forget" =>
               req'[t].op = "forget" /\ req'[t].token = req[t].token
      PROVE  ChangesHold'
  <2>1. ASSUME NEW e \in Email PROVE Counted(e)'
    <3>1. Unraced(e)' = Unraced(e) /\ Used(e)' = Used(e)
      BY <1>1 DEF Unraced, Used
    <3> QED
      BY <1>1, <3>1 DEF ChangesHold, Counted
  <2>2. ASSUME NEW k \in Token PROVE UsedUp(k)'
    BY <1>1 DEF ChangesHold, UsedUp
  <2> QED
    BY <1>1, <2>1, <2>2 DEF ChangesHold
<1>2. ASSUME NEW t \in Thread, NEW r, Begin(t, r) \/ Become(t, r),
             r.op \notin {"forget", "update"}, req[t].op \notin {"forget", "update"},
             UNCHANGED <<mail, redeemed, changes, raced, emails_for_reset>>
      PROVE  ChangesHold'
  <2>1. \A e \in Email : Changing(e)' = Changing(e)
    BY <1>0, <1>2 DEF Changing, Begin, Become
  <2>2. \A u \in Thread : req[u].op = "forget" => req'[u] = req[u]
    BY <1>0, <1>2 DEF Begin, Become
  <2> QED
    BY <1>1, <1>2, <2>1, <2>2
<1>3. ASSUME NEW t \in Thread, ResetPassRemembers(t) PROVE ChangesHold'
  <2> DEFINE r == [req[t] EXCEPT !.op = "send mail"]
             k == req[t].token
  <2>1. req[t].op = "remember" /\ req[t] \in Reset /\ r.op = "send mail"
    BY <1>3, AtFact, ResetStep DEF ResetPassRemembers, At
  <2>2. /\ UNCHANGED <<mail, redeemed, changes, raced>>
        /\ emails_for_reset' = Put(emails_for_reset, k, req[t].email)
        /\ req' = [req EXCEPT ![t] = r]
    BY <1>3 DEF ResetPassRemembers, history, Become
  <2>3. redeemed[k] = 0
    BY <2>1 DEF LinksHold, LinkMade, Making, Fresh
  <2> HIDE DEF r, k
  <2>4. ASSUME NEW e \in Email PROVE Counted(e)'
    <3>1. Changing(e)' = Changing(e)
      BY <1>0, <2>1, <2>2 DEF Changing
    <3>2. Unraced(e)' = Unraced(e) /\ Used(e)' = Used(e)
      BY <2>2 DEF Unraced, Used
    <3> QED
      BY <2>2, <3>1, <3>2 DEF ChangesHold, Counted
  <2>5. ASSUME NEW x \in Token PROVE UsedUp(x)'
    <3>1. x # k => (x \in DOMAIN emails_for_reset' =>
            x \in DOMAIN emails_for_reset /\ emails_for_reset'[x] = emails_for_reset[x])
      BY <2>2 DEF Put
    <3>2. \A u \in Thread : req[u].op = "forget" => req'[u] = req[u]
      BY <1>0, <2>1, <2>2
    <3> QED
      BY <1>0, <2>2, <2>3, <3>1, <3>2 DEF ChangesHold, UsedUp
  <2> QED
    BY <2>2, <2>4, <2>5 DEF ChangesHold
<1>4. ASSUME NEW t \in Thread, ResetPassMails(t) PROVE ChangesHold'
  <2>1. /\ req[t].op = "send mail" /\ Become(t, Idle)
        /\ UNCHANGED <<redeemed, changes, raced, emails_for_reset>>
    BY <1>4 DEF ResetPassMails, At, history
  <2>2. CASE mail' = mail
    BY <1>0, <1>2, <2>1, <2>2
  <2>3. CASE mail' # mail
    <3>1. PICK l : /\ l = [to |-> req[t].email, token |-> req[t].token, at |-> req[t].at]
                   /\ mail' = mail \union {l}
      BY <1>4, <2>3 DEF ResetPassMails
    <3>2. redeemed[l.token] = 0
      BY <2>1, <3>1 DEF LinksHold, LinkMade, Making, Fresh
    <3>3. ASSUME NEW e \in Email PROVE Counted(e)'
      <4>1. Changing(e)' = Changing(e)
        BY <1>0, <2>1 DEF Changing, Become
      <4>2. Used(e)' = Used(e)
        <5>1. ~ (redeemed[l.token] > 0)
          BY <3>2
        <5> QED
          BY <2>1, <3>1, <5>1, Zenon DEF Used
      <4>3. Unraced(e)' => Unraced(e)
        BY <2>1, <3>1 DEF Unraced
      <4> QED
        BY <2>1, <4>1, <4>2, <4>3 DEF ChangesHold, Counted
    <3>4. ASSUME NEW k \in Token PROVE UsedUp(k)'
      <4>1. \A u \in Thread : req[u].op = "forget" => req'[u] = req[u]
        BY <1>0, <2>1 DEF Become
      <4> QED
        BY <2>1, <4>1 DEF ChangesHold, UsedUp
    <3>5. IsFiniteSet(mail)'
      BY <3>1, AddFact DEF ChangesHold
    <3> QED
      BY <3>3, <3>4, <3>5 DEF ChangesHold
  <2> QED
    BY <2>2, <2>3
<1>5. ASSUME NEW t \in Thread, SaveForgets(t) PROVE ChangesHold'
  <2> DEFINE k == req[t].token
             r == [req[t] EXCEPT !.op = "update"]
  <2>1. /\ req[t].op = "forget" /\ r.op = "update" /\ r.email = req[t].email
    BY <1>5, AtFact, SavingStep DEF SaveForgets, At
  <2>2. /\ UNCHANGED <<mail, redeemed, changes, raced>>
        /\ emails_for_reset' = Drop(emails_for_reset, k)
        /\ Become(t, r) \/ Become(t, Idle)
    BY <1>5 DEF SaveForgets, EmailsAfter, history
  <2> HIDE DEF k, r
  <2>3. \A u \in Thread \ {t} : req'[u] = req[u]
    BY <1>0, <2>2 DEF Become
  <2>4. ASSUME NEW e \in Email PROVE Counted(e)'
    <3>1. Changing(e)' \in SUBSET Changing(e)
      BY <1>0, <2>1, <2>2 DEF Changing, Become
    <3>2. Cardinality(Changing(e)') <= Cardinality(Changing(e)) /\ Cardinality(Changing(e)') \in Nat
      BY <3>1, FiniteChanges, SubsetFact
    <3>3. Unraced(e)' = Unraced(e) /\ Used(e)' = Used(e)
      BY <2>2 DEF Unraced, Used
    <3>4. changes[e] \in Nat /\ Counted(e)
      BY <1>0 DEF ChangesHold
    <3> QED
      BY <2>2, <3>2, <3>3, <3>4, FiniteChanges DEF Counted
  <2>5. ASSUME NEW x \in Token PROVE UsedUp(x)'
    <3>1. x # k /\ x \in DOMAIN emails_for_reset' =>
            x \in DOMAIN emails_for_reset /\ emails_for_reset'[x] = emails_for_reset[x]
      BY <2>2 DEF Drop
    <3>2. k \notin DOMAIN emails_for_reset'
      BY <2>2 DEF Drop
    <3>3. x # k /\ (\A u \in Thread : req'[u].op = "forget" => req'[u].token # x) =>
            \A u \in Thread : req[u].op = "forget" => req[u].token # x
      BY <2>3 DEF k
    <3> QED
      BY <2>2, <3>1, <3>2, <3>3 DEF ChangesHold, UsedUp
  <2> QED
    BY <2>2, <2>4, <2>5 DEF ChangesHold
<1>6. ASSUME NEW t \in Thread, SaveUpdates(t) PROVE ChangesHold'
  <2>1. /\ req[t].op = "update" /\ Become(t, Idle)
        /\ UNCHANGED <<mail, redeemed, raced, emails_for_reset>>
    BY <1>6, Zenon DEF SaveUpdates, At
  <2>2. \/ changes' = [changes EXCEPT ![req[t].email] = @ + 1]
        \/ changes' = changes
    BY <1>6, Zenon DEF SaveUpdates
  <2>3. ASSUME NEW e \in Email PROVE Counted(e)'
    <3>1. Unraced(e)' = Unraced(e) /\ Used(e)' = Used(e)
      BY <2>1 DEF Unraced, Used
    <3>2. changes[e] \in Nat /\ Counted(e)
      BY <1>0 DEF ChangesHold
    <3>3. CASE req[t].email = e
      <4>1. Changing(e)' = Changing(e) \ {t} /\ t \in Changing(e)
        BY <1>0, <2>1, <3>3 DEF Changing, Become
      <4>2. Cardinality(Changing(e)') = Cardinality(Changing(e)) - 1
        BY <4>1, FiniteChanges, RemoveFact
      <4>3. changes'[e] \in {changes[e], changes[e] + 1}
        BY <1>0, <2>2, <3>3
      <4> QED
        BY <3>1, <3>2, <4>2, <4>3, FiniteChanges DEF Counted
    <3>4. CASE req[t].email # e
      <4>1. Changing(e)' = Changing(e)
        BY <1>0, <2>1, <3>4 DEF Changing, Become
      <4>2. changes'[e] = changes[e]
        BY <1>0, <2>2, <3>4
      <4> QED
        BY <3>1, <3>2, <4>1, <4>2 DEF Counted
    <3> QED
      BY <3>3, <3>4
  <2>4. ASSUME NEW k \in Token PROVE UsedUp(k)'
    <3>1. \A u \in Thread : req[u].op = "forget" => req'[u] = req[u]
      BY <1>0, <2>1 DEF Become
    <3> QED
      BY <2>1, <3>1 DEF ChangesHold, UsedUp
  <2> QED
    BY <2>1, <2>3, <2>4 DEF ChangesHold
<1>7. ASSUME NEW t \in Thread, NEW k \in Token \union {NoToken}, NEW password \in Password,
             NEW confirmed \in BOOLEAN, SaveReads(t, k, password, confirmed)
      PROVE  ChangesHold'
  <2> DEFINE known == k \in DOMAIN emails_for_reset /\ emails_for_reset[k] # NoEmail
             found == IF k \in DOMAIN emails_for_reset THEN emails_for_reset[k] ELSE NoEmail
  <2>1. /\ req[t] = Idle /\ \A u \in Thread \ {t} : req'[u] = req[u]
        /\ req'[t].op = "forget" /\ req'[t].token = k /\ req'[t].email = found
    BY <1>0, <1>7 DEF SaveReads, Begin
  <2>2. UNCHANGED <<mail, changes>> /\ (k = NoToken \/ \E m \in mail : m.token = k)
    BY <1>7 DEF SaveReads
  <2>3. /\ \A x \in DOMAIN emails_for_reset' :
             \/ x \in DOMAIN emails_for_reset /\ emails_for_reset'[x] = emails_for_reset[x]
             \/ emails_for_reset'[x] = NoEmail
    BY <1>7 DEF SaveReads, Put
  <2>4. CASE ~ known
    <3>1. redeemed' = redeemed /\ raced' = raced /\ found = NoEmail
      BY <1>7, <2>4 DEF SaveReads
    <3> HIDE DEF known, found
    <3>2. ASSUME NEW e \in Email PROVE Counted(e)'
      <4>1. Changing(e)' = Changing(e)
        BY <1>0, <2>1, <3>1 DEF Changing
      <4>2. Unraced(e)' = Unraced(e) /\ Used(e)' = Used(e)
        BY <2>2, <3>1 DEF Unraced, Used
      <4> QED
        BY <2>2, <4>1, <4>2 DEF ChangesHold, Counted
    <3>3. ASSUME NEW x \in Token PROVE UsedUp(x)'
      <4>1. \A u \in Thread : req[u].op = "forget" => req'[u] = req[u]
        BY <1>0, <2>1
      <4> QED
        BY <2>3, <3>1, <4>1 DEF ChangesHold, UsedUp
    <3> QED
      BY <2>2, <3>2, <3>3 DEF ChangesHold
  <2>5. CASE known
    <3>1. k \in Token /\ found = emails_for_reset[k]
      BY <2>5 DEF NobodysEntry
    <3>2. PICK l \in mail : l.token = k
      BY <1>0, <2>2, <3>1, AccountServiceAssumption
    <3>3. l.to = found
      BY <2>5, <3>1, <3>2 DEF LinksHold, LinkMailed
    <3>4. /\ redeemed' = [redeemed EXCEPT ![k] = @ + 1]
          /\ raced' = IF \E u \in Thread : req[u].op = "forget" /\ req[u].token = k
                        THEN raced \union {k} ELSE raced
      BY <1>7, <2>5 DEF SaveReads, At
    <3>5. /\ \A x \in Token : redeemed[x] > 0 => redeemed'[x] > 0
          /\ \A x \in Token \ {k} : redeemed'[x] = redeemed[x]
          /\ redeemed'[k] > 0
      BY <1>0, <3>1, <3>4
    <3>6. UsedUp(k)
      BY <3>1 DEF ChangesHold
    <3>7. k \notin raced' => redeemed[k] = 0
      BY <1>0, <2>5, <3>1, <3>4, <3>6 DEF UsedUp
    <3> HIDE DEF known, found
    <3>8. ASSUME NEW e \in Email PROVE Counted(e)'
      <4> SUFFICES ASSUME Unraced(e)'
                   PROVE  changes'[e] + Cardinality(Changing(e)') <= Cardinality(Used(e)')
        BY DEF Counted
      <4>1. Unraced(e)
        BY <2>2, <3>4 DEF Unraced
      <4>2. /\ changes[e] + Cardinality(Changing(e)) <= Cardinality(Used(e))
            /\ changes[e] \in Nat /\ changes'[e] = changes[e]
        BY <1>0, <2>2, <4>1 DEF ChangesHold, Counted
      <4>3. CASE e = found
        <5>1. l \notin Used(e) /\ Used(e) \union {l} \in SUBSET Used(e)'
          <6>1. k \notin raced'
            BY <2>2, <3>2, <3>3, <4>3 DEF Unraced
          <6>2. ~ (redeemed[l.token] > 0)
            BY <3>2, <3>7, <6>1
          <6>3. l \in Used(e)'
            BY <2>2, <3>2, <3>3, <3>5, <4>3 DEF Used
          <6>4. ASSUME NEW m \in Used(e) PROVE m \in Used(e)'
            BY <1>0, <2>2, <3>5 DEF Used
          <6> QED
            BY <6>2, <6>3, <6>4 DEF Used
        <5>2. IsFiniteSet(Used(e)')
          <6>1. Used(e)' \in SUBSET mail
            BY <2>2 DEF Used
          <6> QED
            BY <6>1, SubsetFact DEF ChangesHold
        <5>3. /\ Cardinality(Used(e)) + 1 <= Cardinality(Used(e)')
              /\ Cardinality(Used(e)') \in Nat
          <6>1. Cardinality(Used(e) \union {l}) = Cardinality(Used(e)) + 1
            BY <5>1, FiniteChanges, AddFact
          <6>2. /\ Cardinality(Used(e) \union {l}) <= Cardinality(Used(e)')
                /\ Cardinality(Used(e)') \in Nat
            BY <5>1, <5>2, SubsetFact
          <6> QED
            BY <6>1, <6>2
        <5>4. Changing(e)' = Changing(e) \union {t}
          BY <2>1, <4>3 DEF Changing
        <5>5. Cardinality(Changing(e)') <= Cardinality(Changing(e)) + 1
              /\ Cardinality(Changing(e)') \in Nat
          BY <5>4, FiniteChanges, AddFact
        <5> QED
          BY <4>2, <5>3, <5>5, FiniteChanges
      <4>4. CASE e # found
        <5>1. Changing(e)' = Changing(e)
          BY <1>0, <2>1, <4>4 DEF Changing
        <5>2. Used(e)' = Used(e)
          <6>1. \A m \in mail : m.to = e => m.token # k
            <7> SUFFICES ASSUME NEW m \in mail, m.to = e, m.token = k PROVE FALSE
              OBVIOUS
            <7>1. LinkMailed(m) /\ k \in DOMAIN emails_for_reset /\ emails_for_reset[k] # NoEmail
              BY <2>5 DEF LinksHold, known
            <7> QED
              BY <3>1, <4>4, <7>1 DEF LinkMailed
          <6> QED
            BY <1>0, <2>2, <3>5, <6>1 DEF Used
        <5> QED
          BY <4>2, <5>1, <5>2
      <4> QED
        BY <4>3, <4>4
    <3>9. ASSUME NEW x \in Token PROVE UsedUp(x)'
      <4>1. CASE x = k
        BY <2>1, <4>1 DEF UsedUp
      <4>2. CASE x # k
        <5>1. UsedUp(x) /\ redeemed'[x] = redeemed[x] /\ (x \in raced => x \in raced')
          BY <3>4, <3>5, <4>2 DEF ChangesHold
        <5>2. \A u \in Thread : req[u].op = "forget" => req'[u] = req[u]
          BY <1>0, <2>1
        <5> QED
          BY <2>3, <5>1, <5>2 DEF UsedUp
      <4> QED
        BY <4>1, <4>2
    <3> QED
      BY <2>2, <3>8, <3>9 DEF ChangesHold
  <2> QED
    BY <2>4, <2>5
<1>8. ASSUME NEW t \in Thread, NEW r, Begin(t, r), r.op \notin {"forget", "update"},
             UNCHANGED <<mail, redeemed, changes, raced, emails_for_reset>>
      PROVE  ChangesHold'
  <2>1. req[t].op \notin {"forget", "update"}
    BY <1>0, <1>8 DEF Begin
  <2> QED
    BY <1>2, <1>8, <2>1
<1>9. ASSUME NEW t \in Thread, NEW name \in Name, NEW email \in Address,
             NEW password \in Password, RegisterFindsNoName(t, name, email, password)
      PROVE  ChangesHold'
  BY <1>8, <1>9 DEF RegisterFindsNoName, stores, history
<1>10. ASSUME NEW t \in Thread, RegisterFindsEmail(t) PROVE ChangesHold'
  <2>1. req[t].op = "find email" /\ req[t] \in Registration
    BY <1>10, AtFact DEF RegisterFindsEmail, At
  <2>2. /\ [req[t] EXCEPT !.op = "insert"].op = "insert"
        /\ [req[t] EXCEPT !.op = "insert", !.blind = TRUE].op = "insert"
    BY <2>1 DEF Registration
  <2>3. UNCHANGED <<mail, redeemed, changes, raced, emails_for_reset>>
    BY <1>10 DEF RegisterFindsEmail, stores, history
  <2>4. PICK r \in {Idle, [req[t] EXCEPT !.op = "insert"],
                    [req[t] EXCEPT !.op = "insert", !.blind = TRUE]} : Become(t, r)
    BY <1>10, Zenon DEF RegisterFindsEmail
  <2>5. r.op \notin {"forget", "update"}
    BY <1>0, <2>2, <2>4
  <2> QED
    BY <1>2, <2>1, <2>3, <2>4, <2>5
<1>11. ASSUME NEW t \in Thread, RegisterInserts(t) \/ LoginGrants(t) \/ RefreshInserts(t)
       PROVE  ChangesHold'
  <2>1. /\ Become(t, Idle) /\ UNCHANGED <<mail, redeemed, changes, raced, emails_for_reset>>
        /\ req[t].op \in {"insert", "grant", "renew"}
    BY <1>11, Zenon DEF RegisterInserts, LoginGrants, RefreshInserts, history, At
  <2> QED
    BY <1>0, <1>2, <2>1
<1>12. ASSUME NEW t \in Thread, NEW email \in Address, NEW password \in Password,
              LoginFindsPassword(t, email, password)
       PROVE  ChangesHold'
  BY <1>8, <1>12 DEF LoginFindsPassword, stores, history
<1>13. ASSUME NEW t \in Thread, NEW session \in active, RefreshFinds(t, session)
       PROVE  ChangesHold'
  BY <1>8, <1>13 DEF RefreshFinds, stores, history
<1>14. ASSUME NEW t \in Thread, RefreshErases(t) PROVE ChangesHold'
  <2>1. /\ Become(t, Idle) \/ Become(t, [op |-> "renew", user |-> req[t].session.user])
        /\ UNCHANGED <<mail, redeemed, changes, raced, emails_for_reset>>
        /\ req[t].op = "rotate"
    BY <1>14 DEF RefreshErases, At
  <2>2. [op |-> "renew", user |-> req[t].session.user].op = "renew"
    OBVIOUS
  <2> QED
    BY <1>0, <1>2, <2>1, <2>2
<1>15. ASSUME NEW t \in Thread, NEW email \in Address, NEW k \in Token,
              ResetPassDraws(t, email, k)
       PROVE  ChangesHold'
  BY <1>8, <1>15 DEF ResetPassDraws, history
<1>16. ASSUME Tick \/ (\E k \in Token : ResetPage(k)) \/ UNCHANGED vars PROVE ChangesHold'
  <2>1. UNCHANGED <<mail, redeemed, changes, raced, emails_for_reset, req>>
    BY <1>16 DEF Tick, ResetPage, vars, stores, history
  <2>2. \A e \in Email : Changing(e)' = Changing(e)
    BY <2>1 DEF Changing
  <2> QED
    BY <1>1, <2>1, <2>2
<1> QED
  BY <1>3, <1>4, <1>5, <1>6, <1>7, <1>9, <1>10, <1>11, <1>12, <1>13, <1>14, <1>15, <1>16
     DEF Next

-----------------------------------------------------------------------------
IInv == /\ TypeOK /\ NobodysEntry
        /\ LookupsHold /\ DuplicatesOverlap
        /\ LinksHold
        /\ SessionsHold
        /\ ChangesHold

LEMMA InvInit == Init => IInv
<1> SUFFICES ASSUME Init PROVE IInv
  OBVIOUS
<1>1. TypeOK /\ NobodysEntry
  BY TypeInit
<1>2. /\ users = <<>> /\ active = {} /\ mail = {} /\ \A t \in Thread : req[t] = Idle
      /\ logins = [e \in Address |-> 0] /\ doubles = [e \in Address |-> 0]
      /\ redeemed = [k \in Token |-> 0] /\ changes = [e \in Address |-> 0]
      /\ Idle.op = "idle"
  BY DEF Init, Idle
<1>3. LookupsHold /\ DuplicatesOverlap
  <2>1. DOMAIN users = {}
    BY <1>2
  <2> QED
    BY <1>2, <2>1 DEF LookupsHold, LookupHolds, DuplicatesOverlap
<1>4. LinksHold
  BY <1>2 DEF LinksHold, LinkMade, LinkUsed, Making
<1>5. Cardinality({}) = 0 /\ IsFiniteSet({})
  BY FS_EmptySet
<1>6. SessionsHold
  <2>1. ASSUME NEW e \in Address PROVE ActiveOf(e) = {} /\ Renewing(e) = {}
    BY <1>2 DEF ActiveOf, Renewing, At
  <2> QED
    <3>1. ASSUME NEW e \in Address
          PROVE  Cardinality(ActiveOf(e)) + Cardinality(Renewing(e)) <= logins[e] + doubles[e]
      <4>1. Cardinality(ActiveOf(e)) = 0 /\ Cardinality(Renewing(e)) = 0
        BY <1>5, <2>1
      <4>2. logins[e] = 0 /\ doubles[e] = 0
        BY <1>2
      <4> QED
        BY <4>1, <4>2
    <3> QED
      BY <1>2, <1>5, <3>1, SessionsFact DEF SessionsHold
<1>7. ChangesHold
  <2>1. ASSUME NEW e \in Email PROVE Counted(e)
    <3>1. Changing(e) = {} /\ Used(e) = {} /\ changes[e] = 0
      BY <1>2 DEF Changing, Used, Address
    <3> QED
      BY <1>5, <3>1 DEF Counted
  <2>2. ASSUME NEW k \in Token PROVE UsedUp(k)
    BY <1>2 DEF UsedUp
  <2> QED
    BY <1>2, <1>5, <2>1, <2>2 DEF ChangesHold
<1> QED
  BY <1>1, <1>3, <1>4, <1>6, <1>7 DEF IInv

LEMMA InvNext == IInv /\ [Next]_vars => IInv'
  BY TypeNext, NobodysEntryNext, LookupsNext, LinksNext, SessionsNext, ChangesNext DEF IInv

(* The inductive invariant holds: no handler and no tick breaks it.        *)
THEOREM Inductive == Spec => []IInv
  BY InvInit, InvNext, PTL DEF Spec

(* The variables keep the types the program declares, and no entry without *)
(* a link leads to an address.                                             *)
THEOREM TypeCorrect == Spec => []TypeOK
<1>1. IInv => TypeOK
  BY DEF IInv
<1> QED
  BY <1>1, Inductive, PTL

(* Accounts share a name or an address only if their registrations         *)
(* overlapped or a lookup failed.                                          *)
THEOREM OnlyOverlapsDuplicate == Spec => []DuplicatesOverlap
<1>1. IInv => DuplicatesOverlap
  BY DEF IInv
<1> QED
  BY <1>1, Inductive, PTL

(* A link that was mailed and not used leads to its address, and its page  *)
(* is refused only when it is too old.                                     *)
THEOREM MailedLinksWork == Spec => []LinksWork
<1>1. IInv => LinksWork
  BY LinksImplyLinksWork DEF IInv
<1> QED
  BY <1>1, Inductive, PTL

(* A password changes at most once for each link mailed to its address,    *)
(* unless two threads read one link's entry before either erased it.       *)
THEOREM OneChangeEach == Spec => []OneChangePerLink
<1>1. IInv => OneChangePerLink
  BY ChangesImplyOneChangePerLink DEF IInv
<1> QED
  BY <1>1, Inductive, PTL

(* The refresh tokens of an address are at most its logins, plus one for   *)
(* every time two threads refreshed the same token.                        *)
THEOREM RefreshingAddsNothing == Spec => []SessionsComeFromLogins
<1>1. IInv => SessionsComeFromLogins
  BY DEF IInv, SessionsHold
<1> QED
  BY <1>1, Inductive, PTL
=============================================================================
