---------------------------- MODULE AccountsProofs ----------------------------
(***************************************************************************)
(* What TLAPS proves of Accounts, for any number of users, browsers and    *)
(* requests and any length of time.                                        *)
(***************************************************************************)
EXTENDS Accounts, TLAPS

USE DEF Goto

-----------------------------------------------------------------------------
(* Type correctness.                                                       *)

\* What a request asks for fits where it is and what it carries.
Routed ==
  \A s \in Sessions :
    /\ pc[s] = "idle" => carried[s] = NoToken
    /\ pc[s] # "idle" => user[s] \in Emails
    /\ op[s] \in {"register", "login", "none"} => carried[s] = NoToken
    /\ pc[s] \in {"user", "wallet", "asset", "created"} => op[s] = "register"
    /\ pc[s] \in {"parse", "validate", "reject", "revoke"} => op[s] = "rotate"
    /\ pc[s] \in {"logout", "bye"} => op[s] = "logout"
    /\ pc[s] \in {"mint", "save", "grant", "granted", "deny"} =>
         op[s] \in {"login", "rotate"}

\* A row of the token table is one, or none.
LEMMA FreshType == TypeOK => Fresh \in TokenRow
BY AccountsAssumption DEF TypeOK, Fresh, TokenRow, Time

\* Revocation changes at most one row, which stays one.
LEMMA RevokeFacts ==
  ASSUME TypeOK, NEW t, Revoke(t)
  PROVE  /\ tokens' \in [Token -> TokenRow \cup {NoRow}]
         /\ \A u \in Token : u # t => tokens'[u] = tokens[u]
         /\ \A u \in Token : Found(u) <=> Found(u)'
         /\ t \in Token /\ Found(t) => Revoked(t)'
         /\ \A u \in Token : Revoked(u) => Revoked(u)'
<1>1. CASE t \in Token /\ Found(t)
  <2>1. tokens[t] \in TokenRow
    BY <1>1 DEF TypeOK, Found
  <2>2. tokens' = [tokens EXCEPT ![t].revoked = TRUE]
    BY <1>1 DEF Revoke
  <2>3. tokens'[t] = [tokens[t] EXCEPT !.revoked = TRUE]
    BY <1>1, <2>2 DEF TypeOK
  <2>4. tokens'[t] \in TokenRow /\ tokens'[t].revoked
    BY <2>1, <2>3 DEF TokenRow
  <2>5. tokens'[t] # NoRow
    BY <2>4, AccountsAssumption
  <2>6. \A u \in Token : u # t => tokens'[u] = tokens[u]
    BY <2>2 DEF TypeOK
  <2>7. tokens' \in [Token -> TokenRow \cup {NoRow}]
    BY <2>2, <2>4, <2>6 DEF TypeOK
  <2> QED BY <1>1, <2>4, <2>5, <2>6, <2>7 DEF Found, Revoked
<1>2. CASE t \notin Token
  <2>1. tokens' = tokens \/ tokens' = [tokens EXCEPT ![t].revoked = TRUE]
    BY DEF Revoke
  <2>2. tokens' = tokens
    BY <1>2, <2>1 DEF TypeOK
  <2> QED BY <1>2, <2>2 DEF TypeOK, Found, Revoked
<1>3. CASE t \in Token /\ ~ Found(t)
  <2>1. tokens' = tokens
    BY <1>3 DEF Revoke
  <2> QED BY <1>3, <2>1 DEF TypeOK, Found, Revoked
<1> QED BY <1>1, <1>2, <1>3

LEMMA TypeInit == Init => TypeOK /\ Routed
<1> SUFFICES ASSUME Init PROVE TypeOK /\ Routed
  OBVIOUS
<1>1. 0 \in Time /\ now = 0
  BY AccountsAssumption DEF Init, Time
<1>2. Fresh \in TokenRow
  BY <1>1, AccountsAssumption DEF Fresh, TokenRow
<1>3. tokens \in [Token -> TokenRow \cup {NoRow}]
  BY <1>2 DEF Init
<1> QED BY <1>1, <1>3, AccountsAssumption DEF Init, TypeOK, Routed, Pc

LEMMA TypeStep == TypeOK /\ Routed /\ [Next]_vars => (TypeOK /\ Routed)'
<1> SUFFICES ASSUME TypeOK, Routed, [Next]_vars PROVE (TypeOK /\ Routed)'
  OBVIOUS
<1> USE DEF TypeOK, Routed, Pc, Working, Answers, Received
<1>1. ASSUME NEW s \in Sessions, NEW what \in {"register", "login"},
             NEW e \in Emails, Send(s, what, e, NoToken, "find")
      PROVE  (TypeOK /\ Routed)'
  BY <1>1 DEF Send, tables
<1>2. ASSUME NEW s \in Sessions, RotateRefreshToken(s) \/ Logout(s)
      PROVE  (TypeOK /\ Routed)'
  <2> DEFINE t == cookie[BrowserOf[s]]
  <2>1. t \in Token /\ t.user \in Emails
    BY <1>2, AccountsAssumption DEF RotateRefreshToken, Logout, Token
  <2>2. \/ Send(s, "rotate", t.user, t, "parse")
        \/ Send(s, "logout", t.user, t, "logout")
    BY <1>2 DEF RotateRefreshToken, Logout
  <2> QED BY <2>1, <2>2 DEF Send, tables
<1>3. ASSUME NEW s \in Sessions, Handler(s) PROVE (TypeOK /\ Routed)'
  <2>1. CASE FindForRegister(s)
    BY <2>1 DEF FindForRegister, tables, request
  <2>2. CASE CreateUserWithWallet(s)
    <3>1. CASE CreateUser(s)
      BY <3>1 DEF CreateUser, Inserted, request
    <3>2. CASE CreateWallet(s)
      BY <3>2 DEF CreateWallet, Inserted, request
    <3>3. CASE CreateAsset(s)
      BY <3>3 DEF CreateAsset, Inserted, request
    <3>4. CASE CreateRefused(s)
      BY <3>4 DEF CreateRefused, tables, request
    <3>5. CASE CreateFails(s)
      BY <3>5 DEF CreateFails, tables, request
    <3> QED BY <2>2, <3>1, <3>2, <3>3, <3>4, <3>5 DEF CreateUserWithWallet
  <2>3. CASE FindForLogin(s)
    BY <2>3 DEF FindForLogin, tables, request
  <2>4. CASE GenerateTokenPair(s)
    <3>1. [user |-> user[s], issued |-> now] \in Token
      BY <2>4 DEF GenerateTokenPair, Token
    <3> QED BY <2>4, <3>1 DEF GenerateTokenPair, tables, request
  <2>5. CASE SaveRefreshToken(s)
    <3>1. minted[s] \in Token /\ Fresh \in TokenRow
      BY <2>5, FreshType DEF SaveRefreshToken
    <3> QED BY <2>5, <3>1 DEF SaveRefreshToken, tables, request
  <2>6. CASE SaveFails(s)
    BY <2>6 DEF SaveFails, tables, request
  <2>7. CASE ParseToken(s)
    BY <2>7 DEF ParseToken, tables, request
  <2>8. CASE ValidateRefreshToken(s)
    BY <2>8 DEF ValidateRefreshToken, tables, request
  <2>9. CASE RejectToken(s) \/ RevokeRefreshToken(s) \/ LogoutRevokes(s)
    <3>1. tokens' \in [Token -> TokenRow \cup {NoRow}]
      BY <2>9, RevokeFacts DEF RejectToken, RevokeRefreshToken, LogoutRevokes
    <3> QED BY <2>9, <3>1
            DEF RejectToken, RevokeRefreshToken, LogoutRevokes, tables, request
  <2> QED BY <1>3, <2>1, <2>2, <2>3, <2>4, <2>5, <2>6, <2>7, <2>8, <2>9
          DEF Handler
<1>4. ASSUME NEW s \in Sessions, Receive(s) PROVE (TypeOK /\ Routed)'
  BY <1>4, AccountsAssumption DEF Receive, SetCookie, tables, request
<1>5. ASSUME NEW s \in Sessions, Die(s) PROVE (TypeOK /\ Routed)'
  BY <1>5 DEF Die, tables, request
<1>6. CASE Tick
  BY <1>6, AccountsAssumption DEF Tick, Time, tables, request
<1>7. CASE UNCHANGED vars
  BY <1>7 DEF vars, tables, request
<1> QED BY <1>1, <1>2, <1>3, <1>4, <1>5, <1>6, <1>7
        DEF Next, Finished, Register, Login

\* Every variable keeps its type: in particular whoever rotates or logs out
\* carries a token, and whoever saves or grants one has generated it.
THEOREM TypeCorrect == Spec => []TypeOK
BY TypeInit, TypeStep, PTL DEF Spec

-----------------------------------------------------------------------------
(* Registration.                                                           *)

\* Past its first insert.
Past == {"wallet", "asset", "created"}

\* What a registration has inserted so far is there, and it alone got past
\* the insert of its user.
Inserting ==
  \A s \in Sessions :
    /\ pc[s] \in Past => user[s] \in users
    /\ pc[s] \in {"asset", "created"} => wallet[user[s]] # NoNumber
    /\ pc[s] = "created" => user[s] \in assets

Alone ==
  \A r, s \in Sessions :
    pc[r] \in Past /\ pc[s] \in Past /\ user[r] = user[s] => r = s

\* Only the three inserts take a registration further or change the tables.
LEMMA RegistrationSteps ==
  ASSUME TypeOK, Routed, [Next]_vars
  PROVE  \/ \E s \in Sessions : CreateUser(s) \/ CreateWallet(s) \/ CreateAsset(s)
         \/ /\ UNCHANGED tables
            /\ \A s \in Sessions : pc'[s] \in Past =>
                 pc'[s] = pc[s] /\ user'[s] = user[s]
<1> USE DEF Past, TypeOK, tables, request
<1> DEFINE Kept == /\ UNCHANGED tables
                   /\ \A s \in Sessions : pc'[s] \in Past =>
                        pc'[s] = pc[s] /\ user'[s] = user[s]
<1>1. ASSUME NEW s \in Sessions, NEW what, NEW e, NEW t, NEW to, to \notin Past,
             Send(s, what, e, t, to)
      PROVE  Kept
  BY <1>1 DEF Send
<1>2. ASSUME NEW s \in Sessions, Handler(s),
             ~ (CreateUser(s) \/ CreateWallet(s) \/ CreateAsset(s))
      PROVE  Kept
  <2>1. CASE FindForRegister(s) \/ FindForLogin(s) \/ GenerateTokenPair(s)
    BY <2>1 DEF FindForRegister, FindForLogin, GenerateTokenPair
  <2>2. CASE CreateRefused(s) \/ CreateFails(s)
    BY <2>2 DEF CreateRefused, CreateFails
  <2>3. CASE SaveRefreshToken(s) \/ SaveFails(s) \/ ParseToken(s)
               \/ ValidateRefreshToken(s)
    BY <2>3 DEF SaveRefreshToken, SaveFails, ParseToken, ValidateRefreshToken
  <2>4. CASE RejectToken(s) \/ RevokeRefreshToken(s) \/ LogoutRevokes(s)
    BY <2>4 DEF RejectToken, RevokeRefreshToken, LogoutRevokes
  <2> QED BY <1>2, <2>1, <2>2, <2>3, <2>4 DEF Handler, CreateUserWithWallet
<1>3. ASSUME NEW s \in Sessions, Receive(s) \/ Die(s) PROVE Kept
  BY <1>3 DEF Receive, Die
<1>4. Tick \/ UNCHANGED vars => Kept
  BY DEF Tick, vars
<1> QED BY <1>1, <1>2, <1>3, <1>4
        DEF Next, Finished, Register, Login, RotateRefreshToken, Logout, Handler,
            CreateUserWithWallet

LEMMA RegistrationStep ==
  TypeOK /\ Routed /\ Inserting /\ Alone /\ [Next]_vars => (Inserting /\ Alone)'
<1> SUFFICES ASSUME TypeOK, Routed, Inserting, Alone, [Next]_vars
             PROVE  (Inserting /\ Alone)'
  OBVIOUS
<1> USE DEF Inserting, Alone, Past, TypeOK, Routed, Inserted, request
<1>1. ASSUME NEW s \in Sessions, CreateUser(s) PROVE (Inserting /\ Alone)'
  BY <1>1 DEF CreateUser
<1>2. ASSUME NEW s \in Sessions, CreateWallet(s) PROVE (Inserting /\ Alone)'
  <2>1. PICK n \in Numbers : wallet' = [wallet EXCEPT ![user[s]] = n]
    BY <1>2 DEF CreateWallet
  <2>2. n # NoNumber
    BY AccountsAssumption
  <2> QED BY <1>2, <2>1, <2>2 DEF CreateWallet
<1>3. ASSUME NEW s \in Sessions, CreateAsset(s) PROVE (Inserting /\ Alone)'
  BY <1>3 DEF CreateAsset
<1>4. ASSUME UNCHANGED tables,
             \A s \in Sessions : pc'[s] \in Past =>
               pc'[s] = pc[s] /\ user'[s] = user[s]
      PROVE  (Inserting /\ Alone)'
  BY <1>4 DEF tables
<1> QED BY <1>1, <1>2, <1>3, <1>4, RegistrationSteps

LEMMA RegistrationInvariant == Spec => [](Inserting /\ Alone)
<1>1. Init => Inserting /\ Alone
  BY DEF Init, Inserting, Alone, Past
<1> QED BY <1>1, RegistrationStep, TypeInit, TypeStep, PTL DEF Spec

\* Whoever is told "user registered successfully" has a user, a wallet and an
\* asset, although three inserts without a transaction made them.
THEOREM RegisteredCompletely == Spec => []CreatedIsComplete
<1>1. Inserting => CreatedIsComplete
  BY DEF Inserting, Past, CreatedIsComplete
<1> QED BY <1>1, RegistrationInvariant, PTL

\* However many registrations of an email find nobody, at most one succeeds:
\* the unique email stops the others at their first insert.
THEOREM RegisteredOnce == Spec => []OneRegistration
<1>1. Alone => OneRegistration
  BY DEF Alone, Past, OneRegistration
<1> QED BY <1>1, RegistrationInvariant, PTL

-----------------------------------------------------------------------------
(* Tokens.                                                                 *)

\* The table knows every token that somebody holds, carries or is granted,
\* and what it marks as revoked has been presented.
Known ==
  /\ \A b \in Browsers : cookie[b] # NoToken => Found(cookie[b])
  /\ \A s \in Sessions : carried[s] # NoToken => Found(carried[s])
  /\ \A s \in Sessions : Granted(s) => Found(minted[s])
  /\ \A t \in Token : Revoked(t) => Presented(t)

\* A rotation that saves or grants a token has revoked the one it carries.
Spending ==
  \A s \in Sessions : op[s] = "rotate" =>
    /\ pc[s] \in {"save", "grant", "granted"} => Revoked(carried[s])
    /\ Granted(s) => minted[s] # carried[s]

\* A token belongs to one browser: nobody has one that is still to arrive,
\* no two browsers hold the same, and whoever carries one was sent by the
\* browser that holds it.
Owned ==
  /\ \A s \in Sessions : pc[s] = "grant" =>
       /\ \A b \in Browsers : cookie[b] # minted[s]
       /\ \A r \in Sessions : carried[r] # minted[s]
  /\ \A b, c \in Browsers : cookie[b] = cookie[c] /\ cookie[b] # NoToken => b = c
  /\ \A s \in Sessions, b \in Browsers :
       carried[s] = cookie[b] /\ cookie[b] # NoToken => BrowserOf[s] = b

TokenInv == Known /\ GrantedOnce /\ Spending /\ Owned /\ CookieIsCurrent

Presents(s) == RotateRefreshToken(s) \/ Logout(s)

Revokes(s) == RejectToken(s) \/ RevokeRefreshToken(s) \/ LogoutRevokes(s)

\* The steps that say nothing of tokens: nobody gets to save or grant one, or
\* receives an answer, by them.
Quiet ==
  /\ UNCHANGED <<tokens, cookie, carried, minted>>
  /\ \A s \in Sessions :
       /\ pc'[s] \in {"save", "grant", "granted"} =>
            pc'[s] = pc[s] /\ op'[s] = op[s]
       /\ pc'[s] \in Received => pc[s] \in Received

\* What a step can do to tokens.
LEMMA TokenSteps ==
  ASSUME TypeOK, Routed, [Next]_vars
  PROVE  \/ \E s \in Sessions : \/ Presents(s) \/ GenerateTokenPair(s)
                                \/ SaveRefreshToken(s) \/ Revokes(s) \/ Receive(s)
         \/ Quiet
<1> USE DEF Quiet, TypeOK, Received, tables, request
<1>1. ASSUME NEW s \in Sessions, NEW what, NEW e, Send(s, what, e, NoToken, "find")
      PROVE  Quiet
  <2>1. carried' = carried
    BY <1>1 DEF Send, Routed
  <2> QED BY <1>1, <2>1 DEF Send
<1>2. ASSUME NEW s \in Sessions, CreateUserWithWallet(s) PROVE Quiet
  <2>1. CASE CreateUser(s)
    BY <2>1 DEF CreateUser, Inserted
  <2>2. CASE CreateWallet(s)
    BY <2>2 DEF CreateWallet, Inserted
  <2>3. CASE CreateAsset(s)
    BY <2>3 DEF CreateAsset, Inserted
  <2>4. CASE CreateRefused(s) \/ CreateFails(s)
    BY <2>4 DEF CreateRefused, CreateFails
  <2> QED BY <1>2, <2>1, <2>2, <2>3, <2>4 DEF CreateUserWithWallet
<1>3. ASSUME NEW s \in Sessions,
             \/ FindForRegister(s) \/ FindForLogin(s) \/ SaveFails(s)
             \/ ParseToken(s) \/ ValidateRefreshToken(s)
      PROVE  Quiet
  BY <1>3 DEF FindForRegister, FindForLogin, SaveFails, ParseToken,
              ValidateRefreshToken
<1>4. ASSUME NEW s \in Sessions, Die(s) PROVE Quiet
  BY <1>4 DEF Die
<1>5. Tick \/ UNCHANGED vars => Quiet
  BY DEF Tick, vars
<1> QED BY <1>1, <1>2, <1>3, <1>4, <1>5
        DEF Next, Finished, Register, Login, Handler, Presents, Revokes

\* No step takes a row from the token table or undoes a revocation.
LEMMA TokensStay ==
  ASSUME TypeOK, Routed, [Next]_vars
  PROVE  \A t \in Token : (Found(t) => Found(t)') /\ (Revoked(t) => Revoked(t)')
<1> USE DEF TypeOK, Found, Revoked
<1>1. ASSUME NEW s \in Sessions, SaveRefreshToken(s)
      PROVE  \A t \in Token : (Found(t) => Found(t)') /\ (Revoked(t) => Revoked(t)')
  BY <1>1, FreshType, AccountsAssumption DEF SaveRefreshToken
<1>2. ASSUME NEW s \in Sessions, Revokes(s)
      PROVE  \A t \in Token : (Found(t) => Found(t)') /\ (Revoked(t) => Revoked(t)')
  <2>1. Revoke(carried[s]) \/ UNCHANGED tokens
    BY <1>2 DEF Revokes, RejectToken, RevokeRefreshToken, LogoutRevokes
  <2> QED BY <2>1, RevokeFacts
<1> QED BY <1>1, <1>2, TokenSteps
        DEF Presents, RotateRefreshToken, Logout, Send, GenerateTokenPair, Receive,
            Quiet

\* A revoked token stays revoked: SaveRefreshToken inserts and never updates,
\* and nothing else but a revocation touches the table.
THEOREM RevocationIsFinal == Spec => RevokedForGood
<1>1. TypeOK /\ Routed /\ [Next]_vars =>
        [\A t \in Token : Revoked(t) => Revoked(t)']_vars
  BY TokensStay
<1> QED BY <1>1, TypeInit, TypeStep, PTL DEF Spec, RevokedForGood

LEMMA TokenInit == Init => TokenInv
<1> SUFFICES ASSUME Init PROVE TokenInv
  OBVIOUS
<1>1. Fresh \in TokenRow /\ Fresh.revoked = FALSE
  BY TypeInit, FreshType DEF Fresh
<1>2. \A t \in Token : Found(t) <=> \E b \in Browsers : cookie[b] = t
  BY <1>1, AccountsAssumption DEF Init, Found
<1>3. \A t \in Token : ~ Revoked(t)
  BY <1>1, <1>2 DEF Init, Revoked, Found
<1>4. \A b \in Browsers : cookie[b] # NoToken => cookie[b] \in Token
  BY AccountsAssumption DEF Init
<1> QED BY <1>2, <1>3, <1>4, AccountsAssumption
        DEF Init, TokenInv, Known, GrantedOnce, Granted, Spending, Owned,
            CookieIsCurrent

\* A request that presents its cookie: the token is known, and the browser is
\* the one that holds it.
LEMMA PresentsStep ==
  ASSUME TypeOK, Routed, TokenInv, NEW s \in Sessions, Presents(s)
  PROVE  TokenInv'
<1> USE DEF TypeOK, TokenInv
<1> DEFINE t == cookie[BrowserOf[s]]
<1>1. /\ UNCHANGED <<tokens, cookie, minted>>
      /\ carried' = [carried EXCEPT ![s] = t]
      /\ pc[s] = "idle" /\ carried[s] = NoToken
      /\ t \in Token /\ BrowserOf[s] \in Browsers
    BY AccountsAssumption
       DEF Presents, RotateRefreshToken, Logout, Send, Routed
<1>2. /\ pc'[s] \in {"parse", "logout"}
      /\ \A r \in Sessions : r # s => pc'[r] = pc[r] /\ op'[r] = op[r]
  BY DEF Presents, RotateRefreshToken, Logout, Send
<1>3. Known'
  BY <1>1, <1>2, AccountsAssumption DEF Known, Found, Revoked, Presented, Granted
<1>4. GrantedOnce'
  BY <1>1, <1>2 DEF GrantedOnce, Granted
<1>5. Spending'
  BY <1>1, <1>2 DEF Spending, Granted, Revoked, Found
<1>6. Owned'
  BY <1>1, <1>2 DEF Owned
<1>7. CookieIsCurrent'
  BY <1>1, <1>2 DEF CookieIsCurrent, Found, Revoked, Received
<1> QED BY <1>3, <1>4, <1>5, <1>6, <1>7

\* A new token is nobody's: the insert succeeds only if the table knew no
\* equal one.
LEMMA SaveStep ==
  ASSUME TypeOK, Routed, TokenInv, NEW s \in Sessions, SaveRefreshToken(s)
  PROVE  TokenInv'
<1> USE DEF TypeOK, TokenInv
<1>1. /\ UNCHANGED <<cookie, op, carried, minted>>
      /\ minted[s] \in Token /\ tokens[minted[s]] = NoRow
      /\ tokens' = [tokens EXCEPT ![minted[s]] = Fresh]
      /\ pc[s] = "save" /\ pc'[s] \in {"grant", "deny"}
      /\ \A r \in Sessions : r # s => pc'[r] = pc[r]
  BY DEF SaveRefreshToken, request
<1>2. Fresh \in TokenRow /\ Fresh # NoRow /\ ~ Fresh.revoked
  BY FreshType, AccountsAssumption DEF Fresh
<1>3. /\ Found(minted[s])' /\ ~ Revoked(minted[s])' /\ ~ Found(minted[s])
      /\ \A t \in Token : t # minted[s] =>
           (Found(t)' <=> Found(t)) /\ (Revoked(t)' <=> Revoked(t))
  BY <1>1, <1>2 DEF Found, Revoked
<1>4. Known'
  BY <1>1, <1>3, AccountsAssumption DEF Known, Presented, Granted
<1>5. GrantedOnce'
  BY <1>1, <1>3 DEF GrantedOnce, Granted, Known
<1>6. Spending'
  BY <1>1, <1>3, AccountsAssumption DEF Spending, Granted, Known
<1>7. Owned'
  BY <1>1, <1>3, AccountsAssumption DEF Owned, Known
<1>8. CookieIsCurrent'
  BY <1>1, <1>3 DEF CookieIsCurrent, Received
<1> QED BY <1>4, <1>5, <1>6, <1>7, <1>8

\* A revocation spends the token the request carries, and the browser that
\* holds it still waits for the answer.
LEMMA RevokesStep ==
  ASSUME TypeOK, Routed, TokenInv, NEW s \in Sessions, Revokes(s)
  PROVE  TokenInv'
<1> USE DEF TypeOK, TokenInv
<1>1. /\ UNCHANGED <<cookie, op, carried, minted>>
      /\ pc[s] \in {"reject", "revoke", "logout"}
      /\ \/ pc'[s] = "save" /\ Revoke(carried[s])
         \/ /\ pc'[s] \in {"deny", "bye"}
            /\ Revoke(carried[s]) \/ UNCHANGED tokens
      /\ \A r \in Sessions : r # s => pc'[r] = pc[r]
  BY DEF Revokes, RejectToken, RevokeRefreshToken, LogoutRevokes, request
<1>2. carried[s] \in Token /\ Found(carried[s])
  BY <1>1, AccountsAssumption DEF Routed, Known
<1>3. \A t \in Token :
        /\ Found(t)' <=> Found(t)
        /\ Revoked(t) => Revoked(t)'
        /\ t # carried[s] => (Revoked(t)' <=> Revoked(t))
  BY <1>1, RevokeFacts DEF Found, Revoked
<1>4. pc'[s] = "save" => Revoked(carried[s])'
  BY <1>1, <1>2, RevokeFacts
<1>5. Known'
  BY <1>1, <1>2, <1>3, AccountsAssumption DEF Known, Presented, Granted
<1>6. GrantedOnce'
  BY <1>1 DEF GrantedOnce, Granted
<1>7. Spending'
  BY <1>1, <1>3, <1>4 DEF Spending, Granted
<1>8. Owned'
  BY <1>1 DEF Owned
<1>9. CookieIsCurrent'
  <2> SUFFICES ASSUME NEW b \in Browsers, cookie[b] # NoToken
               PROVE  /\ Found(cookie[b])'
                      /\ Revoked(cookie[b])' =>
                           \E r \in Sessions :
                             /\ BrowserOf[r] = b /\ carried[r] = cookie[b]
                             /\ pc'[r] \notin Received
    BY <1>1 DEF CookieIsCurrent
  <2>1. Found(cookie[b])'
    BY <1>1, <1>3 DEF Known
  <2>2. CASE cookie[b] = carried[s]
    BY <1>1, <2>1, <2>2 DEF Owned, Received
  <2>3. CASE cookie[b] # carried[s]
    BY <1>1, <1>3, <2>1, <2>3 DEF CookieIsCurrent, Received
  <2> QED BY <2>2, <2>3
<1> QED BY <1>5, <1>6, <1>7, <1>8, <1>9

\* An answer arrives: the browser that gets a token held the one the request
\* has spent, if any, and lets go of it.
LEMMA ReceiveStep ==
  ASSUME TypeOK, Routed, TokenInv, NEW s \in Sessions, Receive(s)
  PROVE  TokenInv'
<1> USE DEF TypeOK, TokenInv
<1> DEFINE b == BrowserOf[s]
<1>1. /\ UNCHANGED <<tokens, op, carried, minted>>
      /\ b \in Browsers
      /\ \A c \in Browsers : c # b => cookie'[c] = cookie[c]
      /\ \A r \in Sessions : r # s => pc'[r] = pc[r]
  BY AccountsAssumption DEF Receive, SetCookie, request
<1>2. \/ pc[s] = "grant" /\ pc'[s] = "granted" /\ cookie'[b] = minted[s]
      \/ pc'[s] \in {"denied", "out"} /\ cookie'[b] = NoToken
      \/ /\ pc[s] = "deny" /\ op[s] # "rotate" /\ pc'[s] = "denied"
         /\ cookie' = cookie
  BY AccountsAssumption DEF Receive, SetCookie
<1>3. \A c \in Browsers : cookie'[c] # NoToken =>
        \/ cookie'[c] = cookie[c]
        \/ c = b /\ pc[s] = "grant" /\ cookie'[c] = minted[s]
  BY <1>1, <1>2
<1>4. Known'
  BY <1>1, <1>2, <1>3 DEF Known, Found, Revoked, Presented, Granted
<1>5. GrantedOnce'
  BY <1>1, <1>2 DEF GrantedOnce, Granted
<1>6. Spending'
  BY <1>1, <1>2 DEF Spending, Granted, Revoked, Found
<1>7. Owned'
  <2>1. ASSUME NEW r \in Sessions, pc'[r] = "grant"
        PROVE  /\ \A c \in Browsers : cookie'[c] # minted[r]
               /\ \A q \in Sessions : carried[q] # minted[r]
    <3>1. r # s /\ pc[r] = "grant" /\ minted[r] \in Token
      BY <1>1, <1>2, <2>1
    <3>2. pc[s] = "grant" => minted[s] # minted[r]
      BY <3>1 DEF GrantedOnce, Granted
    <3> QED BY <1>3, <3>1, <3>2, AccountsAssumption DEF Owned
  <2>2. \A c, d \in Browsers :
          cookie'[c] = cookie'[d] /\ cookie'[c] # NoToken => c = d
    BY <1>3 DEF Owned
  <2>3. \A r \in Sessions, c \in Browsers :
          carried[r] = cookie'[c] /\ cookie'[c] # NoToken => BrowserOf[r] = c
    BY <1>3 DEF Owned
  <2> QED BY <1>1, <2>1, <2>2, <2>3 DEF Owned
<1>8. CookieIsCurrent'
  <2> SUFFICES ASSUME NEW c \in Browsers, cookie'[c] # NoToken
               PROVE  /\ Found(cookie'[c])
                      /\ Revoked(cookie'[c]) =>
                           \E r \in Sessions :
                             /\ BrowserOf[r] = c /\ carried[r] = cookie'[c]
                             /\ pc'[r] \notin Received
    BY <1>1 DEF CookieIsCurrent, Found, Revoked
  <2>1. CASE c = b /\ pc[s] = "grant" /\ cookie'[c] = minted[s]
    <3>1. Found(minted[s]) /\ ~ Presented(minted[s]) /\ minted[s] \in Token
      BY <2>1 DEF Known, Granted, Owned, Presented
    <3> QED BY <2>1, <3>1 DEF Known
  <2>2. CASE cookie'[c] = cookie[c] /\ Revoked(cookie[c])
    <3>1. PICK r \in Sessions : /\ BrowserOf[r] = c /\ carried[r] = cookie[c]
                                /\ pc[r] \notin Received
      BY <2>2 DEF CookieIsCurrent
    <3>2. CASE r = s
      <4>1. carried[s] # NoToken /\ c = b
        BY <2>2, <3>1, <3>2
      <4>2. op[s] \in {"rotate", "logout"}
        BY <4>1 DEF Routed
      <4>3. pc[s] = "grant" /\ cookie'[c] = minted[s]
        BY <1>2, <2>2, <4>1, <4>2 DEF Routed
      <4>4. Revoked(minted[s]) /\ minted[s] \in Token
        BY <2>2, <4>3
      <4>5. Presented(minted[s])
        BY <4>4 DEF Known
      <4> QED BY <4>3, <4>5 DEF Owned, Presented
    <3> QED BY <1>1, <2>2, <3>1, <3>2 DEF CookieIsCurrent
  <2> QED BY <1>3, <2>1, <2>2 DEF CookieIsCurrent
<1> QED BY <1>4, <1>5, <1>6, <1>7, <1>8

LEMMA TokenStep == TypeOK /\ Routed /\ TokenInv /\ [Next]_vars => TokenInv'
<1> SUFFICES ASSUME TypeOK, Routed, TokenInv, [Next]_vars PROVE TokenInv'
  OBVIOUS
<1>1. ASSUME NEW s \in Sessions, GenerateTokenPair(s) PROVE TokenInv'
  <2>1. /\ UNCHANGED <<tokens, cookie, op, carried>>
        /\ pc'[s] \in {"save", "revoke"} /\ (pc'[s] = "save" => op[s] # "rotate")
        /\ \A r \in Sessions : r # s => pc'[r] = pc[r] /\ minted'[r] = minted[r]
    BY <1>1 DEF GenerateTokenPair, TypeOK, request
  <2> QED BY <1>1, <2>1 DEF GenerateTokenPair, TypeOK, TokenInv, Known, GrantedOnce,
            Spending, Owned, CookieIsCurrent, Found, Revoked, Presented, Granted,
            Received
<1>2. CASE Quiet
  BY <1>2 DEF Quiet, TokenInv, Known, GrantedOnce, Spending, Owned,
              CookieIsCurrent, Found, Revoked, Presented, Granted
<1> QED BY <1>1, <1>2, TokenSteps, PresentsStep, SaveStep, RevokesStep, ReceiveStep

LEMMA TokenInvariant == Spec => []TokenInv
BY TypeInit, TypeStep, TokenInit, TokenStep, PTL DEF Spec

\* A token that login or rotation grants was saved, and is spoiled by nobody
\* but who presents it.
THEOREM GrantsAreLive == Spec => []GrantedIsLive
<1>1. TypeOK /\ TokenInv => GrantedIsLive
  BY DEF TypeOK, TokenInv, Known, GrantedIsLive, Granted
<1> QED BY <1>1, TypeCorrect, TokenInvariant, PTL

\* No token is granted twice: of two requests that generate the same string,
\* only one can insert it.
THEOREM GrantsDiffer == Spec => []GrantedOnce
<1>1. TokenInv => GrantedOnce
  BY DEF TokenInv
<1> QED BY <1>1, TokenInvariant, PTL

\* RotateRefreshToken answers with a token only after it revoked the one it
\* was given, and with another one.
THEOREM RotationsSpend == Spec => []RotationSpends
<1>1. TokenInv => RotationSpends
  BY DEF TokenInv, Spending, RotationSpends, Granted
<1> QED BY <1>1, TokenInvariant, PTL

\* The cookie of a browser is spent only while the answer to the request that
\* spent it is missing, whatever its tabs do.
THEOREM CookiesAreCurrent == Spec => []CookieIsCurrent
<1>1. TokenInv => CookieIsCurrent
  BY DEF TokenInv
<1> QED BY <1>1, TokenInvariant, PTL

\* Once a rotation is granted, ValidateRefreshToken lets nobody pass with the
\* token it was given.
THEOREM SpentTokensAreRefused == Spec => SpentIsRefused
<1> DEFINE Refused ==
      \A r, s \in Sessions :
        /\ op[r] = "rotate" /\ Granted(r)
        /\ pc[s] = "validate" /\ pc'[s] = "mint"
        => carried[r] # carried[s]
<1>1. TypeOK /\ Routed /\ TokenInv /\ [Next]_vars => [Refused]_vars
  <2> SUFFICES ASSUME TypeOK, TokenInv, Next,
                      NEW r \in Sessions, op[r] = "rotate", Granted(r),
                      NEW s \in Sessions, pc[s] = "validate", pc'[s] = "mint"
               PROVE  carried[r] # carried[s]
    OBVIOUS
  <2>1. Revoked(carried[r])
    BY DEF TokenInv, Spending, Granted
  <2>2. ValidateRefreshToken(s)
    <3> USE DEF TypeOK, tables, request
    <3>1. ASSUME NEW q \in Sessions, Handler(q), ~ ValidateRefreshToken(q)
          PROVE  FALSE
      <4>1. CASE CreateUserWithWallet(q)
        BY <4>1 DEF CreateUserWithWallet, CreateUser, CreateWallet, CreateAsset,
                    CreateRefused, CreateFails, Inserted
      <4>2. CASE FindForRegister(q) \/ FindForLogin(q) \/ GenerateTokenPair(q)
        BY <4>2 DEF FindForRegister, FindForLogin, GenerateTokenPair
      <4>3. CASE SaveRefreshToken(q) \/ SaveFails(q) \/ ParseToken(q)
        BY <4>3 DEF SaveRefreshToken, SaveFails, ParseToken
      <4>4. CASE Revokes(q)
        BY <4>4 DEF Revokes, RejectToken, RevokeRefreshToken, LogoutRevokes
      <4> QED BY <3>1, <4>1, <4>2, <4>3, <4>4 DEF Handler, Revokes
    <3>2. ASSUME NEW q \in Sessions, ValidateRefreshToken(q) PROVE q = s
      BY <3>2 DEF ValidateRefreshToken
    <3>3. ASSUME NEW q \in Sessions, NEW what, NEW e, NEW t, NEW to,
                 Send(q, what, e, t, to), to # "mint"
          PROVE  FALSE
      BY <3>3 DEF Send
    <3>4. ASSUME NEW q \in Sessions, Receive(q) \/ Die(q) PROVE FALSE
      BY <3>4 DEF Receive, Die
    <3>5. ~ (Tick \/ UNCHANGED vars)
      BY DEF Tick, vars
    <3> QED BY <3>1, <3>2, <3>3, <3>4, <3>5
            DEF Next, Finished, Register, Login, RotateRefreshToken, Logout
  <2>3. ~ Revoked(carried[s])
    BY <2>2 DEF ValidateRefreshToken, Valid, Revoked, Goto, TypeOK
  <2> QED BY <2>1, <2>3
<1> QED BY <1>1, TypeInit, TypeStep, TokenInit, TokenStep, PTL
        DEF Spec, SpentIsRefused
=============================================================================
