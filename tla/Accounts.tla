------------------------------ MODULE Accounts ------------------------------
(***************************************************************************)
(* Registration, login and the life of refresh tokens.  A registration is  *)
(* three inserts without a transaction around them; a login saves a fresh  *)
(* token; a rotation checks, revokes and replaces the token of its cookie; *)
(* a logout revokes it.  Every request is one goroutine, requests          *)
(* interleave at every database call, any call may fail with or without    *)
(* having taken effect, and the tabs of a browser share its cookie.        *)
(*                                                                         *)
(* A token is a signed statement of its user and its expiry in whole       *)
(* seconds, and nothing else: two tokens that one user is given within     *)
(* one second are the same string.                                         *)
(***************************************************************************)
EXTENDS Integers, FiniteSets

CONSTANTS Emails,      \* users; a user's id and email stand for each other
          Numbers,     \* account numbers that may be drawn
          Browsers, Sessions,
          BrowserOf,   \* BrowserOf[s]: the browser that sends request s
          Lifetime,    \* how long a refresh token is good for
          MaxNow,      \* bound: the clock stops here
          Registered,  \* accounts that are complete at the start
          OpenCookie,  \* the cookies at the start
          NoNumber, NoToken, NoRow

Time  == 0 .. MaxNow
Token == [user : Emails, issued : Time]

TokenRow == [revoked : BOOLEAN, expires : 0 .. (MaxNow + Lifetime)]

ASSUME AccountsAssumption ==
  /\ MaxNow \in Nat /\ Lifetime \in Nat \ {0}
  /\ BrowserOf \in [Sessions -> Browsers]
  /\ Registered \in [Emails -> Numbers \cup {NoNumber}]
  /\ \A d, e \in Emails :
       Registered[d] = Registered[e] /\ Registered[d] # NoNumber => d = e
  /\ OpenCookie \in [Browsers -> {t \in Token : t.issued = 0} \cup {NoToken}]
  /\ \A b, c \in Browsers :
       OpenCookie[b] = OpenCookie[c] /\ OpenCookie[b] # NoToken => b = c
  /\ NoNumber \notin Numbers /\ NoToken \notin Token /\ NoRow \notin TokenRow

VARIABLES users,    \* the rows of the table User
          wallet,   \* wallet[e]: the account number of e's Wallet row
          assets,   \* the users with an NGN row in WalletAsset
          tokens,   \* tokens[t]: the row of the table RefreshToken
          now,      \* the clock, in seconds
          cookie,   \* cookie[b]: the refresh_token cookie of browser b
          pc,       \* pc[s]: where request s is
          op,       \* op[s]: what it asks for
          user,     \* user[s]: whose email or token it carries
          carried,  \* carried[s]: the token in its cookie
          minted    \* minted[s]: the token it has generated

tables  == <<users, wallet, assets>>
request == <<op, user, carried>>
vars    == <<tables, tokens, now, cookie, pc, request, minted>>

Working == {"find", "user", "wallet", "asset", "parse", "validate", "reject",
            "mint", "revoke", "save", "logout"}
\* The answers of login, rotation and logout on their way to the browser, and
\* received.
Answers  == {"grant", "deny", "bye"}
Received == {"granted", "denied", "out"}
Pc == {"idle", "created", "exists", "error", "dead"}
        \cup Working \cup Answers \cup Received

TypeOK ==
  /\ users \subseteq Emails
  /\ wallet \in [Emails -> Numbers \cup {NoNumber}]
  /\ assets \subseteq Emails
  /\ tokens \in [Token -> TokenRow \cup {NoRow}]
  /\ now \in Time
  /\ cookie \in [Browsers -> Token \cup {NoToken}]
  /\ pc \in [Sessions -> Pc]
  /\ op \in [Sessions -> {"register", "login", "rotate", "logout", "none"}]
  /\ user \in [Sessions -> Emails \cup {NoToken}]
  /\ carried \in [Sessions -> Token \cup {NoToken}]
  /\ minted \in [Sessions -> Token \cup {NoToken}]
  /\ \A s \in Sessions :
       /\ op[s] \in {"rotate", "logout"} => carried[s] \in Token
       /\ pc[s] \in {"revoke", "save", "grant", "granted"} => minted[s] \in Token

FreshTwice == [revoked |-> FALSE, expires |-> now + Lifetime + Lifetime]

\* The row SaveRefreshToken inserts.
Fresh == [revoked |-> FALSE, expires |-> now + Lifetime]

Init ==
  /\ users = {e \in Emails : Registered[e] # NoNumber}
  /\ wallet = Registered
  /\ assets = users
  /\ now = 0
  /\ cookie = OpenCookie
  /\ tokens = [t \in Token |->
                 IF \E b \in Browsers : cookie[b] = t THEN Fresh ELSE NoRow]
  /\ pc = [s \in Sessions |-> "idle"]
  /\ op = [s \in Sessions |-> "none"]
  /\ user = [s \in Sessions |-> NoToken]
  /\ carried = [s \in Sessions |-> NoToken]
  /\ minted = [s \in Sessions |-> NoToken]

Goto(s, from, to) == pc[s] = from /\ pc' = [pc EXCEPT ![s] = to]

Send(s, what, e, t, to) ==
  /\ Goto(s, "idle", to)
  /\ op' = [op EXCEPT ![s] = what]
  /\ user' = [user EXCEPT ![s] = e]
  /\ carried' = [carried EXCEPT ![s] = t]
  /\ UNCHANGED <<tables, tokens, now, cookie, minted>>

-----------------------------------------------------------------------------
(* Register.                                                               *)

Register(s, e) == Send(s, "register", e, NoToken, "find")

FindForRegisterIdempotent(s) ==
  /\ op[s] = "register"
  /\ \/ user[s] \in users /\ Goto(s, "find", "created")
     \/ Goto(s, "find", "user")
  /\ UNCHANGED <<tables, tokens, now, cookie, request, minted>>

\* A user is found, or none; the error of the lookup is dropped, so that a
\* failed one reads as none.
FindForRegister(s) ==
  /\ op[s] = "register"
  /\ \/ user[s] \in users /\ Goto(s, "find", "exists")
     \/ Goto(s, "find", "user")
  /\ UNCHANGED <<tables, tokens, now, cookie, request, minted>>

\* An insert took effect, and its answer arrived or was lost.
Inserted(s, from, to) == Goto(s, from, to) \/ Goto(s, from, "error")

CreateUser(s) ==
  /\ Inserted(s, "user", "wallet")
  /\ user[s] \notin users
  /\ users' = users \cup {user[s]}
  /\ UNCHANGED <<wallet, assets, tokens, now, cookie, request, minted>>

CreateWallet(s) ==
  /\ Inserted(s, "wallet", "asset")
  /\ wallet[user[s]] = NoNumber
  /\ \E n \in Numbers :
       /\ \A e \in Emails : wallet[e] # n
       /\ wallet' = [wallet EXCEPT ![user[s]] = n]
  /\ UNCHANGED <<users, assets, tokens, now, cookie, request, minted>>

CreateAssetIgnored(s) ==
  /\ Goto(s, "asset", "created")
  /\ \/ assets' = assets \cup {user[s]}
     \/ UNCHANGED assets
  /\ UNCHANGED <<users, wallet, tokens, now, cookie, request, minted>>

CreateAsset(s) ==
  /\ Inserted(s, "asset", "created")
  /\ user[s] \notin assets
  /\ assets' = assets \cup {user[s]}
  /\ UNCHANGED <<users, wallet, tokens, now, cookie, request, minted>>

\* A unique violation, of the email or the account number drawn, is answered
\* "this email is already registered".
CreateRefused(s) ==
  /\ \/ Goto(s, "user", "exists") /\ user[s] \in users
     \/ /\ Goto(s, "wallet", "exists")
        /\ \E e \in Emails : wallet[e] # NoNumber
  /\ UNCHANGED <<tables, tokens, now, cookie, request, minted>>

\* An insert fails; those before it stay.
CreateFails(s) ==
  /\ \E from \in {"user", "wallet", "asset"} : Goto(s, from, "error")
  /\ UNCHANGED <<tables, tokens, now, cookie, request, minted>>

CreateUserWithWallet(s) ==
  CreateUser(s) \/ CreateWallet(s) \/ CreateAsset(s) \/ CreateRefused(s)
    \/ CreateFails(s)

-----------------------------------------------------------------------------
(* Login, and what login and rotation share.                               *)

Login(s, e) == Send(s, "login", e, NoToken, "find")

\* The user is there and the password right, or not.
FindForLogin(s) ==
  /\ op[s] = "login"
  /\ \/ user[s] \in users /\ Goto(s, "find", "mint")
     \/ Goto(s, "find", "deny")
  /\ UNCHANGED <<tables, tokens, now, cookie, request, minted>>

\* A login saves its token; a rotation revokes the old one first.
GenerateTokenPair(s) ==
  /\ Goto(s, "mint", IF op[s] = "login" THEN "save" ELSE "revoke")
  /\ minted' = [minted EXCEPT ![s] = [user |-> user[s], issued |-> now]]
  /\ UNCHANGED <<tables, tokens, now, cookie, request>>

SaveRefreshTokenUpsert(s) ==
  /\ \/ Goto(s, "save", "grant") \/ Goto(s, "save", "deny")
  /\ tokens' = [tokens EXCEPT ![minted[s]] = Fresh]
  /\ UNCHANGED <<tables, now, cookie, request, minted>>

\* The insert took effect, and its answer arrived or was lost.
SaveRefreshToken(s) ==
  /\ \/ Goto(s, "save", "grant") \/ Goto(s, "save", "deny")
  /\ tokens[minted[s]] = NoRow
  /\ tokens' = [tokens EXCEPT ![minted[s]] = Fresh]
  /\ UNCHANGED <<tables, now, cookie, request, minted>>

SaveFailsGranted(s) ==
  /\ Goto(s, "save", "grant")
  /\ UNCHANGED <<tables, tokens, now, cookie, request, minted>>

\* The same token is there already, or the insert fails.
SaveFails(s) ==
  /\ Goto(s, "save", "deny")
  /\ UNCHANGED <<tables, tokens, now, cookie, request, minted>>

-----------------------------------------------------------------------------
(* RotateRefreshToken and Logout.                                          *)

\* The request carries the cookie of its browser; without one it is refused
\* at once.
RotateRefreshToken(s) ==
  LET t == cookie[BrowserOf[s]] IN
  t # NoToken /\ Send(s, "rotate", t.user, t, "parse")

\* jwt.Parse verifies the expiry.
ParseToken(s) ==
  /\ Goto(s, "parse",
          IF now < carried[s].issued + Lifetime THEN "validate" ELSE "deny")
  /\ UNCHANGED <<tables, tokens, now, cookie, request, minted>>

Found(t)   == tokens[t] # NoRow
Revoked(t) == Found(t) /\ tokens[t].revoked

ValidAlways(t) == Found(t)

Valid(t) == Found(t) /\ ~ tokens[t].revoked /\ now < tokens[t].expires

\* The lookup finds a valid row; or it does not, or fails, and the token is
\* revoked on suspicion.
ValidateRefreshToken(s) ==
  /\ \/ Goto(s, "validate", "mint") /\ Valid(carried[s])
     \/ Goto(s, "validate", "reject")
  /\ UNCHANGED <<tables, tokens, now, cookie, request, minted>>

Revoke(t) ==
  tokens' = IF Found(t) THEN [tokens EXCEPT ![t].revoked = TRUE] ELSE tokens

RejectToken(s) ==
  /\ Goto(s, "reject", "deny")
  /\ Revoke(carried[s]) \/ UNCHANGED tokens
  /\ UNCHANGED <<tables, now, cookie, request, minted>>

RevokeIgnored(s) ==
  /\ Goto(s, "revoke", "save")
  /\ Revoke(carried[s]) \/ UNCHANGED tokens
  /\ UNCHANGED <<tables, now, cookie, request, minted>>

\* The old token is revoked; if that fails, or seems to, the rotation does.
RevokeRefreshToken(s) ==
  /\ \/ Goto(s, "revoke", "save") /\ Revoke(carried[s])
     \/ Goto(s, "revoke", "deny") /\ (Revoke(carried[s]) \/ UNCHANGED tokens)
  /\ UNCHANGED <<tables, now, cookie, request, minted>>

Logout(s) ==
  LET t == cookie[BrowserOf[s]] IN
  t # NoToken /\ Send(s, "logout", t.user, t, "logout")

\* The error of the revocation is dropped.
LogoutRevokes(s) ==
  /\ Goto(s, "logout", "bye")
  /\ Revoke(carried[s]) \/ UNCHANGED tokens
  /\ UNCHANGED <<tables, now, cookie, request, minted>>

-----------------------------------------------------------------------------
(* Answers and surroundings.                                               *)

SetCookie(s, t) == cookie' = [cookie EXCEPT ![BrowserOf[s]] = t]

ReceiveKeepsCookie(s) ==
  /\ \/ Goto(s, "grant", "granted") /\ SetCookie(s, minted[s])
     \/ Goto(s, "deny", "denied") /\ UNCHANGED cookie
     \/ Goto(s, "bye", "out") /\ SetCookie(s, NoToken)
  /\ UNCHANGED <<tables, tokens, now, request, minted>>

\* The answer reaches the browser: setRefreshCookie or clearRefreshCookie; a
\* refused login leaves the cookie alone.
Receive(s) ==
  /\ \/ Goto(s, "grant", "granted") /\ SetCookie(s, minted[s])
     \/ /\ Goto(s, "deny", "denied")
        /\ IF op[s] = "rotate" THEN SetCookie(s, NoToken) ELSE UNCHANGED cookie
     \/ Goto(s, "bye", "out") /\ SetCookie(s, NoToken)
  /\ UNCHANGED <<tables, tokens, now, request, minted>>

\* The process dies under a request, or its answer gets lost.
Die(s) ==
  /\ pc[s] \in Working \cup Answers
  /\ pc' = [pc EXCEPT ![s] = "dead"]
  /\ UNCHANGED <<tables, tokens, now, cookie, request, minted>>

Tick ==
  /\ now < MaxNow
  /\ now' = now + 1
  /\ UNCHANGED <<tables, tokens, cookie, pc, request, minted>>

\* Every request is over.
Finished ==
  /\ \A s \in Sessions : pc[s] \notin Working \cup Answers \cup {"idle"}
  /\ UNCHANGED vars

Handler(s) ==
  \/ FindForRegister(s) \/ CreateUserWithWallet(s)
  \/ FindForLogin(s) \/ GenerateTokenPair(s)
  \/ SaveRefreshToken(s) \/ SaveFails(s)
  \/ ParseToken(s) \/ ValidateRefreshToken(s) \/ RejectToken(s)
  \/ RevokeRefreshToken(s) \/ LogoutRevokes(s)

Next ==
  \/ \E s \in Sessions : \/ \E e \in Emails : Register(s, e) \/ Login(s, e)
                         \/ RotateRefreshToken(s) \/ Logout(s)
                         \/ Handler(s) \/ Receive(s) \/ Die(s)
  \/ Tick
  \/ Finished

Spec == Init /\ [][Next]_vars

-----------------------------------------------------------------------------
(* Properties.                                                             *)

Granted(s) == pc[s] \in {"grant", "granted"}

\* Somebody has presented token t: rotation and logout revoke no other.
Presented(t) == \E s \in Sessions : carried[s] = t

\* A client that is told "user registered successfully" has a user, a wallet
\* and an asset row, although CreateUserWithWallet inserts them without a
\* transaction and other registrations run at the same time.
CreatedIsComplete ==
  \A s \in Sessions : pc[s] = "created" =>
    user[s] \in users /\ wallet[user[s]] # NoNumber /\ user[s] \in assets

\* Of several registrations of one email, whose lookups may all have found
\* nobody, at most one is told that it succeeded.
OneRegistration ==
  \A r, s \in Sessions :
    pc[r] = "created" /\ pc[s] = "created" /\ user[r] = user[s] => r = s

\* The token that login or rotation grants is in the table, and good until
\* somebody presents it: no failure, no rotation of another token and no
\* second token of the same second spoils it.
GrantedIsLive ==
  \A s \in Sessions : Granted(s) =>
    Found(minted[s]) /\ (Revoked(minted[s]) => Presented(minted[s]))

\* No two requests are granted the same token, although tokens of one user
\* and one second are the same string.
GrantedOnce ==
  \A r, s \in Sessions :
    Granted(r) /\ Granted(s) /\ minted[r] = minted[s] => r = s

\* A rotation that succeeds has spent the token it was given and returns
\* another one.
RotationSpends ==
  \A s \in Sessions : op[s] = "rotate" /\ Granted(s) =>
    Revoked(carried[s]) /\ minted[s] # carried[s]

\* "token has been revoked or used": once a rotation is granted, the token it
\* was given passes no check any more.  (Two rotations that are checked before
\* either revokes the token are both granted.)
SpentIsRefused ==
  [][\A r, s \in Sessions :
       /\ op[r] = "rotate" /\ Granted(r)
       /\ pc[s] = "validate" /\ pc'[s] = "mint"
       => carried[r] # carried[s]]_vars

\* The browser does not keep a spent token: if the one in its cookie is
\* revoked, the answer to the request that presented it is still to come, or
\* never will, in whatever order the answers to its tabs arrive.
CookieIsCurrent ==
  \A b \in Browsers : cookie[b] # NoToken =>
    /\ Found(cookie[b])
    /\ Revoked(cookie[b]) =>
         \E s \in Sessions : /\ BrowserOf[s] = b /\ carried[s] = cookie[b]
                             /\ pc[s] \notin Received

\* What is revoked stays revoked: no login or rotation brings a token back.
RevokedForGood == [][\A t \in Token : Revoked(t) => Revoked(t)']_vars
=============================================================================
