------------------------------ MODULE Session ------------------------------
(***************************************************************************)
(* A signed-in browser tab of the web, provider and admin apps: the wallet *)
(* the page is connected to, the token in the tab's storage and in the     *)
(* page, the account the page shows, the query cache, and the requests in  *)
(* flight.  The wallet's account may be switched behind the page, a wallet *)
(* session may go stale, the server stops taking a token, the page may be  *)
(* reloaded, and answers to an earlier session arrive during a later one.  *)
(***************************************************************************)
EXTENDS Integers, FiniteSets

CONSTANTS Accounts, MaxTokens, MaxTrouble

VARIABLES kit,          \* the wallet: the account it is on, and whether its session is live
    walletAddr,         \* WalletProvider's address
    attempt,            \* handleConnect in progress
    storage,            \* sessionStorage: lp_jwt, lp_addr, lp_expired
    token, addrShown,   \* AuthProvider's state
    cached,             \* whose data the query cache holds
    flights,            \* requests in flight; "live" while the cache still wants the answer
    accepted,           \* tokens the server takes
    issued, trouble

sessionVars == <<kit, walletAddr, attempt, storage, token, addrShown, cached, flights, accepted, issued, trouble>>

Nobody == "nobody"
NoToken == [acct |-> Nobody, n |-> 0]
AtRest == [at |-> "idle", addr |-> Nobody, signer |-> Nobody]
EmptyStorage == [jwt |-> NoToken, addr |-> Nobody, expired |-> FALSE]

\* What the gate around every page lets through.
AppGate == IF token = NoToken THEN "login" ELSE "pages"

----------------------------------------------------------------------------
(* Connecting and signing in.                                              *)

PressConnect ==
    /\ AppGate = "login"
    /\ attempt = AtRest
    /\ attempt' = IF walletAddr = Nobody THEN [AtRest EXCEPT !.at = "modal"]
                  ELSE [AtRest EXCEPT !.at = "challenge", !.addr = walletAddr]
    /\ UNCHANGED <<kit, walletAddr, storage, token, addrShown, cached, flights, accepted, issued, trouble>>

\* The modal closes on a wallet and its address is read; a stale session is
\* cleared and the connection attempted a second time.
Connect ==
    /\ attempt.at = "modal"
    /\ kit' = [kit EXCEPT !.live = TRUE]
    /\ walletAddr' = kit.on
    /\ attempt' = [attempt EXCEPT !.at = "challenge", !.addr = kit.on]
    /\ UNCHANGED <<storage, token, addrShown, cached, flights, accepted, issued, trouble>>

Challenge ==
    /\ attempt.at = "challenge"
    /\ attempt' = [attempt EXCEPT !.at = "sign"]
    /\ UNCHANGED <<kit, walletAddr, storage, token, addrShown, cached, flights, accepted, issued, trouble>>

\* The wallet signs as the account it is on.
SignMessage ==
    /\ attempt.at = "sign"
    /\ kit.live
    /\ attempt' = [attempt EXCEPT !.at = "verify", !.signer = kit.on]
    /\ UNCHANGED <<kit, walletAddr, storage, token, addrShown, cached, flights, accepted, issued, trouble>>

ForgetSessionOnly == UNCHANGED walletAddr
ForgetWallet == walletAddr' = Nobody

\* A stale wallet session is cleared, and the page forgets its wallet.
SignStale ==
    /\ attempt.at = "sign"
    /\ ~kit.live
    /\ ForgetWallet
    /\ attempt' = AtRest
    /\ UNCHANGED <<kit, storage, token, addrShown, cached, flights, accepted, issued, trouble>>

\* A page's transaction meets the stale session: the page forgets its wallet
\* and stays signed in.
SignTransactionStale ==
    /\ AppGate = "pages"
    /\ ~kit.live
    /\ ForgetWallet
    /\ UNCHANGED <<kit, attempt, storage, token, addrShown, cached, flights, accepted, issued, trouble>>

\* The user declines, a step times out, or the network drops it.
AttemptFails ==
    /\ attempt # AtRest
    /\ trouble < MaxTrouble
    /\ trouble' = trouble + 1
    /\ attempt' = AtRest
    /\ UNCHANGED <<kit, walletAddr, storage, token, addrShown, cached, flights, accepted, issued>>

VerifyRefused ==
    /\ attempt.at = "verify"
    /\ attempt.signer # attempt.addr
    /\ attempt' = AtRest
    /\ UNCHANGED <<kit, walletAddr, storage, token, addrShown, cached, flights, accepted, issued, trouble>>

Login ==
    /\ attempt.at = "verify"
    /\ attempt.signer = attempt.addr
    /\ issued < MaxTokens
    /\ LET t == [acct |-> attempt.addr, n |-> issued + 1]
       IN  /\ accepted' = accepted \cup {t}
           /\ storage' = [jwt |-> t, addr |-> attempt.addr, expired |-> FALSE]
           /\ token' = t
    /\ addrShown' = attempt.addr
    /\ issued' = issued + 1
    /\ attempt' = AtRest
    /\ UNCHANGED <<kit, walletAddr, cached, flights, trouble>>

----------------------------------------------------------------------------
(* Ending a session.                                                       *)

Logout(flag) ==
    /\ storage' = [EmptyStorage EXCEPT !.expired = flag]
    /\ token' = NoToken
    /\ addrShown' = Nobody
    /\ cached' = Nobody

Unwanted(fs) == {[f EXCEPT !.live = FALSE] : f \in fs}

Disconnect ==
    /\ token # NoToken
    /\ walletAddr' = Nobody
    /\ Logout(storage.expired)
    /\ flights' = Unwanted(flights)
    /\ UNCHANGED <<kit, attempt, accepted, issued, trouble>>

----------------------------------------------------------------------------
(* Requests.                                                               *)

Send ==
    /\ AppGate = "pages"
    /\ flights' = flights \cup {[jwt |-> storage.jwt, live |-> TRUE]}
    /\ UNCHANGED <<kit, walletAddr, attempt, storage, token, addrShown, cached, accepted, issued, trouble>>

Answered(f) ==
    /\ f.jwt \in accepted
    /\ cached' = IF f.live THEN f.jwt.acct ELSE cached
    /\ flights' = flights \ {f}
    /\ UNCHANGED <<kit, walletAddr, attempt, storage, token, addrShown, accepted, issued, trouble>>

Ends(f) == storage.jwt = f.jwt

\* A 401 ends the session only while the token it was sent with is still the
\* tab's token.
Refused(f) ==
    /\ f.jwt \notin accepted
    /\ IF Ends(f)
       THEN Logout(TRUE) /\ flights' = Unwanted(flights \ {f})
       ELSE UNCHANGED <<storage, token, addrShown, cached>> /\ flights' = flights \ {f}
    /\ UNCHANGED <<kit, walletAddr, attempt, accepted, issued, trouble>>

----------------------------------------------------------------------------
(* The surroundings.                                                       *)

Moves == trouble < MaxTrouble /\ trouble' = trouble + 1

TokenExpires ==
    /\ Moves
    /\ \E t \in accepted : accepted' = accepted \ {t}
    /\ UNCHANGED <<kit, walletAddr, attempt, storage, token, addrShown, cached, flights, issued>>

WalletChanges ==
    /\ Moves
    /\ \/ \E a \in Accounts \ {kit.on} : kit' = [kit EXCEPT !.on = a]
       \/ kit.live /\ kit' = [kit EXCEPT !.live = FALSE]
    /\ UNCHANGED <<walletAddr, attempt, storage, token, addrShown, cached, flights, accepted, issued>>

\* The page starts over from the tab's storage.
Reload ==
    /\ Moves
    /\ walletAddr' = Nobody
    /\ attempt' = AtRest
    /\ token' = storage.jwt
    /\ addrShown' = storage.addr
    /\ cached' = Nobody
    /\ flights' = {}
    /\ UNCHANGED <<kit, storage, accepted, issued>>

SessionInit ==
    /\ kit \in [on : Accounts, live : {TRUE}]
    /\ walletAddr = Nobody
    /\ attempt = AtRest
    /\ storage = EmptyStorage
    /\ token = NoToken
    /\ addrShown = Nobody
    /\ cached = Nobody
    /\ flights = {}
    /\ accepted = {}
    /\ issued = 0
    /\ trouble = 0

SessionNext ==
    \/ PressConnect
    \/ Connect
    \/ Challenge
    \/ SignMessage
    \/ SignStale
    \/ SignTransactionStale
    \/ AttemptFails
    \/ VerifyRefused
    \/ Login
    \/ Disconnect
    \/ Send
    \/ \E f \in flights : Answered(f) \/ Refused(f)
    \/ TokenExpires
    \/ WalletChanges
    \/ Reload

SessionSpec == SessionInit /\ [][SessionNext]_sessionVars

\* A user who wants in presses the button again and answers the wallet; the
\* network and the server do their part.
SessionFairness ==
    /\ WF_sessionVars(PressConnect)
    /\ WF_sessionVars(Connect)
    /\ WF_sessionVars(Challenge)
    /\ WF_sessionVars(SignMessage \/ SignStale)
    /\ WF_sessionVars(Login \/ VerifyRefused)

SessionFairSpec == SessionSpec /\ SessionFairness

----------------------------------------------------------------------------
(* A user who keeps trying gets in.  The only way to stay out is a wallet  *)
(* switched to another account than the one the page still remembers.      *)
SignInIsReached ==
    <>[](token = NoToken /\ issued < MaxTokens) => <>[](walletAddr \notin {Nobody, kit.on})
=============================================================================
