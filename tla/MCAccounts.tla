----------------------------- MODULE MCAccounts ------------------------------
(* Who may open an order, and with whom: the opening of orders, customer     *)
(* verification, sign-in and the accounts of providers, side by side.        *)
(* `part' says which one runs, the others stay as they start.                *)
EXTENDS Opening, Kyc, SignIn, Providers, TLC

VARIABLE part

Parts == {"hosted", "shared", "requests", "days", "wallets", "spending", "providers"}

MCOwner == [l \in Lps |-> None]
MCThresholds == <<1>>
MCLimit == 0 :> 1 @@ 1 :> 2
MCPersonOf == [r \in KycRefs |-> "p"]
Payload(st, sc) == [status |-> st, screening |-> sc, documentFailed |-> FALSE]
MCPayloads == {Payload("Approved", "clear"), Payload("Approved", "none"),
               Payload("Declined", "hit"), Payload("In Progress", "none")}

\* One person on the hosted pages, whose requests reach two instances.
Hosted == INSTANCE Opening WITH Persons <- {"p"}, Flows <- {"TOP_UP"}, MaxLost <- 0, MaxMoves <- 1
\* Two persons who share a provider.
Shared == INSTANCE Opening WITH Sessions <- {}, Instances <- {"i"}, Flows <- {"WITHDRAW"}

\* Requests for a customer that overlap, and a customer over several days.
Requests == INSTANCE Kyc WITH MaxKycMoves <- 1
Days == INSTANCE Kyc WITH KycCalls <- {"k"}

\* Many wallets in a short time, and one challenge over a long time.
Wallet == INSTANCE SignIn WITH MaxTime <- 1
Spending == INSTANCE SignIn WITH MaxChallenges <- 1

MCInit ==
    /\ part \in Parts
    /\ OInit /\ KInit /\ SInit /\ LpInit
    /\ part \notin {"hosted", "shared"} => \A l \in Lps : staked[l] = MinStake
    /\ part \notin {"requests", "days"} => setup = [requireAml |-> TRUE, provider |-> "didit"]
    /\ part # "providers" => \A a \in Applicants : lp[a] = NoLp

MCNext ==
    \/ part = "hosted" /\ Hosted!ONext /\ UNCHANGED <<part, kycVars, signVars, lpVars>>
    \/ part = "shared" /\ Shared!ONext /\ UNCHANGED <<part, kycVars, signVars, lpVars>>
    \/ part = "requests" /\ Requests!KNext /\ UNCHANGED <<part, oVars, signVars, lpVars>>
    \/ part = "days" /\ Days!KNext /\ UNCHANGED <<part, oVars, signVars, lpVars>>
    \/ part = "wallets" /\ Wallet!SNext /\ UNCHANGED <<part, oVars, kycVars, lpVars>>
    \/ part = "spending" /\ Spending!SNext /\ UNCHANGED <<part, oVars, kycVars, lpVars>>
    \/ part = "providers" /\ LpNext /\ UNCHANGED <<part, oVars, kycVars, signVars>>

MCVars == <<part, oVars, kycVars, signVars, lpVars>>
MCSpec == MCInit /\ [][MCNext]_MCVars
=============================================================================
