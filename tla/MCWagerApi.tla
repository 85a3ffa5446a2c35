----------------------------- MODULE MCWagerApi -----------------------------
(* Requests for the run of WagerApi. *)
EXTENDS WagerApi, TLC

Token(provider, roles) ==
    [signed |-> TRUE, type |-> "Bearer", subject |-> "subject", party |-> "client",
     provider |-> provider, roles |-> roles]
ProviderA == Token("a", {"provider"})
ProviderB == Token("b", {"provider"})
Operator == Token(None, {"internal"})
Identity == [ProviderA EXCEPT !.type = "ID"]

Post(token, provider, key, ext, body) ==
    [op |-> "create", token |-> token, provider |-> provider, key |-> key, ext |-> ext, body |-> body]
Get(token) ==
    [op |-> "get", token |-> token, provider |-> None, key |-> None, ext |-> None, body |-> None]
Find(token, provider, ext) ==
    [op |-> "find", token |-> token, provider |-> provider, key |-> None, ext |-> ext, body |-> None]
Open(token, player) ==
    [op |-> "open", token |-> token, provider |-> None, key |-> None, ext |-> None, body |-> player]

(* A transaction sent twice at once, changed under the same key, and under
   another key.                                                            *)
Retried ==
    "same1" :> Post(ProviderA, "a", "k1", "e1", "refund") @@
    "same2" :> Post(ProviderA, "a", "k1", "e1", "refund") @@
    "changed" :> Post(ProviderA, "a", "k1", "e1", "changed") @@
    "rekeyed" :> Post(ProviderA, "a", "k2", "e1", "refund")

(* Another provider, reads, and a wallet opened twice. *)
Mixed ==
    "get" :> Get(ProviderB) @@
    "find" :> Find(ProviderA, "a", "e1") @@
    "open1" :> Open(Operator, "player") @@
    "open2" :> Open(Operator, "player")

(* Requests to refuse. *)
Refused ==
    "foreign" :> Post(ProviderA, "a", "k1", "e1", "foreign") @@
    "posing" :> Post(ProviderA, "b", "k1", "e1", "bet") @@
    "anonymous" :> Post(NoToken, "a", "k1", "e1", "bet") @@
    "keyless" :> Post(ProviderA, "a", None, "e1", "bet") @@
    "internal" :> Post(Operator, "a", "k1", "e1", "bet") @@
    "negative" :> Post(ProviderA, "a", "k1", "e1", "negative") @@
    "garbled" :> Post(ProviderB, "b", "k1", "e1", "garbled") @@
    "debt" :> Open(Operator, "negative") @@
    "identity" :> Get(Identity)

AllRequests == Retried @@ Mixed @@ Refused
AllCalls == DOMAIN AllRequests

(* A behaviour of the run sends the calls of one scenario: three of the ways to
   send a transaction, one with reads, two wallets, or one with a request to
   refuse.                                                                 *)
Scenarios ==
    {S \in SUBSET DOMAIN Retried : Cardinality(S) = 3}
        \cup {{"same1", "get", "find"}, {"open1", "open2"}}
        \cup {{"same1", c} : c \in DOMAIN Refused}
=============================================================================
