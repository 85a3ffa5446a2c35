-------------------------- MODULE MCWagerService --------------------------
(***************************************************************************)
(* Instances of WagerService for TLC.  A scenario is the set of commands   *)
(* submitted, named by request; each is submitted at any moment.           *)
(***************************************************************************)
EXTENDS WagerServiceBook

Cmd(ext, key, kind, amount, ref) ==
    [ provider |-> "p1", ext |-> ext, key |-> key, wallet |-> "w1", player |-> "alice",
      currency |-> "BRL", round |-> "r1", kind |-> kind, amount |-> amount, ref |-> ref ]

(* One wallet, and two where a scenario needs a second one. *)
OneWallet == {"w1"}
TwoWallets == {"w1", "w2"}
OneOwner == [w1 |-> "alice"]
TwoOwners == [w1 |-> "alice", w2 |-> "bob"]
OneCurrency == [w1 |-> "BRL"]
TwoCurrencies == [w1 |-> "BRL", w2 |-> "BRL"]
Opening2 == [w1 |-> 2]
Opening20 == [w1 |-> 2, w2 |-> 0]

(***************************************************************************)
(* A behaviour of a run submits the commands of one scenario; the other    *)
(* requests are never sent.                                                *)
(***************************************************************************)
SentOf(S) == \A r \in Requests : pc[r] # "idle" => r \in S

(* A bet sent twice, the same key with another payload, and the same external
   id with another key; bets of another player and in another currency, and a
   malformed loss, next to a bet and a win.                                *)
Submissions ==
    [ bet      |-> Cmd("e1", "k1", "BET", 1, NoRef),
      again    |-> Cmd("e1", "k1", "BET", 1, NoRef),
      changed  |-> Cmd("e1", "k1", "BET", 2, NoRef),
      rekeyed  |-> Cmd("e1", "k2", "BET", 1, NoRef),
      win      |-> Cmd("e3", "k3", "WIN", 1, NoRef),
      stranger |-> [Cmd("e4", "k4", "BET", 1, NoRef) EXCEPT !.player = "bob"],
      foreign  |-> [Cmd("e5", "k5", "BET", 1, NoRef) EXCEPT !.currency = "USD"],
      bad      |-> Cmd("e6", "k6", "LOSS", 1, NoRef) ]

Duplicates == {"bet", "again", "changed", "rekeyed"}
Refusals == {"bet", "win", "stranger", "bad"}
Foreign == {"bet", "win", "foreign"}
OneSubmissionScenario == SentOf(Duplicates) \/ SentOf(Refusals) \/ SentOf(Foreign)

(* A refund and a rollback of the same bet, possibly before the bet itself; a
   win that waits for its stake and does not fit in the wallet unless a second
   bet is placed first.                                                    *)
Waits ==
    [ bet      |-> Cmd("e1", "k1", "BET", 2, NoRef),
      refund   |-> Cmd("e2", "k2", "REFUND", 2, "e1"),
      rollback |-> Cmd("e3", "k3", "ROLLBACK", 2, "e1"),
      jackpot  |-> Cmd("e4", "k4", "WIN", 4, "e5"),
      stake    |-> Cmd("e5", "k5", "BET", 1, NoRef),
      second   |-> Cmd("e6", "k6", "BET", 1, NoRef) ]

Reversals == {"bet", "refund", "rollback"}
Overflow == {"jackpot", "stake", "second"}
OneWaitScenario == SentOf(Reversals) \/ SentOf(Overflow)

(* References of references: a win whose rollback may lack the funds, and a
   rollback of that rollback, which is never allowed; a refund of another
   amount, one of another player's bet, and a loss.                        *)
References ==
    [ win      |-> Cmd("e1", "k1", "WIN", 2, NoRef),
      spend    |-> Cmd("e2", "k2", "BET", 3, NoRef),
      rollback |-> Cmd("e3", "k3", "ROLLBACK", 2, "e1"),
      again    |-> Cmd("e4", "k4", "ROLLBACK", 2, "e3"),
      bet      |-> Cmd("e5", "k5", "BET", 2, NoRef),
      partial  |-> Cmd("e6", "k6", "REFUND", 1, "e5"),
      other    |-> [Cmd("e7", "k7", "REFUND", 2, "e5") EXCEPT !.wallet = "w2",
                                                              !.player = "bob"],
      loss     |-> Cmd("e8", "k8", "LOSS", 0, NoRef) ]

Chains == {"win", "spend", "rollback", "again"}
Mismatches == {"bet", "partial", "other"}
Losses == {"bet", "other", "loss"}
OneReferenceScenario ==
    \/ SentOf(Chains) /\ wallets["w2"].version = 0
    \/ SentOf(Mismatches)
    \/ SentOf(Losses)

(* One refund and its bet. *)
Waiting ==
    [ bet      |-> Cmd("e1", "k1", "BET", 2, NoRef),
      refund   |-> Cmd("e2", "k2", "REFUND", 2, "e1") ]

SubmissionsRequests == DOMAIN Submissions
WaitsRequests == DOMAIN Waits
ReferencesRequests == DOMAIN References
WaitingRequests == DOMAIN Waiting
=============================================================================
