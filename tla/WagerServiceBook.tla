-------------------------- MODULE WagerServiceBook --------------------------
(***************************************************************************)
(* The refinement mapping from WagerService to WalletBook: the committed   *)
(* tables, read as a book.                                                 *)
(***************************************************************************)
EXTENDS WagerService

openedBar == {w \in Wallets : wallets[w].version > 0}
balanceBar == [w \in Wallets |-> wallets[w].balance]
fateBar == [t \in Requests |-> wagers[t].status]
effectBar == [t \in Requests |-> IF Processed(t) THEN Delta(t) ELSE 0]
undoesBar ==
    [t \in Requests |->
       IF Processed(t) /\ RequiresReference(Command[t].kind) THEN wagers[t].ref ELSE None]

Book == INSTANCE WalletBook WITH
    opened <- openedBar, balance <- balanceBar, fate <- fateBar,
    effect <- effectBar, undoes <- undoesBar

(* Process, the retrier and WalletService.Create implement the book: whatever
   the interleaving, the failures and the retries, the committed tables change
   as if every operation took effect in one step, at most once, within the
   range of Money, and a reversal as the opposite of the one operation it
   names.                                                                  *)
ImplementsBook == Book!Spec
=============================================================================
