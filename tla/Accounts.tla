------------------------------ MODULE Accounts ------------------------------
(***************************************************************************)
(* What the wallet service promises: each operation moves an amount from    *)
(* one account to another in one step, or sets an amount of a wallet aside, *)
(* and takes only what is available, or what was set aside.                 *)
(*                                                                          *)
(* Contracts pay into wallets too.  What they paid in late, while another   *)
(* operation worked, that operation may lose: once, and never more than is  *)
(* available.  Wallet.tla implements this with reads, conditional writes    *)
(* and retries.                                                             *)
(***************************************************************************)
EXTENDS Integers

CONSTANTS User,     \* who has a wallet
          Amounts,  \* how much an operation moves
          Opening   \* what each wallet has initially

VARIABLES balance,  \* of each wallet, what is set aside included
          frozen,   \* of each wallet, what is set aside
          late,     \* of each wallet, what contracts paid in, unless it was lost
          system    \* the balances of the bank, of escrow and of fees

vars == <<balance, frozen, late, system>>

Available(u) == balance[u] - frozen[u]
Losable(u)   == {l \in 0..late[u] : l <= Available(u)}

(* The bank owes what two wallets were opened with.                         *)
Init == /\ balance = [u \in User |-> Opening]
        /\ frozen = [u \in User |-> 0]
        /\ late = [u \in User |-> 0]
        /\ system = [bank |-> -2 * Opening, escrow |-> 0, fee |-> 0]

PayIn(u, n, lost) ==
    /\ balance' = [balance EXCEPT ![u] = @ + n - lost]
    /\ late' = [late EXCEPT ![u] = @ - lost]
    /\ system' = [system EXCEPT !.bank = @ - n]
    /\ UNCHANGED frozen

ContractPays(u, n) ==
    /\ balance' = [balance EXCEPT ![u] = @ + n]
    /\ late' = [late EXCEPT ![u] = @ + n]
    /\ system' = [system EXCEPT !.escrow = @ - n]
    /\ UNCHANGED frozen

SetAside(u, n) ==
    /\ Available(u) >= n
    /\ frozen' = [frozen EXCEPT ![u] = @ + n]
    /\ UNCHANGED <<balance, late, system>>

GiveBack(u, n) ==
    /\ frozen[u] >= n
    /\ frozen' = [frozen EXCEPT ![u] = @ - n]
    /\ UNCHANGED <<balance, late, system>>

Withdraw(u, n, lost) ==
    /\ frozen[u] >= n
    /\ frozen' = [frozen EXCEPT ![u] = @ - n]
    /\ balance' = [balance EXCEPT ![u] = @ - n - lost]
    /\ late' = [late EXCEPT ![u] = @ - lost]
    /\ system' = [system EXCEPT !.bank = @ + n]

PayOver(u, v, n, lost) ==
    /\ frozen[u] >= n
    /\ frozen' = [frozen EXCEPT ![u] = @ - n]
    /\ balance' = [balance EXCEPT ![u] = @ - n, ![v] = @ + n - lost]
    /\ late' = [late EXCEPT ![v] = @ - lost]
    /\ UNCHANGED system

TakeFee(u, n, lost) ==
    /\ Available(u) - lost >= n
    /\ balance' = [balance EXCEPT ![u] = @ - n - lost]
    /\ late' = [late EXCEPT ![u] = @ - lost]
    /\ system' = [system EXCEPT !.fee = @ + n]
    /\ UNCHANGED frozen

Operation ==
    \E u \in User, n \in Amounts :
        \/ ContractPays(u, n) \/ SetAside(u, n) \/ GiveBack(u, n)
        \/ \E lost \in Losable(u) :
              \/ PayIn(u, n, lost) \/ Withdraw(u, n, lost) \/ TakeFee(u, n, lost)
              \/ \E v \in User \ {u} : PayOver(v, u, n, lost)

(* A step that changes nothing need not be compared with the operations.    *)
Next == vars' # vars /\ Operation

Spec == Init /\ [][Next]_vars
=============================================================================
