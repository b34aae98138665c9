------------------------------ MODULE Clients -------------------------------
(***************************************************************************)
(* The clients: the web store front on the real API, and the wallet page   *)
(* of every build.  They share only the stored user, whose identity the    *)
(* one and whose balance the other is about, so a behaviour is about one.  *)
(***************************************************************************)
EXTENDS Storefront, WalletPage

VARIABLE part    \* "store" or "wallet"

clientVars == <<part, vars, walletVars>>

\* The part a behaviour is not about stays as it begins.
ClientsInit ==
  /\ part \in {"store", "wallet"}
  /\ Init /\ (part = "wallet" => follows = "cart")
  /\ WalletInit
  /\ part = "store" => build = "real" /\ \A opening \in Openings : account <= opening

ClientsNext ==
  \/ part = "store" /\ Next /\ UNCHANGED <<part, walletVars>>
  \/ part = "wallet" /\ WalletNext /\ UNCHANGED <<part, vars>>

ClientsSpec == ClientsInit /\ [][ClientsNext]_clientVars /\ Fairness

\* Both parts have the types they are meant to have, no handler is in a step
\* it cannot be in, and neither the cart nor a page has more lines than were
\* ever added.
ClientsTypeOK ==
  /\ part \in {"store", "wallet"}
  /\ TypeOK /\ WalletTypeOK
  /\ Bounded
=============================================================================
