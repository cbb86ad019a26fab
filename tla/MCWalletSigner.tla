---------------------------- MODULE MCWalletSigner ---------------------------
(***************************************************************************)
(* Two threads, two wallets, two requests with an authorization each, one  *)
(* that outlives its request and one that expires before it, and a request *)
(* for another token, which no wallet may pay.                             *)
(***************************************************************************)
EXTENDS WalletSigner, TLC

CONSTANTS t1, t2, w1, w2, s1, s2

MCThreads == {t1, t2}
MCWallets == {w1, w2}
MCStores == {s1, s2}
MCRequests == {"r1", "r2", "mainnet"}
MCDevnet == {"r1", "r2"}
MCAuthorizations == {"a1", "a2", "a3"}
MCRequestOf == [a \in MCAuthorizations |->
  CASE a = "a1" -> "r1" [] a = "a2" -> "r2" [] a = "a3" -> "mainnet"]
MCExpiresAt == [a \in MCAuthorizations |-> IF a = "a1" THEN 2 ELSE 1]
MCRequestExpires == [r \in MCRequests |-> IF r = "r1" THEN 1 ELSE 2]

Interchangeable ==
  Permutations(MCThreads) \cup Permutations(MCWallets) \cup Permutations(MCStores)
=============================================================================
