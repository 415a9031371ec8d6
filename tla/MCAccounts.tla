----------------------------- MODULE MCAccounts -----------------------------
(* Accounts with one user, who types the name in two ways, and rubbish. *)
EXTENDS Accounts, TLC

CONSTANTS h1, h2, a1, slug, typed, rubbish

MCSlug == [s \in {slug, typed, rubbish} |-> IF s = rubbish THEN Nobody ELSE slug]

MCKeys ==
  ({"login", "reset", "register"} \X {"ip"} \X Addresses)
    \cup ({"login", "reset"} \X {"user"} \X Spellings)

MCLimiter == [k \in MCKeys |-> k[1]]

Symmetry == Permutations(Handlers)

\* An address may log in twice as often as a user.
MCAllowed == [k \in MCKeys |-> IF k[1] = "login" /\ k[2] = "ip" THEN 2 ELSE 1]
=============================================================================
