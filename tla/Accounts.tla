------------------------------ MODULE Accounts ------------------------------
(***************************************************************************)
(* The public endpoints of accounts, Register, Login and ResetPassword, as   *)
(* they are served concurrently behind the limiters: each handler makes its  *)
(* calls to RateLimit and to the WindowLimiters one at a time, with the       *)
(* queries in between.  Whether a password or the three recovery factors are  *)
(* right is a choice; of the users only who is registered is kept.            *)
(***************************************************************************)
EXTENDS Limiters

CONSTANTS
  Handlers,   \* requests being served at once
  Spellings,  \* user names as they are typed
  Slug,       \* what normalize_username makes of them
  Nobody      \* the slug of rubbish, and no request

AccountKeys ==
  ({"login", "reset", "register"} \X {"ip"} \X Addresses)
    \cup ({"login", "reset"} \X {"user"} \X Spellings)

ASSUME AccountAssumption ==
  /\ IsFiniteSet(Handlers)
  /\ Slug \in [Spellings -> Spellings \cup {Nobody}] /\ Nobody \notin Spellings \cup Addresses
  /\ Keys = AccountKeys
  /\ Limiter = [k \in Keys |-> k[1]]

VARIABLES
  at,          \* where the handler is in its code
  from, name,  \* the address of its request and the user name in it
  passed,      \* okIP of ResetPassword
  users,       \* registered, by their slugs
  failed       \* history: attempts on a key since it was cleared that came to nothing

requests == <<at, from, name, passed>>
vars == <<limiters, requests, users, failed>>

----------------------------------------------------------------------------
Address(endpoint, h) == <<endpoint, "ip", from[h]>>

\* The bucket of the user an attempt is charged to.
Charged(endpoint, h) == <<endpoint, "user", Slug[name[h]]>>

\* Mutant of Cleared: the bucket of the name as it was typed.
ClearedAsTyped(endpoint, h) == <<endpoint, "user", name[h]>>

\* The bucket that a success clears.
Cleared(endpoint, h) == <<endpoint, "user", Slug[name[h]]>>

Goto(h, place) == at' = [at EXCEPT ![h] = place] /\ UNCHANGED <<from, name, passed>>

Answer(h) ==
  /\ at' = [at EXCEPT ![h] = "idle"]
  /\ from' = [from EXCEPT ![h] = Nobody]
  /\ name' = [name EXCEPT ![h] = Nobody]
  /\ passed' = [passed EXCEPT ![h] = FALSE]

\* An error on the way, or the name does not survive its normalisation.
Reject(h) == Answer(h) /\ UNCHANGED <<limiters, users, failed>>

Fails(k) == failed' = [failed EXCEPT ![k] = @ + 1]
Forgiven(k) == failed' = [failed EXCEPT ![k] = 0]

\* A request for one of these endpoints, or for any other, comes in by RateLimit.
Arrive(h, a) ==
  /\ at[h] = "idle"
  /\ Request(a)
  /\ \/ /\ Passes(a)
        /\ \E place \in {"register", "login", "reset"}, s \in Spellings :
             /\ at' = [at EXCEPT ![h] = place]
             /\ from' = [from EXCEPT ![h] = a]
             /\ name' = [name EXCEPT ![h] = s]
        /\ UNCHANGED passed
     \/ UNCHANGED requests
  /\ UNCHANGED <<users, failed>>

----------------------------------------------------------------------------
(* Register *)

\* The limiter comes before the fields are looked at.
RegisterAddress(h) ==
  LET k == Address("register", h) IN
  /\ at[h] = "register"
  /\ Allow(k)
  /\ \/ Granted(k) /\ Slug[name[h]] # Nobody /\ Goto(h, "insert")
     \/ Answer(h)
  /\ UNCHANGED <<users, failed>>

\* CreateUser: the unique index refuses a name that is taken.
RegisterInsert(h) ==
  /\ at[h] = "insert"
  /\ users' \in {users, users \cup {Slug[name[h]]}}
  /\ Answer(h)
  /\ UNCHANGED <<limiters, failed>>

----------------------------------------------------------------------------
(* Login *)

\* A blocked address does not get as far as the database.
LoginAddress(h) ==
  LET k == Address("login", h) IN
  /\ at[h] = "login"
  /\ Allow(k)
  /\ IF Granted(k) THEN Goto(h, "login name") ELSE Answer(h)
  /\ UNCHANGED <<users, failed>>

LoginName(h) ==
  LET k == Charged("login", h) IN
  /\ at[h] = "login name"
  /\ \/ Reject(h)
     \/ /\ Slug[name[h]] # Nobody
        /\ Allow(k)
        /\ IF Granted(k) THEN Goto(h, "login password") /\ UNCHANGED failed
                         ELSE Answer(h) /\ Fails(k)
        /\ UNCHANGED users

\* The hash is read and the password verified against it.
LoginPassword(h) ==
  /\ at[h] = "login password"
  /\ \/ /\ Slug[name[h]] \in users
        /\ Goto(h, "login done")
        /\ UNCHANGED failed
     \/ Answer(h) /\ Fails(Charged("login", h))
  /\ UNCHANGED <<limiters, users>>

LoginDone(h) ==
  /\ at[h] = "login done"
  /\ Clear(Cleared("login", h))
  /\ Answer(h)
  /\ Forgiven(Charged("login", h))
  /\ UNCHANGED users

----------------------------------------------------------------------------
(* ResetPassword *)

\* The name comes first here, and a blocked address is charged to the user too.
ResetAddress(h) ==
  LET k == Address("reset", h) IN
  /\ at[h] = "reset"
  /\ \/ Reject(h)
     \/ /\ Slug[name[h]] # Nobody
        /\ Allow(k)
        /\ passed' = [passed EXCEPT ![h] = Granted(k)]
        /\ at' = [at EXCEPT ![h] = "reset name"]
        /\ UNCHANGED <<from, name, users, failed>>

ResetName(h) ==
  LET k == Charged("reset", h) IN
  /\ at[h] = "reset name"
  /\ Allow(k)
  /\ IF passed[h] /\ Granted(k) THEN Goto(h, "reset factors") /\ UNCHANGED failed
                                ELSE Answer(h) /\ Fails(k)
  /\ UNCHANGED users

\* The bucket is cleared once the factors match, before the new hash is stored.
ResetFactors(h) ==
  /\ at[h] = "reset factors"
  /\ \/ /\ Slug[name[h]] \in users
        /\ Clear(Cleared("reset", h))
        /\ Goto(h, "update")
        /\ Forgiven(Charged("reset", h))
     \/ Answer(h) /\ Fails(Charged("reset", h)) /\ UNCHANGED limiters
  /\ UNCHANGED users

\* UpdatePasswordHash, which may fail; nothing here depends on the password.
ResetUpdate(h) ==
  /\ at[h] = "update"
  /\ Reject(h)

----------------------------------------------------------------------------
Init ==
  /\ LimitersInit
  /\ at = [h \in Handlers |-> "idle"]
  /\ from = [h \in Handlers |-> Nobody]
  /\ name = [h \in Handlers |-> Nobody]
  /\ passed = [h \in Handlers |-> FALSE]
  /\ users = {}
  /\ failed = [k \in Keys |-> 0]

Serve(h) ==
  \/ RegisterAddress(h) \/ RegisterInsert(h)
  \/ LoginAddress(h) \/ LoginName(h) \/ LoginPassword(h) \/ LoginDone(h)
  \/ ResetAddress(h) \/ ResetName(h) \/ ResetFactors(h) \/ ResetUpdate(h)

Next ==
  \/ \E h \in Handlers :
       \/ \E a \in Addresses : Arrive(h, a)
       \/ Serve(h)
  \/ (DropOld \/ Pass) /\ UNCHANGED <<requests, users, failed>>

Spec == Init /\ [][Next]_vars

----------------------------------------------------------------------------
\* The type invariant.
TypeOK ==
  /\ LimitersTypeOK
  /\ at \in [Handlers -> {"idle", "register", "insert", "login", "login name", "login password",
                          "login done", "reset", "reset name", "reset factors", "update"}]
  /\ from \in [Handlers -> Addresses \cup {Nobody}]
  /\ name \in [Handlers -> Spellings \cup {Nobody}]
  /\ \A h \in Handlers : at[h] # "idle" => from[h] # Nobody /\ name[h] # Nobody
  /\ passed \in [Handlers -> BOOLEAN]
  /\ users \subseteq Spellings
  /\ failed \in [Keys -> Nat]

\* Attempts on k that are charged and not decided.
Pending(k) ==
  {h \in Handlers : \/ at[h] \in {"login password", "login done"} /\ k = Charged("login", h)
                    \/ at[h] = "reset factors" /\ k = Charged("reset", h)}

\* However they type their name, those who know their password keep their quota
\* (auth.go:247-252): what is charged to a user name are attempts that failed since
\* the last success and attempts still being served.
QuotaIsFailures ==
  \A k \in {"login", "reset"} \X {"user"} \X Spellings :
    hits[k].count <= failed[k] + Cardinality(Pending(k))
=============================================================================
