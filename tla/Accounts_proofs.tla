-------------------------- MODULE Accounts_proofs --------------------------
(***************************************************************************)
(* Proofs about Accounts, for any number of requests served at once, any     *)
(* addresses, names and quotas: what is charged to a user name is no more    *)
(* than the attempts that failed since the last success and those that are    *)
(* still being served.  A step of a handler moves at most one attempt: it     *)
(* charges it, lets it fail or forgives all of them with a success.           *)
(***************************************************************************)
EXTENDS Accounts, FiniteSetTheorems, TLAPS

UserKeys == {"login", "reset"} \X {"user"} \X Spellings

Deciding == {"login password", "login done", "reset factors"}

\* Past the checks of its name, a request has the name of a user.
Named == Deciding \cup {"reset name", "insert"}

NamesUsers == \A h \in Handlers : at[h] \in Named => Slug[name[h]] \in Spellings

IInv == TypeOK /\ NamesUsers /\ QuotaIsFailures

LEMMA Constants ==
  /\ Window \in Nat /\ Minute \in Nat /\ PerMinute \in Nat /\ MaxTime \in Nat /\ MaxCalls \in Nat
  /\ \A k \in Keys : Allowed[k] \in Nat
  /\ UserKeys \subseteq Keys
  /\ \A endpoint \in {"login", "reset", "register"}, a \in Addresses :
       <<endpoint, "ip", a>> \in Keys \ UserKeys
BY LimiterAssumption, AccountAssumption DEF AccountKeys, UserKeys

----------------------------------------------------------------------------
(* The limiters *)

LEMMA CountedTyped ==
  ASSUME now \in Nat, NEW e \in Entry, NEW length \in Nat
  PROVE  Counted(e, length) \in Entry /\ Counted(e, length).count <= e.count + 1
BY DEF Counted, Entry, NoEntry

LEMMA OneMoreTyped ==
  ASSUME NEW n \in Nat, NEW log \in [0 .. n -> Nat] PROVE OneMore(log) \in [0 .. n -> Nat]
BY DEF OneMore

LEMMA LaterTyped ==
  ASSUME NEW n \in Nat, NEW log \in [0 .. n -> Nat] PROVE Later(log) \in [0 .. n -> Nat]
BY DEF Later

\* An attempt counts one more for its key, and for no other.
LEMMA AllowTyped ==
  ASSUME LimitersTypeOK, NEW k \in Keys, Allow(k)
  PROVE  /\ LimitersTypeOK'
         /\ hits'[k].count <= hits[k].count + 1
         /\ \A j \in Keys \ {k} : hits'[j].count <= hits[j].count
<1>1. now \in Nat /\ hits \in [Keys -> Entry] /\ NoEntry \in Entry
  BY Constants DEF LimitersTypeOK, NoEntry, Entry
<1> DEFINE known == IF hits[k] = NoEntry /\ Full(k) THEN Swept(k) ELSE hits
<1>2. known \in [Keys -> Entry] /\ \A j \in Keys : known[j].count <= hits[j].count
  BY <1>1 DEF Swept, NoEntry, Entry
<1>3. hits' = [known EXCEPT ![k] = Counted(hits[k], Window)]
  BY DEF Allow
<1>4. Counted(hits[k], Window) \in Entry /\ Counted(hits[k], Window).count <= hits[k].count + 1
  BY <1>1, CountedTyped, Constants
<1> HIDE DEF known
<1>5. hits' \in [Keys -> Entry]
  BY <1>2, <1>3, <1>4
<1>6. /\ hits'[k].count <= hits[k].count + 1
      /\ \A j \in Keys \ {k} : hits'[j].count <= hits[j].count
  BY <1>2, <1>3, <1>4
<1>7. granted' \in [Keys -> [0 .. Window -> Nat]]
  <2>1. granted \in [Keys -> [0 .. Window -> Nat]]
    BY DEF LimitersTypeOK
  <2> QED
    BY <2>1, OneMoreTyped, Constants DEF Allow
<1>8. calls' \in 0 .. MaxCalls
  BY Constants DEF Allow, LimitersTypeOK
<1>9. LimitersTypeOK'
  BY <1>5, <1>7, <1>8 DEF LimitersTypeOK, Allow
<1> QED
  BY <1>6, <1>9

LEMMA ClearTyped ==
  ASSUME LimitersTypeOK, NEW k \in Keys, Clear(k)
  PROVE  /\ LimitersTypeOK'
         /\ hits'[k].count = 0
         /\ \A j \in Keys \ {k} : hits'[j] = hits[j]
<1>1. hits \in [Keys -> Entry] /\ NoEntry \in Entry /\ NoEntry.count = 0
  BY DEF LimitersTypeOK, NoEntry, Entry
<1>2. hits' = [hits EXCEPT ![k] = NoEntry]
  BY DEF Clear
<1>3. granted' \in [Keys -> [0 .. Window -> Nat]]
  BY DEF LimitersTypeOK, Clear, Empty
<1>4. hits' \in [Keys -> Entry] /\ hits'[k].count = 0 /\ \A j \in Keys \ {k} : hits'[j] = hits[j]
  BY <1>1, <1>2
<1> QED
  BY <1>3, <1>4 DEF LimitersTypeOK, Clear

LEMMA RequestTyped ==
  ASSUME LimitersTypeOK, NEW a \in Addresses, Request(a) PROVE LimitersTypeOK' /\ UNCHANGED hits
<1>1. slots' \in [Addresses -> Entry]
  BY CountedTyped, Constants DEF LimitersTypeOK, Request
<1>2. served' \in [Addresses -> [0 .. Minute -> Nat]]
  <2>1. served \in [Addresses -> [0 .. Minute -> Nat]]
    BY DEF LimitersTypeOK
  <2> QED
    BY <2>1, OneMoreTyped, Constants DEF Request
<1> QED
  BY <1>1, <1>2 DEF LimitersTypeOK, Request

LEMMA TimeTyped ==
  ASSUME LimitersTypeOK, DropOld \/ Pass PROVE LimitersTypeOK' /\ UNCHANGED hits
<1>1. CASE DropOld
  <2>1. NoEntry \in Entry
    BY DEF NoEntry, Entry
  <2> QED
    BY <1>1, <2>1 DEF LimitersTypeOK, DropOld
<1>2. CASE Pass
  <2>1. now' \in 0 .. MaxTime
    BY <1>2, Constants DEF LimitersTypeOK, Pass
  <2>2. served' \in [Addresses -> [0 .. Minute -> Nat]]
    BY <1>2, LaterTyped, Constants DEF LimitersTypeOK, Pass
  <2>3. granted' \in [Keys -> [0 .. Window -> Nat]]
    BY <1>2, LaterTyped, Constants DEF LimitersTypeOK, Pass
  <2> QED
    BY <1>2, <2>1, <2>2, <2>3 DEF LimitersTypeOK, Pass
<1> QED
  BY <1>1, <1>2
----------------------------------------------------------------------------
(* The attempts being served *)

\* Only handler h moves.
OnlyOf(h) == \A g \in Handlers \ {h} : at'[g] = at[g] /\ name'[g] = name[g]

\* The attempts h has pending on k.
Owes(h, k) == IF h \in Pending(k) THEN 1 ELSE 0

LEMMA OwesTyped ==
  ASSUME NEW h, NEW k
  PROVE  /\ Owes(h, k) \in {0, 1} /\ Owes(h, k)' \in {0, 1}
         /\ Owes(h, k) = 1 <=> h \in Pending(k)
         /\ Owes(h, k)' = 1 <=> h \in Pending(k)'
BY DEF Owes

LEMMA FailsTyped ==
  ASSUME TypeOK, NEW k \in Keys, Fails(k)
  PROVE  /\ failed' \in [Keys -> Nat] /\ failed'[k] = failed[k] + 1
         /\ \A j \in Keys \ {k} : failed'[j] = failed[j]
<1>1. failed \in [Keys -> Nat]
  BY DEF TypeOK
<1>2. failed' = [failed EXCEPT ![k] = failed[k] + 1]
  BY DEF Fails
<1>3. failed[k] + 1 \in Nat
  BY <1>1
<1> QED
  BY <1>1, <1>2, <1>3

LEMMA ForgivenTyped ==
  ASSUME TypeOK, NEW k \in Keys, Forgiven(k)
  PROVE  failed' \in [Keys -> Nat] /\ \A j \in Keys \ {k} : failed'[j] = failed[j]
BY DEF TypeOK, Forgiven

LEMMA GotoMoves ==
  ASSUME TypeOK, NEW h \in Handlers, NEW place, Goto(h, place)
  PROVE  OnlyOf(h) /\ at'[h] = place /\ UNCHANGED <<from, name, passed>>
BY DEF TypeOK, Goto, OnlyOf

LEMMA AnswerMoves ==
  ASSUME TypeOK, NEW h \in Handlers, Answer(h)
  PROVE  /\ OnlyOf(h) /\ at'[h] = "idle"
         /\ from' \in [Handlers -> Addresses \cup {Nobody}]
         /\ name' \in [Handlers -> Spellings \cup {Nobody}]
         /\ passed' \in [Handlers -> BOOLEAN]
         /\ \A g \in Handlers : at'[g] # "idle" => from'[g] = from[g] /\ name'[g] = name[g]
BY DEF TypeOK, Answer, OnlyOf

LEMMA PendingTyped == ASSUME NEW k PROVE IsFiniteSet(Pending(k)) /\ Cardinality(Pending(k)) \in Nat
<1>1. Pending(k) \subseteq Handlers
  BY DEF Pending
<1> QED
  BY <1>1, AccountAssumption, FS_Subset, FS_CardinalityType

\* A step of one handler adds one to what is pending, takes one from it, or neither.
LEMMA PendingCounts ==
  ASSUME NEW h \in Handlers, OnlyOf(h), NEW k
  PROVE  Cardinality(Pending(k)') + Owes(h, k)
           = Cardinality(Pending(k)) + Owes(h, k)'
<1> DEFINE others == Pending(k) \ {h}
<1>1. others = Pending(k)' \ {h}
  <2>1. ASSUME NEW g \in Handlers \ {h} PROVE g \in Pending(k) <=> g \in Pending(k)'
    <3>1. at'[g] = at[g] /\ name'[g] = name[g]
      BY DEF OnlyOf
    <3>2. Charged("login", g)' = Charged("login", g) /\ Charged("reset", g)' = Charged("reset", g)
      BY <3>1 DEF Charged
    <3> QED
      BY <3>1, <3>2 DEF Pending
  <2>2. Pending(k) \subseteq Handlers /\ Pending(k)' \subseteq Handlers
    BY DEF Pending
  <2> QED
    BY <2>1, <2>2
<1>2. IsFiniteSet(others) /\ Cardinality(others) \in Nat /\ h \notin others
  BY PendingTyped, FS_Difference, FS_CardinalityType
<1>3. /\ h \in Pending(k) => Pending(k) = others \cup {h}
      /\ h \notin Pending(k) => Pending(k) = others
      /\ h \in Pending(k)' => Pending(k)' = others \cup {h}
      /\ h \notin Pending(k)' => Pending(k)' = others
  BY <1>1
<1> HIDE DEF others
<1>4. Cardinality(others \cup {h}) = Cardinality(others) + 1
  BY <1>2, FS_AddElement
<1>5. Cardinality(Pending(k)) = Cardinality(others) + Owes(h, k)
  <2>1. CASE h \in Pending(k)
    <3>1. Owes(h, k) = 1 /\ Cardinality(Pending(k)) = Cardinality(others \cup {h})
      BY <1>3, <2>1 DEF Owes
    <3> QED
      BY <1>4, <3>1
  <2>2. CASE h \notin Pending(k)
    <3>1. Owes(h, k) = 0 /\ Cardinality(Pending(k)) = Cardinality(others)
      BY <1>3, <2>2 DEF Owes
    <3> QED
      BY <1>2, <3>1
  <2> QED
    BY <2>1, <2>2
<1>6. Cardinality(Pending(k)') = Cardinality(others) + Owes(h, k)'
  <2>1. CASE h \in Pending(k)'
    <3>1. Owes(h, k)' = 1 /\ Cardinality(Pending(k)') = Cardinality(others \cup {h})
      BY <1>3, <2>1 DEF Owes
    <3> QED
      BY <1>4, <3>1
  <2>2. CASE h \notin Pending(k)'
    <3>1. Owes(h, k)' = 0 /\ Cardinality(Pending(k)') = Cardinality(others)
      BY <1>3, <2>2 DEF Owes
    <3> QED
      BY <1>2, <3>1
  <2> QED
    BY <2>1, <2>2
<1> QED
  BY <1>2, <1>5, <1>6, OwesTyped

\* What a step does to the books of one key.
LEMMA Balanced ==
  ASSUME NEW h, NEW k, NEW charged \in {0, 1}, NEW fails \in {0, 1},
         hits[k].count \in Nat, hits'[k].count \in Nat, failed[k] \in Nat,
         hits'[k].count <= hits[k].count + charged, failed'[k] = failed[k] + fails,
         charged + Owes(h, k) <= fails + Owes(h, k)'
  PROVE  hits'[k].count + failed[k] + Owes(h, k) <= hits[k].count + failed'[k] + Owes(h, k)'
BY OwesTyped

\* The books of one step: what a key counts more is failed, or pending with h.
LEMMA QuotaStep ==
  ASSUME TypeOK, TypeOK', QuotaIsFailures, NEW h \in Handlers, OnlyOf(h),
         \A k \in UserKeys :
           \/ hits'[k].count = 0
           \/ hits'[k].count + failed[k] + Owes(h, k)
                <= hits[k].count + failed'[k] + Owes(h, k)'
  PROVE  QuotaIsFailures'
<1> SUFFICES ASSUME NEW k \in UserKeys
             PROVE  hits'[k].count <= failed'[k] + Cardinality(Pending(k)')
  BY DEF QuotaIsFailures, UserKeys
<1>1. /\ hits[k].count \in Nat /\ hits'[k].count \in Nat
      /\ failed[k] \in Nat /\ failed'[k] \in Nat
  BY Constants DEF TypeOK, LimitersTypeOK, Entry
<1>2. Cardinality(Pending(k)) \in Nat
  BY PendingTyped
<1>3. Cardinality(Pending(k)') + Owes(h, k)
        = Cardinality(Pending(k)) + Owes(h, k)'
  BY PendingCounts
<1>4. Cardinality(Pending(k)') \in Nat
  <2>1. Pending(k)' \subseteq Handlers
    BY DEF Pending
  <2> QED
    BY <2>1, AccountAssumption, FS_Subset, FS_CardinalityType
<1>5. hits[k].count <= failed[k] + Cardinality(Pending(k))
  BY DEF QuotaIsFailures, UserKeys
<1>6. CASE hits'[k].count = 0
  BY <1>1, <1>4, <1>6
<1>7. CASE hits'[k].count + failed[k] + Owes(h, k)
             <= hits[k].count + failed'[k] + Owes(h, k)'
  BY <1>1, <1>2, <1>3, <1>4, <1>5, <1>7, OwesTyped
<1> QED
  BY <1>6, <1>7

\* A step that charges no user and decides nothing.
LEMMA QuotaStays ==
  ASSUME TypeOK, TypeOK', QuotaIsFailures, NEW h \in Handlers, OnlyOf(h),
         at[h] \notin Deciding, at'[h] \notin Deciding, UNCHANGED failed,
         \A k \in UserKeys : hits'[k].count <= hits[k].count
  PROVE  QuotaIsFailures'
<1> SUFFICES ASSUME NEW k \in UserKeys
             PROVE  hits'[k].count + failed[k] + Owes(h, k)
                      <= hits[k].count + failed'[k] + Owes(h, k)'
  BY QuotaStep
<1>1. Owes(h, k) = 0 /\ Owes(h, k)' = 0
  BY DEF Owes, Pending, Deciding
<1>2. hits[k].count \in Nat /\ hits'[k].count \in Nat /\ failed[k] \in Nat
  BY Constants DEF TypeOK, LimitersTypeOK, Entry
<1> QED
  BY <1>1, <1>2

LEMMA NamesStay ==
  ASSUME NamesUsers, NEW h \in Handlers, OnlyOf(h),
         at'[h] \in Named => Slug[name'[h]] \in Spellings
  PROVE  NamesUsers'
BY DEF NamesUsers, OnlyOf
----------------------------------------------------------------------------
(* One lemma per step of a handler *)

Places == {"idle", "register", "insert", "login", "login name", "login password",
           "login done", "reset", "reset name", "reset factors", "update"}

LEMMA GotoTyped ==
  ASSUME TypeOK, NEW h \in Handlers, at[h] # "idle", NEW place \in Places, Goto(h, place),
         LimitersTypeOK', users' \subseteq Spellings, failed' \in [Keys -> Nat]
  PROVE  TypeOK'
<1>1. at' \in [Handlers -> Places]
  BY DEF TypeOK, Goto, Places
<1>2. \A g \in Handlers : at'[g] # "idle" => from'[g] # Nobody /\ name'[g] # Nobody
  <2>1. \A g \in Handlers : at'[g] # "idle" => at[g] # "idle"
    BY GotoMoves DEF OnlyOf
  <2>2. UNCHANGED <<from, name>>
    BY DEF Goto
  <2> QED
    BY <2>1, <2>2 DEF TypeOK
<1> QED
  BY <1>1, <1>2 DEF TypeOK, Goto, Places

LEMMA AnswerTyped ==
  ASSUME TypeOK, NEW h \in Handlers, Answer(h),
         LimitersTypeOK', users' \subseteq Spellings, failed' \in [Keys -> Nat]
  PROVE  TypeOK'
<1>1. at' \in [Handlers -> Places]
  BY DEF TypeOK, Answer, Places
<1>2. \A g \in Handlers : at'[g] # "idle" => from'[g] # Nobody /\ name'[g] # Nobody
  BY AnswerMoves DEF TypeOK, OnlyOf
<1> QED
  BY <1>1, <1>2, AnswerMoves DEF TypeOK, Places

\* The keys a handler asks about.
LEMMA KeysTyped ==
  ASSUME IInv, NEW h \in Handlers, at[h] # "idle"
  PROVE  /\ \A endpoint \in {"login", "reset", "register"} :
              Address(endpoint, h) \in Keys \ UserKeys
         /\ Slug[name[h]] \in Spellings \cup {Nobody}
         /\ Slug[name[h]] # Nobody =>
              \A endpoint \in {"login", "reset"} : Charged(endpoint, h) \in UserKeys
<1>1. from[h] \in Addresses /\ name[h] \in Spellings
  BY DEF IInv, TypeOK
<1> QED
  BY <1>1, Constants, AccountAssumption DEF Address, Charged, UserKeys

\* A handler asks about its address and goes on, or answers.
LEMMA AddressKeeps ==
  ASSUME IInv, NEW h \in Handlers, at[h] \in Places \ (Deciding \cup {"idle"}),
         NEW k \in Keys \ UserKeys, Allow(k),
         \/ Answer(h)
         \/ Goto(h, "insert") /\ Slug[name[h]] \in Spellings
         \/ Goto(h, "login name"),
         UNCHANGED <<users, failed>>
  PROVE  IInv'
<1>1. LimitersTypeOK' /\ \A j \in UserKeys : hits'[j].count <= hits[j].count
  BY AllowTyped, Constants DEF IInv, TypeOK
<1>2. TypeOK'
  BY <1>1, GotoTyped, AnswerTyped DEF IInv, TypeOK, Places
<1>3. OnlyOf(h) /\ at'[h] \in {"idle", "insert", "login name"}
  BY GotoMoves, AnswerMoves DEF IInv
<1>4. QuotaIsFailures'
  BY <1>1, <1>2, <1>3, QuotaStays DEF IInv, Deciding
<1>5. at'[h] = "insert" => Slug[name'[h]] \in Spellings
  <2>1. CASE Answer(h)
    BY <2>1, AnswerMoves DEF IInv
  <2>2. CASE Goto(h, "login name")
    <3>1. at'[h] = "login name"
      BY <2>2, GotoMoves DEF IInv
    <3> QED
      BY <3>1
  <2>3. CASE Goto(h, "insert") /\ Slug[name[h]] \in Spellings
    BY <2>3 DEF Goto
  <2> QED
    BY <2>1, <2>2, <2>3
<1>6. NamesUsers'
  BY <1>3, <1>5, NamesStay DEF IInv, Named, Deciding
<1> QED
  BY <1>2, <1>4, <1>6 DEF IInv

LEMMA RejectKeeps ==
  ASSUME IInv, NEW h \in Handlers, at[h] \in Places \ Deciding, Answer(h),
         UNCHANGED <<limiters, failed>>, users' \subseteq Spellings
  PROVE  IInv'
<1>1. LimitersTypeOK' /\ UNCHANGED hits
  BY DEF IInv, TypeOK, LimitersTypeOK, limiters
<1>2. TypeOK'
  BY <1>1, AnswerTyped DEF IInv, TypeOK
<1>3. OnlyOf(h) /\ at'[h] = "idle"
  BY AnswerMoves DEF IInv
<1>4. \A j \in UserKeys : hits'[j].count <= hits[j].count
  <2>1. ASSUME NEW j \in UserKeys PROVE hits[j].count \in Nat
    BY Constants DEF IInv, TypeOK, LimitersTypeOK, Entry
  <2> QED
    BY <1>1, <2>1
<1>5. QuotaIsFailures'
  BY <1>2, <1>3, <1>4, QuotaStays DEF IInv, Deciding
<1>6. NamesUsers'
  BY <1>3, NamesStay DEF IInv, Named, Deciding
<1> QED
  BY <1>2, <1>5, <1>6 DEF IInv

LEMMA RegisterKeeps ==
  ASSUME IInv, NEW h \in Handlers, RegisterAddress(h) \/ RegisterInsert(h)
  PROVE  IInv'
<1>1. CASE RegisterAddress(h)
  <2>1. /\ at[h] = "register" /\ Address("register", h) \in Keys \ UserKeys
        /\ Slug[name[h]] \in Spellings \cup {Nobody}
    BY <1>1, KeysTyped DEF RegisterAddress
  <2> QED
    BY <1>1, <2>1, AddressKeeps DEF RegisterAddress, Places, Deciding
<1>2. CASE RegisterInsert(h)
  <2>1. at[h] = "insert" /\ Slug[name[h]] \in Spellings
    BY <1>2 DEF RegisterInsert, IInv, NamesUsers, Named
  <2> QED
    BY <1>2, <2>1, RejectKeeps DEF RegisterInsert, Places, Deciding, IInv, TypeOK
<1> QED
  BY <1>1, <1>2
\* At the step before, and at the one after, an attempt of h on the user is charged.
Asks(h) == at[h] \in {"login name", "reset name"}

Decides(h, endpoint) ==
  \/ endpoint = "login" /\ at[h] = "login password"
  \/ endpoint = "reset" /\ at[h] = "reset factors"

GoesOn(h, endpoint) ==
  \/ endpoint = "login" /\ Goto(h, "login password")
  \/ endpoint = "reset" /\ Goto(h, "reset factors")

\* A user's bucket is asked; what is refused has failed at once.
LEMMA NameKeeps ==
  ASSUME IInv, NEW h \in Handlers, Asks(h),
         NEW endpoint \in {"login", "reset"}, Slug[name[h]] \in Spellings,
         Allow(Charged(endpoint, h)), UNCHANGED users,
         \/ GoesOn(h, endpoint) /\ UNCHANGED failed
         \/ Answer(h) /\ Fails(Charged(endpoint, h))
  PROVE  IInv'
<1> DEFINE k == Charged(endpoint, h)
<1>1. k \in UserKeys /\ k \in Keys
  BY Constants DEF Charged, UserKeys
<1>2. /\ LimitersTypeOK'
      /\ hits'[k].count <= hits[k].count + 1
      /\ \A j \in Keys \ {k} : hits'[j].count <= hits[j].count
  BY <1>1, AllowTyped DEF IInv, TypeOK
<1>3. failed' \in [Keys -> Nat] /\ users' \subseteq Spellings
  BY <1>1, FailsTyped DEF IInv, TypeOK
<1>4. TypeOK'
  BY <1>2, <1>3, GotoTyped, AnswerTyped DEF IInv, Places, Asks, GoesOn
<1>5. OnlyOf(h)
  BY GotoMoves, AnswerMoves DEF IInv, GoesOn
<1>6. ASSUME NEW j \in UserKeys
      PROVE  hits'[j].count + failed[j] + Owes(h, j)
               <= hits[j].count + failed'[j] + Owes(h, j)'
  <2>1. /\ hits[j].count \in Nat /\ hits'[j].count \in Nat
        /\ failed[j] \in Nat /\ failed'[j] \in Nat
    BY <1>2, <1>3, Constants DEF IInv, TypeOK, LimitersTypeOK, Entry
  <2>2. Owes(h, j) = 0
    BY DEF Owes, Pending, Asks
  <2>3. CASE GoesOn(h, endpoint) /\ UNCHANGED failed
    <3>1. name'[h] = name[h] /\ Decides(h, endpoint)'
      BY <2>3, GotoMoves DEF IInv, Decides, GoesOn
    <3>2. failed'[j] = failed[j]
      BY <2>1, <2>3
    <3>3. CASE j = k
      <4>1. h \in Pending(j)'
        BY <3>1, <3>3 DEF Pending, Charged, Decides
      <4>2. Owes(h, j)' = 1
        BY <4>1 DEF Owes
      <4>3. hits'[j].count <= hits[j].count + 1
        BY <1>2, <3>3
      <4> QED
        BY <2>1, <2>2, <3>2, <4>2, <4>3, Balanced
    <3>4. CASE j # k
      <4>1. hits'[j].count <= hits[j].count
        BY <1>2, <3>4, Constants
      <4> QED
        BY <2>1, <2>2, <3>2, <4>1, OwesTyped, Balanced
    <3> QED
      BY <3>3, <3>4
  <2>4. CASE Answer(h) /\ Fails(k)
    <3>1. Owes(h, j)' = 0
      <4>1. at'[h] = "idle"
        BY <2>4, AnswerMoves DEF IInv
      <4> QED
        BY <4>1 DEF Owes, Pending
    <3>2. CASE j = k
      <4>1. failed'[j] = failed[j] + 1
        BY <1>1, <2>4, <3>2, FailsTyped DEF IInv
      <4>2. hits'[j].count <= hits[j].count + 1
        BY <1>2, <3>2
      <4> QED
        BY <2>1, <2>2, <3>1, <4>1, <4>2, Balanced
    <3>3. CASE j # k
      <4>1. failed'[j] = failed[j] /\ hits'[j].count <= hits[j].count
        BY <1>1, <1>2, <2>4, <3>3, FailsTyped, Constants DEF IInv
      <4> QED
        BY <2>1, <2>2, <3>1, <4>1, Balanced
    <3> QED
      BY <3>2, <3>3
  <2> QED
    BY <2>3, <2>4
<1>7. QuotaIsFailures'
  BY <1>4, <1>5, <1>6, QuotaStep DEF IInv
<1>8. NamesUsers'
  <2>1. at'[h] \in Named => name'[h] = name[h]
    BY GotoMoves, AnswerMoves DEF IInv, Named, Deciding, GoesOn
  <2> QED
    BY <1>5, <2>1, NamesStay DEF IInv
<1> QED
  BY <1>4, <1>7, <1>8 DEF IInv

\* A pending attempt turns out to be wrong.
LEMMA WrongKeeps ==
  ASSUME IInv, NEW h \in Handlers, NEW endpoint \in {"login", "reset"},
         Decides(h, endpoint),
         Answer(h), Fails(Charged(endpoint, h)), UNCHANGED <<limiters, users>>
  PROVE  IInv'
<1> DEFINE k == Charged(endpoint, h)
<1>1. k \in UserKeys /\ k \in Keys
  BY Constants DEF Charged, UserKeys, IInv, NamesUsers, Named, Deciding, Decides
<1>2. LimitersTypeOK' /\ UNCHANGED hits
  BY DEF IInv, TypeOK, LimitersTypeOK, limiters
<1>3. failed' \in [Keys -> Nat] /\ users' \subseteq Spellings
  BY <1>1, FailsTyped DEF IInv, TypeOK
<1>4. TypeOK'
  BY <1>2, <1>3, AnswerTyped DEF IInv
<1>5. OnlyOf(h) /\ at'[h] = "idle"
  BY AnswerMoves DEF IInv
<1>6. ASSUME NEW j \in UserKeys
      PROVE  hits'[j].count + failed[j] + Owes(h, j)
               <= hits[j].count + failed'[j] + Owes(h, j)'
  <2>1. hits[j].count \in Nat /\ failed[j] \in Nat /\ failed'[j] \in Nat
    BY <1>3, Constants DEF IInv, TypeOK, LimitersTypeOK, Entry
  <2>2. Owes(h, j)' = 0
    BY <1>5 DEF Owes, Pending
  <2>3. CASE j = k
    <3>1. Owes(h, j) = 1
      BY <2>3 DEF Owes, Pending, Decides
    <3>2. failed'[j] = failed[j] + 1
      BY <1>1, <2>3, FailsTyped DEF IInv
    <3> QED
      BY <1>2, <2>1, <2>2, <3>1, <3>2, Balanced
  <2>4. CASE j # k
    <3>1. Owes(h, j) = 0
      BY <2>4 DEF Owes, Pending, Charged, Decides
    <3>2. failed'[j] = failed[j]
      BY <1>1, <2>4, FailsTyped, Constants DEF IInv
    <3> QED
      BY <1>2, <2>1, <2>2, <3>1, <3>2, Balanced
  <2> QED
    BY <2>3, <2>4
<1>7. QuotaIsFailures'
  BY <1>4, <1>5, <1>6, QuotaStep DEF IInv
<1>8. NamesUsers'
  BY <1>5, NamesStay DEF IInv, Named, Deciding
<1> QED
  BY <1>4, <1>7, <1>8 DEF IInv

Succeeds(h, endpoint) ==
  \/ endpoint = "login" /\ at[h] = "login done" /\ Answer(h)
  \/ endpoint = "reset" /\ at[h] = "reset factors" /\ Goto(h, "update")

\* A success clears what its user was charged.
LEMMA RightKeeps ==
  ASSUME IInv, NEW h \in Handlers, NEW endpoint \in {"login", "reset"},
         Succeeds(h, endpoint),
         Clear(Cleared(endpoint, h)), Forgiven(Charged(endpoint, h)), UNCHANGED users
  PROVE  IInv'
<1> DEFINE k == Charged(endpoint, h)
<1>1. k \in UserKeys /\ k \in Keys /\ Cleared(endpoint, h) = k
  BY Constants DEF Charged, Cleared, UserKeys, IInv, NamesUsers, Named, Deciding, Succeeds
<1>2. LimitersTypeOK' /\ hits'[k].count = 0 /\ \A j \in Keys \ {k} : hits'[j] = hits[j]
  BY <1>1, ClearTyped DEF IInv, TypeOK
<1>3. failed' \in [Keys -> Nat] /\ users' \subseteq Spellings
  BY <1>1, ForgivenTyped DEF IInv, TypeOK
<1>4. TypeOK'
  BY <1>2, <1>3, GotoTyped, AnswerTyped DEF IInv, Places, Succeeds
<1>5. OnlyOf(h) /\ at'[h] \in {"idle", "update"}
  BY GotoMoves, AnswerMoves DEF IInv, Succeeds
<1>6. ASSUME NEW j \in UserKeys
      PROVE  \/ hits'[j].count = 0
             \/ hits'[j].count + failed[j] + Owes(h, j)
                  <= hits[j].count + failed'[j] + Owes(h, j)'
  <2>1. CASE j = k
    BY <1>2, <2>1
  <2>2. CASE j # k
    <3>1. hits[j].count \in Nat /\ failed[j] \in Nat
      BY Constants DEF IInv, TypeOK, LimitersTypeOK, Entry
    <3>2. Owes(h, j)' = 0 /\ Owes(h, j) = 0
      BY <1>5, <2>2 DEF Owes, Pending, Charged, Succeeds
    <3>3. failed'[j] = failed[j] /\ hits'[j] = hits[j]
      BY <1>1, <1>2, <2>2, ForgivenTyped, Constants DEF IInv
    <3> QED
      BY <3>1, <3>2, <3>3
  <2> QED
    BY <2>1, <2>2
<1>7. QuotaIsFailures'
  BY <1>4, <1>5, <1>6, QuotaStep DEF IInv
<1>8. NamesUsers'
  BY <1>5, NamesStay DEF IInv, Named, Deciding
<1> QED
  BY <1>4, <1>7, <1>8 DEF IInv

LEMMA LoginKeeps ==
  ASSUME IInv, NEW h \in Handlers,
         LoginAddress(h) \/ LoginName(h) \/ LoginPassword(h) \/ LoginDone(h)
  PROVE  IInv'
<1>1. CASE LoginAddress(h)
  <2>1. at[h] \in Places \ (Deciding \cup {"idle"}) /\ Address("login", h) \in Keys \ UserKeys
    BY <1>1, KeysTyped DEF LoginAddress, Places, Deciding
  <2> QED
    BY <1>1, <2>1, AddressKeeps DEF LoginAddress
<1>2. CASE LoginName(h)
  <2>1. at[h] \in Places \ Deciding /\ Asks(h) /\ at[h] # "idle"
    BY <1>2 DEF LoginName, Places, Deciding, Asks
  <2>2. CASE Reject(h)
    BY <2>1, <2>2, RejectKeeps DEF Reject, IInv, TypeOK
  <2>3. CASE ~ Reject(h)
    <3>1. Slug[name[h]] \in Spellings
      BY <1>2, <2>1, <2>3, KeysTyped DEF LoginName
    <3>2. /\ Allow(Charged("login", h)) /\ UNCHANGED users
          /\ \/ GoesOn(h, "login") /\ UNCHANGED failed
             \/ Answer(h) /\ Fails(Charged("login", h))
      BY <1>2, <2>3 DEF LoginName, GoesOn
    <3> QED
      BY <2>1, <3>1, <3>2, NameKeeps
  <2> QED
    BY <2>2, <2>3
<1>3. CASE LoginPassword(h) /\ Answer(h) /\ Fails(Charged("login", h))
  <2>1. Decides(h, "login") /\ UNCHANGED <<limiters, users>>
    BY <1>3 DEF LoginPassword, Decides
  <2> QED
    BY <1>3, <2>1, WrongKeeps
<1>4. CASE LoginPassword(h) /\ Goto(h, "login done") /\ UNCHANGED failed
  <2>1. at[h] = "login password" /\ at'[h] = "login done" /\ OnlyOf(h) /\ name'[h] = name[h]
    BY <1>4, GotoMoves DEF LoginPassword, IInv
  <2>2. LimitersTypeOK' /\ UNCHANGED hits
    BY <1>4 DEF LoginPassword, IInv, TypeOK, LimitersTypeOK, limiters
  <2>3. TypeOK'
    BY <1>4, <2>1, <2>2, GotoTyped DEF LoginPassword, IInv, TypeOK, Places
  <2>4. ASSUME NEW j \in UserKeys
        PROVE  hits'[j].count + failed[j] + Owes(h, j) <= hits[j].count + failed'[j] + Owes(h, j)'
    <3>1. hits[j].count \in Nat /\ failed[j] \in Nat
      BY Constants DEF IInv, TypeOK, LimitersTypeOK, Entry
    <3>2. h \in Pending(j) <=> h \in Pending(j)'
      BY <2>1 DEF Pending, Charged
    <3>3. Owes(h, j)' = Owes(h, j)
      BY <3>2 DEF Owes
    <3>4. UNCHANGED <<hits, failed>>
      BY <1>4, <2>2
    <3> QED
      BY <3>1, <3>3, <3>4, OwesTyped
  <2>5. QuotaIsFailures'
    BY <2>1, <2>3, <2>4, QuotaStep DEF IInv
  <2>6. NamesUsers'
    BY <2>1, NamesStay DEF IInv, NamesUsers, Named, Deciding
  <2> QED
    BY <2>3, <2>5, <2>6 DEF IInv
<1>5. CASE LoginDone(h)
  <2>1. Succeeds(h, "login")
    BY <1>5 DEF LoginDone, Succeeds
  <2> QED
    BY <1>5, <2>1, RightKeeps DEF LoginDone
<1> QED
  BY <1>1, <1>2, <1>3, <1>4, <1>5 DEF LoginPassword

LEMMA ResetKeeps ==
  ASSUME IInv, NEW h \in Handlers,
         ResetAddress(h) \/ ResetName(h) \/ ResetFactors(h) \/ ResetUpdate(h)
  PROVE  IInv'
<1>1. CASE ResetAddress(h) /\ Reject(h)
  <2>1. at[h] \in Places \ Deciding
    BY <1>1 DEF ResetAddress, Places, Deciding
  <2> QED
    BY <1>1, <2>1, RejectKeeps DEF Reject, IInv, TypeOK
<1>2. CASE ResetAddress(h) /\ ~ Reject(h)
  <2> DEFINE k == Address("reset", h)
  <2>1. k \in Keys \ UserKeys /\ Slug[name[h]] \in Spellings /\ at[h] = "reset"
    BY <1>2, KeysTyped DEF ResetAddress
  <2>2. /\ Allow(k) /\ UNCHANGED <<from, name, users, failed>>
        /\ passed' = [passed EXCEPT ![h] = Granted(k)]
        /\ at' = [at EXCEPT ![h] = "reset name"]
    BY <1>2 DEF ResetAddress
  <2> HIDE DEF k
  <2>3. LimitersTypeOK' /\ \A j \in UserKeys : hits'[j].count <= hits[j].count
    BY <2>1, <2>2, AllowTyped, Constants DEF IInv, TypeOK
  <2>4. OnlyOf(h) /\ at'[h] = "reset name" /\ at' \in [Handlers -> Places]
    BY <2>2 DEF IInv, TypeOK, OnlyOf, Places
  <2>5. passed' \in [Handlers -> BOOLEAN]
    <3>1. Granted(k) \in BOOLEAN
      BY DEF Granted
    <3> QED
      BY <2>2, <3>1 DEF IInv, TypeOK
  <2>6. \A g \in Handlers : at'[g] # "idle" => at[g] # "idle"
    BY <2>1, <2>4 DEF OnlyOf
  <2>7. TypeOK'
    BY <2>2, <2>3, <2>4, <2>5, <2>6 DEF IInv, TypeOK, Places
  <2>8. QuotaIsFailures'
    BY <2>1, <2>2, <2>3, <2>4, <2>7, QuotaStays DEF IInv, Deciding
  <2>9. NamesUsers'
    BY <2>1, <2>2, <2>4, NamesStay DEF IInv
  <2> QED
    BY <2>7, <2>8, <2>9 DEF IInv
<1>3. CASE ResetName(h)
  <2>1. Asks(h) /\ Slug[name[h]] \in Spellings /\ Allow(Charged("reset", h)) /\ UNCHANGED users
    BY <1>3 DEF ResetName, Asks, IInv, NamesUsers, Named
  <2>2. \/ GoesOn(h, "reset") /\ UNCHANGED failed
        \/ Answer(h) /\ Fails(Charged("reset", h))
    BY <1>3 DEF ResetName, GoesOn
  <2> QED
    BY <2>1, <2>2, NameKeeps
<1>4. CASE ResetFactors(h)
  <2>1. at[h] = "reset factors" /\ UNCHANGED users
    BY <1>4 DEF ResetFactors
  <2>2. CASE Answer(h) /\ Fails(Charged("reset", h)) /\ UNCHANGED limiters
    <3>1. Decides(h, "reset")
      BY <2>1 DEF Decides
    <3> QED
      BY <2>1, <2>2, <3>1, WrongKeeps
  <2>3. CASE Clear(Cleared("reset", h)) /\ Goto(h, "update") /\ Forgiven(Charged("reset", h))
    <3>1. Succeeds(h, "reset")
      BY <2>1, <2>3 DEF Succeeds
    <3> QED
      BY <2>1, <2>3, <3>1, RightKeeps
  <2> QED
    BY <1>4, <2>2, <2>3 DEF ResetFactors
<1>5. CASE ResetUpdate(h)
  <2>1. at[h] \in Places \ Deciding
    BY <1>5 DEF ResetUpdate, Places, Deciding
  <2> QED
    BY <1>5, <2>1, RejectKeeps DEF ResetUpdate, Reject, IInv, TypeOK
<1> QED
  BY <1>1, <1>2, <1>3, <1>4, <1>5

LEMMA ArriveKeeps ==
  ASSUME IInv, NEW h \in Handlers, NEW a \in Addresses, Arrive(h, a) PROVE IInv'
<1>1. LimitersTypeOK' /\ UNCHANGED <<hits, users, failed>>
  BY RequestTyped DEF Arrive, IInv, TypeOK
<1>2. OnlyOf(h) /\ at[h] = "idle" /\ at'[h] \in {"idle", "register", "login", "reset"}
  BY DEF Arrive, IInv, TypeOK, OnlyOf, requests
<1>3. TypeOK'
  <2>1. CASE UNCHANGED requests
    BY <1>1, <2>1 DEF IInv, TypeOK, requests
  <2>2. CASE ~ UNCHANGED requests
    <3>1. PICK place \in {"register", "login", "reset"}, s \in Spellings :
            /\ at' = [at EXCEPT ![h] = place]
            /\ from' = [from EXCEPT ![h] = a]
            /\ name' = [name EXCEPT ![h] = s]
            /\ UNCHANGED passed
      BY <2>2 DEF Arrive
    <3>2. a # Nobody /\ s # Nobody
      BY AccountAssumption
    <3>3. at' \in [Handlers -> Places]
      BY <3>1 DEF IInv, TypeOK, Places
    <3>4. /\ from' \in [Handlers -> Addresses \cup {Nobody}]
          /\ name' \in [Handlers -> Spellings \cup {Nobody}]
      BY <3>1 DEF IInv, TypeOK
    <3>5. \A g \in Handlers : at'[g] # "idle" => from'[g] # Nobody /\ name'[g] # Nobody
      BY <3>1, <3>2 DEF IInv, TypeOK
    <3> QED
      BY <1>1, <3>1, <3>3, <3>4, <3>5 DEF IInv, TypeOK, Places
  <2> QED
    BY <2>1, <2>2
<1>4. QuotaIsFailures'
  <2>1. \A j \in UserKeys : hits'[j].count <= hits[j].count
    <3> SUFFICES ASSUME NEW j \in UserKeys PROVE hits'[j].count <= hits[j].count
      OBVIOUS
    <3>1. hits[j].count \in Nat
      BY Constants DEF IInv, TypeOK, LimitersTypeOK, Entry
    <3> QED
      BY <1>1, <3>1
  <2> QED
    BY <1>1, <1>2, <1>3, <2>1, QuotaStays DEF IInv, Deciding
<1>5. NamesUsers'
  BY <1>2, NamesStay DEF IInv, Named, Deciding
<1> QED
  BY <1>3, <1>4, <1>5 DEF IInv

\* No request moves and nothing is counted.
LEMMA StandsStill ==
  ASSUME IInv, LimitersTypeOK', UNCHANGED <<hits, requests, users, failed>> PROVE IInv'
BY DEF IInv, TypeOK, NamesUsers, QuotaIsFailures, Pending, Charged, requests

LEMMA Initially == Init => IInv
<1> SUFFICES ASSUME Init PROVE IInv
  OBVIOUS
<1>1. NoEntry \in Entry /\ NoEntry.count = 0
  BY DEF NoEntry, Entry
<1>2. LimitersTypeOK
  BY <1>1, Constants DEF Init, LimitersInit, LimitersTypeOK, Empty
<1>3. TypeOK
  BY <1>2 DEF Init, TypeOK
<1>4. NamesUsers
  BY DEF Init, NamesUsers, Named, Deciding
<1>5. QuotaIsFailures
  <2> SUFFICES ASSUME NEW k \in UserKeys
               PROVE  hits[k].count <= failed[k] + Cardinality(Pending(k))
    BY DEF QuotaIsFailures, UserKeys
  <2>1. hits[k].count = 0 /\ failed[k] = 0
    BY <1>1, Constants DEF Init, LimitersInit
  <2> QED
    BY <2>1, PendingTyped
<1> QED
  BY <1>3, <1>4, <1>5 DEF IInv

LEMMA Inductive == IInv /\ [Next]_vars => IInv'
<1> SUFFICES ASSUME IInv, [Next]_vars PROVE IInv'
  OBVIOUS
<1>1. ASSUME NEW h \in Handlers, NEW a \in Addresses, Arrive(h, a) PROVE IInv'
  BY <1>1, ArriveKeeps
<1>2. ASSUME NEW h \in Handlers, Serve(h) PROVE IInv'
  BY <1>2, RegisterKeeps, LoginKeeps, ResetKeeps DEF Serve
<1>3. CASE (DropOld \/ Pass) /\ UNCHANGED <<requests, users, failed>>
  BY <1>3, TimeTyped, StandsStill DEF IInv, TypeOK
<1>4. CASE UNCHANGED vars
  BY <1>4, StandsStill DEF vars, limiters, IInv, TypeOK, LimitersTypeOK
<1> QED
  BY <1>1, <1>2, <1>3, <1>4 DEF Next

LEMMA Invariant == Spec => []IInv
BY Initially, Inductive, PTL DEF Spec

----------------------------------------------------------------------------
\* Whatever arrives, and whatever the sweeps forget, every counter and every
\* request being served has its type.
THEOREM TypeCorrect == Spec => []TypeOK
<1>1. IInv => TypeOK
  BY DEF IInv
<1> QED
  BY <1>1, Invariant, PTL

\* Those who know their password keep their quota, however they type their name
\* (auth.go:247-252): nothing but failures and attempts being served is charged to it.
THEOREM QuotaKept == Spec => []QuotaIsFailures
<1>1. IInv => QuotaIsFailures
  BY DEF IInv
<1> QED
  BY <1>1, Invariant, PTL

----------------------------------------------------------------------------
(* What a refused caller is told *)

\* The window of a key whose quota is spent is one that RetryAfter speaks of.
Spent(k) == hits[k].count > Allowed[k] /\ ~ Expired(hits[k])

LEMMA SpentCounts ==
  ASSUME LimitersTypeOK, NEW k \in Keys, Spent(k)
  PROVE  /\ hits[k] \in Entry /\ hits[k] # NoEntry /\ now \in Nat /\ hits[k].reset \in Nat
         /\ RetryAfter(k) = hits[k].reset - now
<1>1. hits[k] \in Entry /\ now \in Nat /\ Allowed[k] \in Nat
  BY Constants DEF LimitersTypeOK
<1>2. hits[k] # NoEntry
  BY <1>1 DEF Spent, NoEntry, Entry
<1> QED
  BY <1>1, <1>2 DEF Spent, RetryAfter, Entry

\* It stands while neither the window nor the time changes,
LEMMA SameWindowStands ==
  ASSUME LimitersTypeOK, NEW k \in Keys, Spent(k),
         hits'[k].reset = hits[k].reset, hits'[k] # NoEntry, now' = now
  PROVE  RetryAfter(k)' = RetryAfter(k) - (now' - now)
<1>1. /\ hits[k].reset \in Nat /\ now \in Nat
      /\ RetryAfter(k) = hits[k].reset - now
  BY SpentCounts
<1>2. ~ Expired(hits[k])'
  BY DEF Spent, Expired
<1>3. RetryAfter(k)' = hits[k].reset - now
  BY <1>2 DEF RetryAfter
<1> QED
  BY <1>1, <1>3

\* ... an attempt lengthens no window and sweeps none that counts,
LEMMA AllowStands ==
  ASSUME LimitersTypeOK, NEW k \in Keys, Spent(k), NEW j, Allow(j)
  PROVE  RetryAfter(k)' = RetryAfter(k) - (now' - now)
<1>1. /\ hits[k] \in Entry /\ hits[k] # NoEntry
      /\ hits \in [Keys -> Entry]
  BY SpentCounts DEF LimitersTypeOK
<1> DEFINE known == IF hits[j] = NoEntry /\ Full(j) THEN Swept(j) ELSE hits
<1>2. known[k] = hits[k] /\ DOMAIN known = Keys
  BY <1>1 DEF Swept, Spent
<1>3. hits' = [known EXCEPT ![j] = Counted(hits[j], Window)] /\ now' = now
  BY DEF Allow
<1> HIDE DEF known
<1>4. CASE j # k
  <2>1. hits'[k] = hits[k]
    BY <1>2, <1>3, <1>4
  <2> QED
    BY <1>1, <1>3, <2>1, SameWindowStands
<1>5. CASE j = k
  <2>1. hits'[k] = [hits[k] EXCEPT !.count = @ + 1]
    BY <1>1, <1>2, <1>3, <1>5 DEF Counted, Spent
  <2>2. hits'[k].reset = hits[k].reset /\ hits'[k] # NoEntry
    BY <1>1, <2>1 DEF Entry, NoEntry
  <2> QED
    BY <1>3, <2>2, SameWindowStands
<1> QED
  BY <1>4, <1>5

\* ... and only the key itself is cleared.
LEMMA ClearStands ==
  ASSUME LimitersTypeOK, NEW k \in Keys, Spent(k), NEW j, Clear(j)
  PROVE  \/ hits'[k] = NoEntry /\ granted'[k] = Empty(Window)
         \/ RetryAfter(k)' = RetryAfter(k) - (now' - now)
<1>1. /\ hits \in [Keys -> Entry] /\ DOMAIN granted = Keys
      /\ hits[k] # NoEntry
  BY SpentCounts DEF LimitersTypeOK
<1>2. CASE j = k
  BY <1>1, <1>2 DEF Clear
<1>3. CASE j # k
  <2>1. hits'[k] = hits[k] /\ now' = now
    BY <1>1, <1>3 DEF Clear
  <2> QED
    BY <1>1, <2>1, SameWindowStands
<1> QED
  BY <1>2, <1>3

\* A key whose quota is spent waits for exactly the window it was told, for every
\* cap on the keys, every quota and any number of requests.
THEOREM ToldTheTruth == Spec => RetryAfterStands
<1> DEFINE Stands(k) ==
             \/ hits'[k] = NoEntry /\ granted'[k] = Empty(Window)
             \/ RetryAfter(k)' = RetryAfter(k) - (now' - now)
             \/ now' > hits[k].reset
<1>1. ASSUME IInv, [Next]_vars, NEW k \in Keys, hits[k].count > Allowed[k],
             ~ Expired(hits[k])
      PROVE  Stands(k)
  <2>1. LimitersTypeOK /\ Spent(k)
    BY <1>1 DEF IInv, TypeOK, Spent
  <2>2. /\ hits[k] # NoEntry /\ now \in Nat /\ hits[k].reset \in Nat
        /\ RetryAfter(k) = hits[k].reset - now
    BY <2>1, SpentCounts
  <2>3. ASSUME UNCHANGED <<hits, now>> PROVE Stands(k)
    BY <2>1, <2>2, <2>3, SameWindowStands
  <2>4. ASSUME NEW j, Allow(j) PROVE Stands(k)
    BY <2>1, <2>4, AllowStands
  <2>5. ASSUME NEW j, Clear(j) PROVE Stands(k)
    BY <2>1, <2>5, ClearStands
  <2>6. CASE Pass
    <3>1. now' = now + 1 /\ hits' = hits
      BY <2>6 DEF Pass
    <3>2. CASE now' > hits[k].reset
      BY <3>2
    <3>3. CASE ~ (now' > hits[k].reset)
      <4>1. ~ Expired(hits[k])'
        BY <3>1, <3>3 DEF Expired
      <4>2. RetryAfter(k)' = hits[k].reset - now'
        BY <2>2, <3>1, <4>1 DEF RetryAfter
      <4> QED
        BY <2>2, <3>1, <4>2
    <3> QED
      BY <3>2, <3>3
  <2>7. CASE DropOld
    BY <2>3, <2>7 DEF DropOld
  <2>8. ASSUME NEW h \in Handlers, NEW a \in Addresses, Arrive(h, a) PROVE Stands(k)
    BY <2>3, <2>8 DEF Arrive, Request
  <2>9. ASSUME NEW h \in Handlers, Serve(h)
        PROVE  \/ UNCHANGED <<hits, now>>
               \/ \E j : Allow(j)
               \/ \E j : Clear(j)
    BY <2>9
    DEF Serve, RegisterAddress, RegisterInsert, LoginAddress, LoginName, LoginPassword,
        LoginDone, ResetAddress, ResetName, ResetFactors, ResetUpdate, Reject, limiters
  <2>10. CASE UNCHANGED vars
    BY <2>3, <2>10 DEF vars, limiters
  <2> QED
    BY <1>1, <2>3, <2>4, <2>5, <2>6, <2>7, <2>8, <2>9, <2>10 DEF Next
<1>2. IInv /\ [Next]_vars =>
        [\A k \in Keys :
           hits[k].count > Allowed[k] /\ ~ Expired(hits[k]) =>
             \/ hits'[k] = NoEntry /\ granted'[k] = Empty(Window)
             \/ RetryAfter(k)' = RetryAfter(k) - (now' - now)
             \/ now' > hits[k].reset]_limiters
  BY <1>1
<1> QED
  BY <1>2, Invariant, PTL DEF Spec, RetryAfterStands

----------------------------------------------------------------------------
(* What the limiters let pass *)

\* How long ago the window of an entry began.
Since(e, length) == now + length - e.reset

\* What a log may have when the window that counts began so long ago and counts n:
\* of that window no more than n and no more than the quota, of the one before no
\* more than another quota, and nothing since its end.
Within(log, n, since, most, length) ==
  /\ 0 <= since
  /\ \A s \in 0 .. length :
       /\ s <= since => log[s] <= n /\ log[s] <= most
       /\ s > since => log[s] <= log[since] + most
       /\ s < since - length => log[s] = 0

\* A log fits its entry.  Where there is none, all that is left is of one window,
\* and nothing is of just now.
Fits(log, e, most, length) ==
  IF e = NoEntry THEN log[0] = 0 /\ \A s \in 0 .. length : log[s] <= most
                 ELSE Within(log, e.count, Since(e, length), most, length)

LogsFit ==
  /\ \A a \in Addresses : Fits(served[a], slots[a], PerMinute, Minute)
  /\ \A k \in Keys : Fits(granted[k], hits[k], Allowed[k], Window)

LEMMA SinceTyped ==
  ASSUME now \in Nat, NEW e \in Entry, NEW length \in Nat
  PROVE  /\ Since(e, length) \in Int
         /\ Expired(e) <=> Since(e, length) > length
BY DEF Since, Expired, Entry

\* Two windows at most meet in one span.
LEMMA FitsTwice ==
  ASSUME NEW length \in Nat, NEW most \in Nat, NEW log \in [0 .. length -> Nat],
         NEW e \in Entry, now \in Nat, Fits(log, e, most, length)
  PROVE  log[length] <= 2 * most
<1>1. length \in 0 .. length /\ log[length] \in Nat
  OBVIOUS
<1>2. CASE e = NoEntry
  <2>1. log[length] <= most
    BY <1>1, <1>2 DEF Fits
  <2> QED
    BY <1>1, <2>1
<1>3. CASE e # NoEntry
  <2> DEFINE w == Since(e, length)
  <2>1. w \in Int /\ Within(log, e.count, w, most, length)
    BY <1>3, SinceTyped DEF Fits
  <2> HIDE DEF w
  <2>2. CASE length <= w
    <3>1. log[length] <= most
      BY <1>1, <2>1, <2>2 DEF Within
    <3> QED
      BY <1>1, <3>1
  <2>3. CASE length > w
    <3>1. w \in 0 .. length /\ log[w] \in Nat
      BY <2>1, <2>3 DEF Within
    <3>2. log[w] <= most /\ log[length] <= log[w] + most
      BY <1>1, <2>1, <2>3, <3>1 DEF Within
    <3> QED
      BY <1>1, <3>1, <3>2
  <2> QED
    BY <2>1, <2>2, <2>3
<1> QED
  BY <1>2, <1>3

\* A window that begins now, after one that was over.
LEMMA WithinNew ==
  ASSUME NEW length \in Nat, NEW most \in Nat \ {0}, NEW log \in [0 .. length -> Nat],
         log[0] = 0, \A s \in 0 .. length : log[s] <= most
  PROVE  Within(OneMore(log), 1, 0, most, length)
<1>1. \A s \in 0 .. length : OneMore(log)[s] = log[s] + 1 /\ log[s] \in Nat
  BY DEF OneMore
<1>2. 0 \in 0 .. length /\ OneMore(log)[0] = 1
  BY <1>1
<1>3. ASSUME NEW s \in 0 .. length
      PROVE  /\ s <= 0 => OneMore(log)[s] <= 1 /\ OneMore(log)[s] <= most
             /\ s > 0 => OneMore(log)[s] <= OneMore(log)[0] + most
             /\ s < 0 - length => OneMore(log)[s] = 0
  BY <1>1, <1>2
<1> QED
  BY <1>3 DEF Within

\* One more in the window that counts.
LEMMA WithinMore ==
  ASSUME NEW length \in Nat, NEW most \in Nat, NEW log \in [0 .. length -> Nat],
         NEW n \in Nat, NEW w \in 0 .. length, Within(log, n, w, most, length), n + 1 <= most
  PROVE  Within(OneMore(log), n + 1, w, most, length)
<1>1. \A s \in 0 .. length : OneMore(log)[s] = log[s] + 1 /\ log[s] \in Nat
  BY DEF OneMore
<1>2. ASSUME NEW s \in 0 .. length
      PROVE  /\ s <= w => OneMore(log)[s] <= n + 1 /\ OneMore(log)[s] <= most
             /\ s > w => OneMore(log)[s] <= OneMore(log)[w] + most
             /\ s < w - length => OneMore(log)[s] = 0
  <2>1. /\ s <= w => log[s] <= n
        /\ s > w => log[s] <= log[w] + most
    BY DEF Within
  <2>2. s >= w - length
    OBVIOUS
  <2>3. PICK x, y \in Nat : x = log[s] /\ y = log[w]
    BY <1>1
  <2>4. OneMore(log)[s] = x + 1 /\ OneMore(log)[w] = y + 1
    BY <1>1, <2>3
  <2>5. s <= w => x + 1 <= n + 1 /\ x + 1 <= most
    BY <2>1, <2>3
  <2>6. s > w => x + 1 <= (y + 1) + most
    BY <2>1, <2>3
  <2> QED
    BY <2>2, <2>4, <2>5, <2>6
<1> QED
  BY <1>2 DEF Within

\* One more that is refused.
LEMMA WithinRefused ==
  ASSUME NEW length \in Nat, NEW most \in Nat, NEW log \in [0 .. length -> Nat],
         NEW n \in Nat, NEW w \in 0 .. length, Within(log, n, w, most, length)
  PROVE  Within(log, n + 1, w, most, length)
<1>1. \A s \in 0 .. length : log[s] \in Nat
  OBVIOUS
<1> QED
  BY <1>1 DEF Within

\* Once the window is over, nothing of now is left, and of one window the rest.
LEMMA FitsOver ==
  ASSUME NEW length \in Nat, NEW most \in Nat, NEW log \in [0 .. length -> Nat],
         NEW e \in Entry, now \in Nat, Fits(log, e, most, length), e = NoEntry \/ Expired(e)
  PROVE  log[0] = 0 /\ \A s \in 0 .. length : log[s] <= most
<1>1. CASE e = NoEntry
  BY <1>1 DEF Fits
<1>2. CASE e # NoEntry
  <2> DEFINE w == Since(e, length)
  <2>1. w \in Int /\ w > length /\ Within(log, e.count, w, most, length)
    BY <1>2, SinceTyped DEF Fits
  <2> HIDE DEF w
  <2>2. 0 \in 0 .. length /\ 0 < w - length
    BY <2>1
  <2> QED
    BY <2>1, <2>2 DEF Within
<1> QED
  BY <1>1, <1>2

\* What is forgotten was over.
LEMMA FitsForgotten ==
  ASSUME NEW length \in Nat, NEW most \in Nat, NEW log \in [0 .. length -> Nat],
         NEW e \in Entry, now \in Nat, Fits(log, e, most, length), Expired(e)
  PROVE  Fits(log, NoEntry, most, length)
BY FitsOver DEF Fits

\* An attempt that is let through, or is not, leaves the log fitting the new count.
LEMMA FitsCounted ==
  ASSUME NEW length \in Nat, NEW most \in Nat \ {0}, NEW log \in [0 .. length -> Nat],
         NEW e \in Entry, now \in Nat, Fits(log, e, most, length)
  PROVE  Fits(IF Counted(e, length).count <= most THEN OneMore(log) ELSE log,
              Counted(e, length), most, length)
<1> DEFINE f == Counted(e, length)
<1>1. CASE e = NoEntry \/ Expired(e)
  <2>1. f = [count |-> 1, reset |-> now + length] /\ f # NoEntry
    BY <1>1 DEF Counted, NoEntry
  <2>2. Since(f, length) = 0 /\ f.count = 1
    BY <2>1 DEF Since
  <2>3. Within(OneMore(log), 1, 0, most, length)
    BY <1>1, FitsOver, WithinNew
  <2> QED
    BY <2>1, <2>2, <2>3 DEF Fits
<1>2. CASE e # NoEntry /\ ~ Expired(e)
  <2> DEFINE w == Since(e, length)
  <2>1. f.count = e.count + 1 /\ f.reset = e.reset /\ e.count \in Nat
    BY <1>2 DEF Counted, Entry
  <2>2. Since(f, length) = w
    BY <2>1 DEF Since
  <2>3. f # NoEntry
    BY <2>1 DEF NoEntry
  <2>4. w \in Int /\ w <= length /\ Within(log, e.count, w, most, length)
    BY <1>2, SinceTyped DEF Fits
  <2>5. w \in 0 .. length
    BY <2>4 DEF Within
  <2> HIDE DEF w, f
  <2>6. CASE f.count <= most
    <3>1. Within(OneMore(log), f.count, w, most, length)
      BY <2>1, <2>4, <2>5, <2>6, WithinMore
    <3> QED
      BY <2>2, <2>3, <2>6, <3>1 DEF Fits, f
  <2>7. CASE ~ (f.count <= most)
    <3>1. Within(log, f.count, w, most, length)
      BY <2>1, <2>4, <2>5, WithinRefused
    <3> QED
      BY <2>2, <2>3, <2>7, <3>1 DEF Fits, f
  <2> QED
    BY <2>6, <2>7
<1> QED
  BY <1>1, <1>2

LEMMA WithinLater ==
  ASSUME NEW length \in Nat, NEW most \in Nat, NEW log \in [0 .. length -> Nat],
         NEW n \in Nat, NEW w \in Int, Within(log, n, w, most, length)
  PROVE  Within(Later(log), n, w + 1, most, length)
<1>1. /\ \A s \in 0 .. length : Later(log)[s] = IF s = 0 THEN 0 ELSE log[s - 1]
      /\ 0 <= w
  BY DEF Later, Within
<1>2. ASSUME NEW s \in 0 .. length
      PROVE  /\ s <= w + 1 => Later(log)[s] <= n /\ Later(log)[s] <= most
             /\ s > w + 1 => Later(log)[s] <= Later(log)[w + 1] + most
             /\ s < w + 1 - length => Later(log)[s] = 0
  <2>1. CASE s = 0
    BY <1>1, <2>1
  <2>2. CASE s # 0
    <3>1. s - 1 \in 0 .. length /\ Later(log)[s] = log[s - 1]
      BY <1>1, <2>2
    <3>2. /\ s - 1 <= w => log[s - 1] <= n /\ log[s - 1] <= most
          /\ s - 1 > w => log[s - 1] <= log[w] + most
          /\ s - 1 < w - length => log[s - 1] = 0
      BY <3>1 DEF Within
    <3>3. s > w + 1 => Later(log)[w + 1] = log[w]
      BY <1>1
    <3> HIDE DEF Within
    <3> QED
      BY <3>1, <3>2, <3>3
  <2> QED
    BY <2>1, <2>2
<1> QED
  BY <1>1, <1>2 DEF Within

\* The log and the window grow old together.
LEMMA FitsLater ==
  ASSUME NEW length \in Nat, NEW most \in Nat, NEW log \in [0 .. length -> Nat],
         NEW e \in Entry, now \in Nat, now' = now + 1, Fits(log, e, most, length)
  PROVE  Fits(Later(log), e, most, length)'
<1>1. CASE e = NoEntry
  BY <1>1 DEF Fits, Later
<1>2. CASE e # NoEntry
  <2>1. e.reset \in Nat /\ e.count \in Nat /\ Since(e, length) \in Int
    BY SinceTyped DEF Entry
  <2>2. now' + length - e.reset = Since(e, length) + 1
    <3>1. PICK r \in Nat : r = e.reset
      BY <2>1
    <3>2. (now + 1) + length - r = (now + length - r) + 1
      OBVIOUS
    <3> QED
      BY <3>1, <3>2 DEF Since
  <2>3. Within(Later(log), e.count, Since(e, length) + 1, most, length)
    BY <1>2, <2>1, WithinLater DEF Fits
  <2> QED
    BY <1>2, <2>2, <2>3 DEF Fits, Since
<1> QED
  BY <1>1, <1>2

\* While no time passes, what fits now fits then.
LEMMA FitsNow ==
  ASSUME UNCHANGED now,
         \A a \in Addresses : Fits(served'[a], slots'[a], PerMinute, Minute),
         \A k \in Keys : Fits(granted'[k], hits'[k], Allowed[k], Window)
  PROVE  LogsFit'
BY DEF LogsFit, Fits, Since

LEMMA LogsTyped ==
  ASSUME LimitersTypeOK
  PROVE  /\ now \in Nat /\ Minute \in Nat /\ Window \in Nat /\ PerMinute \in Nat \ {0}
         /\ \A a \in Addresses : served[a] \in [0 .. Minute -> Nat] /\ slots[a] \in Entry
         /\ \A k \in Keys : /\ granted[k] \in [0 .. Window -> Nat] /\ hits[k] \in Entry
                            /\ Allowed[k] \in Nat \ {0}
BY Constants, LimiterAssumption DEF LimitersTypeOK

LEMMA InitFits == Init => LogsFit
<1>1. \A n \in Nat : 0 \in 0 .. n
  OBVIOUS
<1>2. ASSUME NEW n \in Nat, NEW most \in Nat PROVE Fits(Empty(n), NoEntry, most, n)
  BY <1>1 DEF Fits, Empty
<1> QED
  BY <1>2, Constants DEF Init, LimitersInit, LogsFit

LEMMA RequestFits ==
  ASSUME LimitersTypeOK, LogsFit, NEW b \in Addresses, Request(b)
  PROVE  LogsFit'
<1>1. ASSUME NEW a \in Addresses PROVE Fits(served'[a], slots'[a], PerMinute, Minute)
  <2>1. Fits(served[a], slots[a], PerMinute, Minute)
    BY DEF LogsFit
  <2>2. CASE a = b
    <3>1. slots'[a] = Counted(slots[a], Minute)
      BY <2>2 DEF Request, LimitersTypeOK
    <3>2. served'[a] = IF Counted(slots[a], Minute).count <= PerMinute
                         THEN OneMore(served[a]) ELSE served[a]
      BY <2>2 DEF Request, Passes, LimitersTypeOK
    <3> QED
      BY <2>1, <3>1, <3>2, LogsTyped, FitsCounted
  <2>3. CASE a # b
    <3>1. slots'[a] = slots[a] /\ served'[a] = served[a]
      BY <2>3 DEF Request, LimitersTypeOK
    <3> QED
      BY <2>1, <3>1
  <2> QED
    BY <2>2, <2>3
<1>2. UNCHANGED <<now, hits, granted>>
  BY DEF Request
<1> QED
  BY <1>1, <1>2, FitsNow DEF LogsFit

\* The janitor only drops what has been over for a minute.
LEMMA DropOldFits ==
  ASSUME LimitersTypeOK, LogsFit, DropOld
  PROVE  LogsFit'
<1>1. ASSUME NEW a \in Addresses PROVE Fits(served'[a], slots'[a], PerMinute, Minute)
  <2>1. Fits(served[a], slots[a], PerMinute, Minute) /\ served'[a] = served[a]
    BY DEF LogsFit, DropOld
  <2>2. slots'[a] = IF Old(slots[a]) THEN NoEntry ELSE slots[a]
    BY DEF DropOld
  <2>3. Old(slots[a]) => Expired(slots[a])
    BY LogsTyped DEF Old, Expired, Entry
  <2> QED
    BY <2>1, <2>2, <2>3, LogsTyped, FitsForgotten
<1>2. UNCHANGED <<now, hits, granted>>
  BY DEF DropOld
<1> QED
  BY <1>1, <1>2, FitsNow DEF LogsFit

\* An attempt counts for its own key; what the sweep takes of the others was over.
LEMMA AllowFits ==
  ASSUME LimitersTypeOK, LogsFit, NEW j, Allow(j)
  PROVE  LogsFit'
<1> DEFINE known == IF hits[j] = NoEntry /\ Full(j) THEN Swept(j) ELSE hits
<1>1. /\ hits' = [known EXCEPT ![j] = Counted(hits[j], Window)]
      /\ DOMAIN Swept(j) = Keys /\ DOMAIN hits = Keys
  BY DEF Allow, Swept, LimitersTypeOK
<1>2. /\ DOMAIN known = Keys
      /\ \A k \in Keys : known[k] = hits[k] \/ (known[k] = NoEntry /\ Expired(hits[k]))
  <2>1. ASSUME NEW k \in Keys
        PROVE  Swept(j)[k] = hits[k] \/ (Swept(j)[k] = NoEntry /\ Expired(hits[k]))
    <3>1. Swept(j)[k] = IF Limiter[k] = Limiter[j] /\ Expired(hits[k]) THEN NoEntry ELSE hits[k]
      BY DEF Swept
    <3> QED
      BY <3>1
  <2> HIDE DEF Swept
  <2> QED
    BY <1>1, <2>1
<1> HIDE DEF known
<1>3. ASSUME NEW k \in Keys PROVE Fits(granted'[k], hits'[k], Allowed[k], Window)
  <2>1. Fits(granted[k], hits[k], Allowed[k], Window)
    BY DEF LogsFit
  <2>2. CASE k = j
    <3>1. hits'[k] = Counted(hits[k], Window)
      BY <1>1, <1>2, <2>2
    <3>2. granted'[k] = IF Counted(hits[k], Window).count <= Allowed[k]
                          THEN OneMore(granted[k]) ELSE granted[k]
      BY <2>2 DEF Allow, Granted, LimitersTypeOK
    <3> QED
      BY <2>1, <3>1, <3>2, LogsTyped, FitsCounted
  <2>3. CASE k # j
    <3>1. granted'[k] = granted[k] /\ hits'[k] = known[k]
      BY <1>1, <2>3 DEF Allow, LimitersTypeOK
    <3>2. CASE known[k] = hits[k]
      BY <2>1, <3>1, <3>2
    <3>3. CASE known[k] = NoEntry /\ Expired(hits[k])
      <4>1. Fits(granted[k], NoEntry, Allowed[k], Window)
        BY <2>1, <3>3, LogsTyped, FitsForgotten
      <4> QED
        BY <3>1, <3>3, <4>1
    <3> QED
      BY <1>2, <3>2, <3>3
  <2> QED
    BY <2>2, <2>3
<1>4. UNCHANGED <<now, slots, served>>
  BY DEF Allow
<1> QED
  BY <1>3, <1>4, FitsNow DEF LogsFit

LEMMA ClearFits ==
  ASSUME LimitersTypeOK, LogsFit, NEW j, Clear(j)
  PROVE  LogsFit'
<1>1. ASSUME NEW k \in Keys PROVE Fits(granted'[k], hits'[k], Allowed[k], Window)
  <2>1. CASE k = j
    <3>1. granted'[k] = Empty(Window) /\ hits'[k] = NoEntry
      BY <2>1 DEF Clear, LimitersTypeOK
    <3>2. 0 \in 0 .. Window
      BY Constants
    <3> QED
      BY <3>1, <3>2, LogsTyped DEF Fits, Empty
  <2>2. CASE k # j
    <3>1. granted'[k] = granted[k] /\ hits'[k] = hits[k]
      BY <2>2 DEF Clear, LimitersTypeOK
    <3> QED
      BY <3>1 DEF LogsFit
  <2> QED
    BY <2>1, <2>2
<1>2. UNCHANGED <<now, slots, served>>
  BY DEF Clear
<1> QED
  BY <1>1, <1>2, FitsNow DEF LogsFit

LEMMA PassFits ==
  ASSUME LimitersTypeOK, LogsFit, Pass
  PROVE  LogsFit'
<1>1. ASSUME NEW a \in Addresses PROVE Fits(served[a], slots[a], PerMinute, Minute)'
  <2>1. PICK log \in [0 .. Minute -> Nat] : log = served[a]
    BY LogsTyped
  <2>2. PICK e \in Entry : e = slots[a]
    BY LogsTyped
  <2>3. Fits(Later(log), e, PerMinute, Minute)'
    BY <2>1, <2>2, LogsTyped, FitsLater DEF LogsFit, Pass
  <2>4. served'[a] = Later(log) /\ slots'[a] = e
    BY <2>1, <2>2 DEF Pass
  <2> QED
    BY <2>3, <2>4
<1>2. ASSUME NEW k \in Keys PROVE Fits(granted[k], hits[k], Allowed[k], Window)'
  <2>1. PICK log \in [0 .. Window -> Nat] : log = granted[k]
    BY LogsTyped
  <2>2. PICK e \in Entry : e = hits[k]
    BY LogsTyped
  <2>3. Fits(Later(log), e, Allowed[k], Window)'
    BY <2>1, <2>2, LogsTyped, FitsLater DEF LogsFit, Pass
  <2>4. granted'[k] = Later(log) /\ hits'[k] = e
    BY <2>1, <2>2 DEF Pass
  <2> QED
    BY <2>3, <2>4
<1> QED
  BY <1>1, <1>2 DEF LogsFit

LEMMA LogsStayFit == LimitersTypeOK /\ LogsFit /\ [Next]_vars => LogsFit'
<1> SUFFICES ASSUME LimitersTypeOK, LogsFit, [Next]_vars PROVE LogsFit'
  OBVIOUS
<1>1. ASSUME UNCHANGED limiters PROVE LogsFit'
  BY <1>1 DEF limiters, LogsFit, Fits, Since
<1>2. CASE DropOld \/ Pass
  BY <1>2, DropOldFits, PassFits
<1>3. ASSUME NEW h \in Handlers, NEW a \in Addresses, Arrive(h, a) PROVE LogsFit'
  BY <1>3, RequestFits DEF Arrive
<1>4. ASSUME NEW h \in Handlers, Serve(h)
      PROVE  \/ UNCHANGED limiters
             \/ \E j : Allow(j)
             \/ \E j : Clear(j)
  BY <1>4
  DEF Serve, RegisterAddress, RegisterInsert, LoginAddress, LoginName, LoginPassword,
      LoginDone, ResetAddress, ResetName, ResetFactors, ResetUpdate, Reject
<1>5. ASSUME NEW h \in Handlers, Serve(h) PROVE LogsFit'
  BY <1>1, <1>4, <1>5, AllowFits, ClearFits
<1>6. CASE UNCHANGED vars
  BY <1>1, <1>6 DEF vars
<1> QED
  BY <1>2, <1>3, <1>5, <1>6 DEF Next

\* No window that counts is forgotten, for any number of addresses and keys, any
\* quotas and lengths of the windows, and any cap on the keys.
THEOREM KeepsWindows == Spec => []WindowsKept
<1>1. LimitersTypeOK /\ LogsFit => WindowsKept
  <2> SUFFICES ASSUME LimitersTypeOK, LogsFit PROVE WindowsKept
    OBVIOUS
  <2>1. ASSUME NEW a \in Addresses PROVE served[a][Minute] <= 2 * PerMinute
    BY LogsTyped, FitsTwice DEF LogsFit
  <2>2. ASSUME NEW k \in Keys PROVE granted[k][Window] <= 2 * Allowed[k]
    BY LogsTyped, FitsTwice DEF LogsFit
  <2> QED
    BY <2>1, <2>2 DEF WindowsKept
<1>2. IInv => LimitersTypeOK
  BY DEF IInv, TypeOK
<1> QED
  BY <1>1, <1>2, Invariant, InitFits, LogsStayFit, PTL DEF Spec
=============================================================================
