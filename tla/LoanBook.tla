------------------------------ MODULE LoanBook ------------------------------
(***************************************************************************)
(* One player's loans.  Requests (TakeLoan, Repay, Refinance,               *)
(* FinanceAircraft) race with the callers of ProcessPlayer that serve day   *)
(* boundaries, each with a balance and a list of loans it read earlier, and *)
(* with bankruptcy and Reset.  Money is counted in whole units.             *)
(*                                                                          *)
(* A database row lock taken with FOR UPDATE and kept over later statements *)
(* is a variable; every other transaction is one action.                    *)
(***************************************************************************)
EXTENDS Integers, FiniteSets

CONSTANTS
  Borrowers,       \* request goroutines
  Servicers,       \* goroutines in ProcessPlayer
  Nobody,          \* "row not locked"
  MaxLoans,        \* bound: loan rows ever inserted
  MaxActive,       \* credit_tier_config max_active_loans
  Principal,       \* what TakeLoan lends
  Financed,        \* total repayable of a financed aircraft
  Installment,     \* weekly_payment of a new loan
  DownPayment,     \* down payment of a financed aircraft
  Amounts,         \* amounts a player asks to repay
  Saving,          \* what one refinancing takes off the balance
  MaxRate,         \* rates are 0 .. MaxRate, a new loan has MaxRate
  LateFee,         \* fee of a missed installment
  DefaultAfter,    \* missed payments that default a loan (4 in the code)
  RepossessAfter,  \* missed payments that repossess an aircraft (3)
  Flows,           \* net effects of a flown window
  StartingCash, CashFloor,
  MinCash, MaxCash, \* bounds: a window leads to no balance outside them
  MaxFaults         \* bound: failed statements

Loans == 1 .. MaxLoans
Callers == Borrowers \cup Servicers

ASSUME LoanAssumption ==
  /\ Borrowers \cap Servicers = {}
  /\ Nobody \notin Callers
  /\ {MaxLoans, MaxActive, MaxRate, MaxFaults, Saving, LateFee,
      DownPayment, RepossessAfter, DefaultAfter, MaxCash} \subseteq Nat
  /\ {Principal, Financed, Installment} \subseteq Nat \ {0}
  /\ Amounts \subseteq Nat
  /\ StartingCash \in Nat
  /\ Flows \cup {CashFloor, MinCash} \subseteq Int

VARIABLES
  cash,     \* bank_accounts.balance
  status,   \* users.operational_status
  loan,     \* table loans
  aircraft, \* the aircraft a loan finances (fleet_aircraft)
  rowLock,  \* who holds a loan row's lock between two statements
  pc,       \* where each caller is
  pick,     \* the loan it works on
  read,     \* the remaining balance it read
  phase,    \* which loans a servicer is at
  purse,    \* the balance it read when it got there, less what it collected
  bill,     \* its cursor: the installment of each loan it has yet to handle
  \* history
  due,      \* what is owed if every operation had run alone
  streak,   \* installments missed since the last one collected
  faults

tables == <<cash, status, loan, aircraft, due, streak>>
borrowing == <<pick, read>>
serving == <<phase, purse, bill>>
vars == <<tables, rowLock, pc, borrowing, serving, faults>>

----------------------------------------------------------------------------
Kinds == {"unsecured", "aircraft_financing"}
Places == {"idle", "insert", "buy", "reprice", "bankrupt",
           "balance", "open", "serve", "seize", "ground"}
States == {"none", "active", "paid_off", "defaulted", "repossessed", "deleted"}
LoanRow == [state : States, kind : Kinds, remaining : Nat,
            weekly : Nat, rate : 0 .. MaxRate, missed : Nat]
AircraftRow == [status : {"none", "active", "grounded"},
                title : {"none", "finance", "purchase"}]
NoLoan == [state |-> "none", kind |-> "unsecured", remaining |-> 0,
           weekly |-> 0, rate |-> 0, missed |-> 0]
NoAircraft == [status |-> "none", title |-> "none"]
NoBill == [l \in Loans |-> 0]

Active == {l \in Loans : loan[l].state = "active"}

\* Mutant of Less: the balance is not kept from going below zero.
Difference(a, b) == a - b

\* GREATEST(0, a - b)
Less(a, b) == IF b < a THEN a - b ELSE 0

Step(c, here, there) ==
  /\ pc[c] = here
  /\ pc' = [pc EXCEPT ![c] = there]

Fault == faults < MaxFaults /\ faults' = faults + 1

\* Mutant of Covers: the UPDATE of DebitTx without "balance >= amount".
CoversAlways(amount) == TRUE

\* DebitTx: the guard in the WHERE clause of the UPDATE.
Covers(amount) == cash >= amount

\* A new row takes the next id, so ids follow taken_at.
Insert(kind, owed, there) ==
  \E l \in Loans :
    /\ loan[l].state = "none"
    /\ \A k \in 1 .. l - 1 : loan[k].state # "none"
    /\ loan' = [loan EXCEPT ![l] =
                 [state |-> "active", kind |-> kind, remaining |-> owed,
                  weekly |-> Installment, rate |-> MaxRate, missed |-> 0]]
    /\ due' = [due EXCEPT ![l] = owed]
    /\ aircraft' = [aircraft EXCEPT ![l] = there]

\* A row after a payment; the last one closes the loan.
Paid(row, payment) ==
  [row EXCEPT !.remaining = Less(@, payment),
              !.state = IF row.remaining <= payment THEN "paid_off" ELSE @]

\* UPDATE loans SET remaining_balance = GREATEST(0, ...), status = CASE ...
\* A row that a reset deleted matches nothing.
Reduce(l, payment) ==
  /\ loan' = IF loan[l].state = "deleted" THEN loan
             ELSE [loan EXCEPT ![l] = Paid(loan[l], payment)]
  /\ due' = [due EXCEPT ![l] = Less(@, payment)]

----------------------------------------------------------------------------
(* Requests *)

\* TakeLoan counts the active loans ...
CountLoans(b) ==
  /\ Step(b, "idle", "insert")
  /\ Cardinality(Active) < MaxActive
  /\ UNCHANGED <<tables, rowLock, borrowing, serving, faults>>

\* ... and later inserts the row and credits the principal.
InsertLoan(b) ==
  /\ Step(b, "insert", "idle")
  /\ Insert("unsecured", Principal, NoAircraft)
  /\ cash' = cash + Principal
  /\ UNCHANGED <<status, streak, rowLock, borrowing, serving, faults>>

\* FinanceAircraft checks the balance outside its transaction ...
QuoteAircraft(b) ==
  /\ Step(b, "idle", "buy")
  /\ cash >= DownPayment
  /\ UNCHANGED <<tables, rowLock, borrowing, serving, faults>>

\* ... in which the guarded debit decides.
BuyAircraft(b) ==
  /\ Step(b, "buy", "idle")
  /\ Covers(DownPayment)
  /\ cash' = cash - DownPayment
  /\ Insert("aircraft_financing", Financed,
            [status |-> "active", title |-> "finance"])
  /\ UNCHANGED <<status, streak, rowLock, borrowing, serving, faults>>

\* The transaction of TakeLoan, FinanceAircraft or Refinance rolls back.
AbandonRequest(b) ==
  /\ pc[b] \in {"insert", "buy", "reprice"}
  /\ \/ Fault
     \/ pc[b] = "buy" /\ cash < DownPayment /\ UNCHANGED faults
  /\ pc' = [pc EXCEPT ![b] = "idle"]
  /\ rowLock' = [l \in Loans |-> IF rowLock[l] = b THEN Nobody ELSE rowLock[l]]
  /\ pick' = [pick EXCEPT ![b] = 1]
  /\ read' = [read EXCEPT ![b] = 0]
  /\ UNCHANGED <<tables, serving>>

\* Loan row and account row stay locked to the commit: one action.
Repay(b) ==
  /\ Step(b, "idle", "idle")
  /\ \E l \in Active, asked \in Amounts :
       LET payment == IF asked < loan[l].remaining THEN asked
                                                   ELSE loan[l].remaining IN
       /\ rowLock[l] = Nobody
       /\ payment > 0
       /\ Covers(payment)
       /\ cash' = cash - payment
       /\ Reduce(l, payment)
       /\ aircraft' = [aircraft EXCEPT ![l].title =
            IF loan[l].remaining <= payment /\ @ = "finance" THEN "purchase"
                                                              ELSE @]
  /\ UNCHANGED <<status, streak, rowLock, borrowing, serving, faults>>

\* Mutant of ReadForRefinance: the SELECT without FOR UPDATE.
ReadForRefinanceUnlocked(b) ==
  /\ Step(b, "idle", "reprice")
  /\ \E l \in Active :
       /\ rowLock[l] = Nobody
       /\ loan[l].rate > 0
       /\ pick' = [pick EXCEPT ![b] = l]
       /\ read' = [read EXCEPT ![b] = loan[l].remaining]
  /\ UNCHANGED <<tables, rowLock, serving, faults>>

\* SELECT ... FOR UPDATE.  A rate that cannot improve is refused.
ReadForRefinance(b) ==
  /\ Step(b, "idle", "reprice")
  /\ \E l \in Active :
       /\ rowLock[l] = Nobody
       /\ loan[l].rate > 0
       /\ rowLock' = [rowLock EXCEPT ![l] = b]
       /\ pick' = [pick EXCEPT ![b] = l]
       /\ read' = [read EXCEPT ![b] = loan[l].remaining]
  /\ UNCHANGED <<tables, serving, faults>>

Repriced(row, owed, w, r) ==
  [row EXCEPT !.remaining = owed, !.weekly = w, !.rate = r]

\* Balance and installment are rescaled from the value read.
Reprice(b) ==
  LET l == pick[b] IN
  /\ Step(b, "reprice", "idle")
  /\ \E r \in 0 .. loan[l].rate - 1, w \in {Less(loan[l].weekly, Saving),
                                            loan[l].weekly} :
       /\ w > 0
       /\ loan' = [loan EXCEPT ![l] = Repriced(loan[l], Less(read[b], Saving), w, r)]
  /\ due' = [due EXCEPT ![l] = Less(@, Saving)]
  /\ rowLock' = [rowLock EXCEPT ![l] = Nobody]
  /\ pick' = [pick EXCEPT ![b] = 1]
  /\ read' = [read EXCEPT ![b] = 0]
  /\ UNCHANGED <<cash, status, aircraft, streak, serving, faults>>

----------------------------------------------------------------------------
(* ProcessPlayer, from the commit of a window on *)

\* The window's flights; the only debit that may leave the account negative.
Fly ==
  /\ \E d \in Flows : /\ cash + d \in MinCash .. MaxCash
                      /\ cash' = cash + d
  /\ UNCHANGED <<status, loan, aircraft, due, streak, rowLock, pc, borrowing,
                 serving, faults>>

\* The balance is read back and compared with the floor.
CheckCash(s) ==
  /\ Step(s, "idle", IF cash <= CashFloor THEN "bankrupt" ELSE "balance")
  /\ UNCHANGED <<tables, rowLock, borrowing, serving, faults>>

\* applyBankruptcy, on what it read before.
ApplyBankruptcy(s) ==
  /\ Step(s, "bankrupt", "balance")
  /\ \A l \in Active : rowLock[l] = Nobody
  /\ status' = "Bankrupt"
  /\ aircraft' = [l \in Loans |->
       IF aircraft[l].status = "none" THEN aircraft[l]
                                      ELSE [aircraft[l] EXCEPT !.status = "grounded"]]
  /\ loan' = [l \in Loans |->
       IF l \in Active THEN [loan[l] EXCEPT !.state = "defaulted", !.remaining = 0]
                       ELSE loan[l]]
  /\ due' = [l \in Loans |-> IF l \in Active THEN 0 ELSE due[l]]
  /\ UNCHANGED <<cash, streak, rowLock, borrowing, serving, faults>>

ReadBalance(s) ==
  /\ Step(s, "balance", "open")
  /\ purse' = [purse EXCEPT ![s] = cash]
  /\ UNCHANGED <<tables, rowLock, borrowing, phase, bill, faults>>

\* The query sees one snapshot; an installment of 0 is passed over.
OpenCursor(s) ==
  /\ Step(s, "open", "serve")
  /\ bill' = [bill EXCEPT ![s] =
       [l \in Loans |-> IF l \in Active /\ loan[l].kind = phase[s]
                          THEN loan[l].weekly ELSE 0]]
  /\ UNCHANGED <<tables, rowLock, borrowing, phase, purse, faults>>

\* ORDER BY taken_at for loans, no order for financing.
NextRow(s, l) ==
  /\ bill[s][l] > 0
  /\ phase[s] = "unsecured" => \A k \in 1 .. l - 1 : bill[s][k] = 0

Handled(s, l) == bill' = [bill EXCEPT ![s][l] = 0]

\* The purse covers it and so does the account: debit and UPDATE together.
CollectPayment(s, l) ==
  LET payment == bill[s][l] IN
  /\ Step(s, "serve", "serve")
  /\ NextRow(s, l)
  /\ purse[s] >= payment
  /\ Covers(payment)
  /\ rowLock[l] = Nobody
  /\ cash' = cash - payment
  /\ Reduce(l, payment)
  /\ streak' = [streak EXCEPT ![l] = 0]
  /\ purse' = [purse EXCEPT ![s] = @ - payment]
  /\ Handled(s, l)
  /\ UNCHANGED <<status, aircraft, rowLock, borrowing, phase, faults>>

\* The purse covers it, the account no longer does: rolled back, no fee either.
DebitRefused(s, l) ==
  /\ Step(s, "serve", "serve")
  /\ NextRow(s, l)
  /\ purse[s] >= bill[s][l]
  /\ cash < bill[s][l]
  /\ Handled(s, l)
  /\ UNCHANGED <<tables, rowLock, borrowing, phase, purse, faults>>

Patience(s) == IF phase[s] = "unsecured" THEN DefaultAfter ELSE RepossessAfter

\* A row after a missed installment.
Charged(row) == [row EXCEPT !.remaining = @ + LateFee, !.missed = @ + 1]

\* Fee and count in one UPDATE that looks at the id only.
ChargeLateFee(s, l) ==
  /\ NextRow(s, l)
  /\ purse[s] < bill[s][l]
  /\ rowLock[l] = Nobody
  /\ Handled(s, l)
  /\ IF loan[l].state = "deleted"
       THEN /\ Step(s, "serve", "serve")
            /\ UNCHANGED <<loan, due, streak, pick>>
       ELSE /\ pick' = [pick EXCEPT ![s] = l]
            /\ Step(s, "serve", IF loan[l].missed + 1 >= Patience(s)
                                  THEN "seize" ELSE "serve")
            /\ loan' = [loan EXCEPT ![l] = Charged(loan[l])]
            /\ due' = [due EXCEPT ![l] = @ + LateFee]
            /\ streak' = [streak EXCEPT ![l] = @ + 1]
  /\ UNCHANGED <<cash, status, aircraft, rowLock, read, phase, purse, faults>>

\* The status is a statement of its own ...
Seize(s) ==
  LET l == pick[s] IN
  /\ Step(s, "seize", "ground")
  /\ rowLock[l] = Nobody
  /\ loan' = [loan EXCEPT ![l].state =
       CASE @ = "deleted" -> @
         [] @ # "deleted" /\ phase[s] = "unsecured" -> "defaulted"
         [] OTHER -> "repossessed"]
  /\ UNCHANGED <<cash, status, aircraft, due, streak, rowLock, borrowing, serving,
                 faults>>

\* ... and so is the collateral, which only financing has.
GroundCollateral(s) ==
  /\ Step(s, "ground", "serve")
  /\ aircraft' = [aircraft EXCEPT ![pick[s]].status =
                    IF @ = "none" THEN @ ELSE "grounded"]
  /\ pick' = [pick EXCEPT ![s] = 1]
  /\ UNCHANGED <<cash, status, loan, due, streak, rowLock, read, serving, faults>>

\* A statement fails: without a balance or a cursor the phase ends, a failed
\* bankruptcy or row is passed over, and a failed seizure does not keep the
\* aircraft from being grounded.
SkipStatement(s) ==
  /\ Fault
  /\ \/ /\ pc[s] \in {"balance", "open"}
        /\ pc' = [pc EXCEPT ![s] = "serve"]
        /\ UNCHANGED bill
     \/ /\ Step(s, "bankrupt", "balance")
        /\ UNCHANGED bill
     \/ /\ Step(s, "serve", "serve")
        /\ \E l \in Loans : NextRow(s, l) /\ Handled(s, l)
     \/ /\ \/ Step(s, "seize", "ground")
           \/ Step(s, "ground", "serve")
        /\ UNCHANGED bill
  /\ UNCHANGED <<tables, rowLock, borrowing, phase, purse>>

EndPhase(s) ==
  /\ bill[s] = NoBill
  /\ Step(s, "serve", IF phase[s] = "unsecured" THEN "balance" ELSE "idle")
  /\ phase' = [phase EXCEPT ![s] = IF @ = "unsecured" THEN "aircraft_financing"
                                                      ELSE "unsecured"]
  /\ purse' = [purse EXCEPT ![s] = 0]
  /\ UNCHANGED <<tables, rowLock, borrowing, bill, faults>>

----------------------------------------------------------------------------
(* Reset deletes loans and aircraft and restores the account. *)
Reset ==
  /\ \A l \in Loans : rowLock[l] = Nobody
  /\ cash' = StartingCash
  /\ status' = "Active"
  /\ loan' = [l \in Loans |-> IF loan[l].state = "none" THEN loan[l]
                              ELSE [NoLoan EXCEPT !.state = "deleted"]]
  /\ aircraft' = [l \in Loans |-> NoAircraft]
  /\ due' = [l \in Loans |-> 0]
  /\ streak' = [l \in Loans |-> 0]
  /\ UNCHANGED <<rowLock, pc, borrowing, serving, faults>>

Init ==
  /\ cash = StartingCash
  /\ status = "Active"
  /\ loan = [l \in Loans |-> NoLoan]
  /\ aircraft = [l \in Loans |-> NoAircraft]
  /\ rowLock = [l \in Loans |-> Nobody]
  /\ pc = [c \in Callers |-> "idle"]
  /\ pick = [c \in Callers |-> 1]
  /\ read = [c \in Callers |-> 0]
  /\ phase = [s \in Servicers |-> "unsecured"]
  /\ purse = [s \in Servicers |-> 0]
  /\ bill = [s \in Servicers |-> NoBill]
  /\ due = [l \in Loans |-> 0]
  /\ streak = [l \in Loans |-> 0]
  /\ faults = 0

Request(b) ==
  \/ CountLoans(b) \/ InsertLoan(b) \/ QuoteAircraft(b) \/ BuyAircraft(b)
  \/ Repay(b) \/ ReadForRefinance(b) \/ Reprice(b) \/ AbandonRequest(b)

ServeRow(s) ==
  \E l \in Loans : CollectPayment(s, l) \/ DebitRefused(s, l) \/ ChargeLateFee(s, l)

Service(s) ==
  \/ CheckCash(s) \/ ApplyBankruptcy(s) \/ ReadBalance(s) \/ OpenCursor(s)
  \/ ServeRow(s) \/ Seize(s) \/ GroundCollateral(s) \/ SkipStatement(s)
  \/ EndPhase(s)

Next ==
  \/ \E b \in Borrowers : Request(b)
  \/ \E s \in Servicers : Service(s)
  \/ Fly
  \/ Reset

Spec == Init /\ [][Next]_vars

----------------------------------------------------------------------------
(* Properties *)

TypeOK ==
  /\ cash \in Int
  /\ status \in {"Active", "Bankrupt"}
  /\ loan \in [Loans -> LoanRow]
  /\ aircraft \in [Loans -> AircraftRow]
  /\ rowLock \in [Loans -> Borrowers \cup {Nobody}]
  /\ pc \in [Callers -> Places]
  /\ pick \in [Callers -> Nat]
  /\ read \in [Callers -> Nat]
  /\ phase \in [Servicers -> Kinds]
  /\ purse \in [Servicers -> Int]
  /\ bill \in [Servicers -> [Loans -> Nat]]
  /\ due \in [Loans -> Nat]
  /\ streak \in [Loans -> Nat]
  /\ faults \in Nat

\* AUDIT-07 (bank.go:206): refinancing rescales a balance it read statements
\* ago, and no installment, repayment, fee, default or reset that ran meanwhile
\* is lost: each loan stands where the operations leave it one after another.
NoLostUpdate == \A l \in Loans : loan[l].remaining = due[l]

\* Only flying can overdraw the account.  An installment judged by a purse read
\* long ago, or a down payment checked before its transaction, never does.
OnlyFlyingOverdraws == [][(cash' < cash /\ cash' < 0) => Fly]_vars

\* "the player must not lose money without the debt falling" (dayboundary.go:144):
\* the loan may have been settled since the cursor read it, and is charged still.
PaymentReducesDebt ==
  [][\A s \in Servicers, l \in Loans :
       CollectPayment(s, l) => loan'[l].remaining < loan[l].remaining]_vars

\* "Maximum %d active loans allowed." (bank.go:55): two requests count before
\* either inserts.
LoanCap ==
  Cardinality({l \in Active : loan[l].kind = "unsecured"}) <= MaxActive

\* "repossesses aircraft after 3 consecutive misses" (00_baseline.sql:3432): no
\* payment ever takes a miss back.
ConsecutiveMisses ==
  \A l \in Loans : loan[l].state = "repossessed" => streak[l] >= RepossessAfter
=============================================================================
