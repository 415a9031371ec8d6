--------------------------- MODULE LoanBook_proofs ---------------------------
(***************************************************************************)
(* Proofs about LoanBook, for any callers, amounts and number of loans.     *)
(* Between its read and its write a refinancing request holds the row of    *)
(* its loan, so the balance it read still stands (RepriceStands); what a    *)
(* cursor bills was inserted once (BilledTaken); and rows without a loan    *)
(* owe nothing (EmptyOwesNothing).                                          *)
(*                                                                          *)
(* LoanCap and ConsecutiveMisses do not hold; what holds in their place are *)
(* NoEarlyRepossession and CapOverrunBounded.                               *)
(***************************************************************************)
EXTENDS LoanBook, FiniteSetTheorems, TLAPS

RepriceStands ==
  \A b \in Borrowers : pc[b] = "reprice" =>
    /\ pick[b] \in Loans
    /\ rowLock[pick[b]] = b
    /\ read[b] = loan[pick[b]].remaining
    /\ loan[pick[b]].state # "none"

BilledTaken ==
  \A s \in Servicers, l \in Loans : bill[s][l] > 0 => loan[l].state # "none"

EmptyOwesNothing ==
  \A l \in Loans : loan[l].state \in {"none", "deleted"} => loan[l].remaining = 0

IInv ==
  /\ TypeOK
  /\ RepriceStands
  /\ BilledTaken
  /\ EmptyOwesNothing
  /\ NoLostUpdate

----------------------------------------------------------------------------
\* The book of a new airline is empty.
LEMMA Initially == Init => IInv
<1> SUFFICES ASSUME Init PROVE IInv
  OBVIOUS
<1>1. NoLoan \in LoanRow /\ NoLoan.state = "none" /\ NoLoan.remaining = 0
  BY LoanAssumption DEF NoLoan, LoanRow, States, Kinds
<1>2. NoAircraft \in AircraftRow
  BY DEF NoAircraft, AircraftRow
<1>3. TypeOK
  BY <1>1, <1>2, LoanAssumption DEF Init, TypeOK, Callers, Kinds, NoBill, Places
<1>4. RepriceStands /\ BilledTaken
  BY DEF Init, RepriceStands, BilledTaken, Callers, NoBill
<1>5. EmptyOwesNothing /\ NoLostUpdate
  BY <1>1 DEF Init, EmptyOwesNothing, NoLostUpdate
<1> QED
  BY <1>3, <1>4, <1>5 DEF IInv

\* GREATEST(0, a - b) of two amounts is an amount.
LEMMA LessTyped == \A a, b \in Nat : Less(a, b) \in Nat /\ Less(0, b) = 0
BY DEF Less

\* An installment or repayment leaves a row that owes that much less ...
LEMMA RowPaid ==
  ASSUME NEW x \in LoanRow, NEW payment \in Nat
  PROVE  /\ Paid(x, payment) \in LoanRow
         /\ Paid(x, payment).remaining = Less(x.remaining, payment)
         /\ Paid(x, payment).state \in {x.state, "paid_off"}
BY LessTyped DEF LoanRow, States, Paid

\* ... a late fee one that owes more ...
LEMMA RowCharged ==
  ASSUME NEW x \in LoanRow
  PROVE  /\ Charged(x) \in LoanRow
         /\ Charged(x).remaining = x.remaining + LateFee
         /\ Charged(x).state = x.state
<1>1. x.remaining + LateFee \in Nat /\ x.missed + 1 \in Nat
  BY LoanAssumption DEF LoanRow
<1> QED
  BY <1>1 DEF LoanRow, Charged

\* ... a change of state one that owes the same ...
LEMMA RowMoved ==
  ASSUME NEW x \in LoanRow, NEW t \in States
  PROVE  LET y == [x EXCEPT !.state = t]
         IN  y \in LoanRow /\ y.remaining = x.remaining /\ y.state = t
BY DEF LoanRow

\* ... and a bankruptcy one that owes nothing.
LEMMA RowDefaulted ==
  ASSUME NEW x \in LoanRow
  PROVE  LET y == [x EXCEPT !.state = "defaulted", !.remaining = 0]
         IN  y \in LoanRow /\ y.remaining = 0 /\ y.state = "defaulted"
BY DEF LoanRow, States

----------------------------------------------------------------------------
\* What every step does to the rows: they stay typed and owe what is due, rows
\* without a loan owe nothing, none goes back to being empty, and the row of a
\* request that goes on repricing keeps its balance.
RowsKept ==
  /\ loan' \in [Loans -> LoanRow]
  /\ due' \in [Loans -> Nat]
  /\ NoLostUpdate'
  /\ EmptyOwesNothing'
  /\ \A l \in Loans : loan[l].state # "none" => loan'[l].state # "none"
  /\ \A b \in Borrowers :
       pc[b] = "reprice" /\ pc'[b] = "reprice"
         => loan'[pick[b]].remaining = loan[pick[b]].remaining

\* A new row owes its principal, and nobody was repricing it.
LEMMA InsertKeeps ==
  ASSUME IInv, NEW kind \in Kinds, NEW owed \in Nat, NEW there,
         Insert(kind, owed, there)
  PROVE  RowsKept
<1>1. PICK l \in Loans :
        /\ loan[l].state = "none"
        /\ loan' = [loan EXCEPT ![l] =
             [state |-> "active", kind |-> kind, remaining |-> owed,
              weekly |-> Installment, rate |-> MaxRate, missed |-> 0]]
        /\ due' = [due EXCEPT ![l] = owed]
  BY DEF Insert
<1> DEFINE row == [state |-> "active", kind |-> kind, remaining |-> owed,
                   weekly |-> Installment, rate |-> MaxRate, missed |-> 0]
<1>2. row \in LoanRow /\ row.remaining = owed /\ row.state = "active"
  BY LoanAssumption DEF LoanRow, States
<1> HIDE DEF row
<1>3. loan' = [loan EXCEPT ![l] = row]
  BY <1>1 DEF row
<1>4. \A b \in Borrowers : pc[b] = "reprice" => pick[b] \in Loans /\ pick[b] # l
  BY <1>1 DEF IInv, RepriceStands
<1> QED
  BY <1>1, <1>2, <1>3, <1>4
  DEF IInv, TypeOK, RowsKept, NoLostUpdate, EmptyOwesNothing

\* A payment takes as much off the row as off what is due, and a deleted row
\* owed nothing.
LEMMA ReduceKeeps ==
  ASSUME IInv, NEW l \in Loans, NEW payment \in Nat, Reduce(l, payment),
         rowLock[l] = Nobody, loan[l].state # "none"
  PROVE  RowsKept
<1>1. loan[l] \in LoanRow /\ due[l] \in Nat /\ loan[l].remaining = due[l]
  BY DEF IInv, TypeOK, NoLostUpdate
<1>2. /\ Paid(loan[l], payment) \in LoanRow
      /\ Paid(loan[l], payment).remaining = Less(loan[l].remaining, payment)
      /\ Paid(loan[l], payment).state \in {loan[l].state, "paid_off"}
  BY <1>1, RowPaid
<1>3. Less(due[l], payment) \in Nat /\ Less(0, payment) = 0
  BY <1>1, LessTyped
<1>4. \A b \in Borrowers : pc[b] = "reprice" => pick[b] \in Loans /\ pick[b] # l
  BY LoanAssumption DEF IInv, RepriceStands, Callers
<1>5. loan[l].state = "deleted" => loan[l].remaining = 0
  BY DEF IInv, EmptyOwesNothing
<1>6. due' = [due EXCEPT ![l] = Less(due[l], payment)]
  BY DEF Reduce
<1>7. CASE loan[l].state = "deleted"
  <2>1. loan' = loan
    BY <1>7 DEF Reduce
  <2> QED
    BY <1>1, <1>3, <1>5, <1>6, <1>7, <2>1
    DEF IInv, TypeOK, RowsKept, NoLostUpdate, EmptyOwesNothing
<1>8. CASE loan[l].state # "deleted"
  <2>1. loan' = [loan EXCEPT ![l] = Paid(loan[l], payment)]
    BY <1>8 DEF Reduce
  <2> QED
    BY <1>1, <1>2, <1>3, <1>4, <1>6, <1>8, <2>1
    DEF IInv, TypeOK, RowsKept, NoLostUpdate, EmptyOwesNothing
<1> QED
  BY <1>7, <1>8

\* A fee is added to both.
LEMMA ChargeKeeps ==
  ASSUME IInv, NEW s \in Servicers, NEW l \in Loans, ChargeLateFee(s, l)
  PROVE  RowsKept
<1>1. loan[l] \in LoanRow /\ due[l] \in Nat /\ loan[l].remaining = due[l]
  BY DEF IInv, TypeOK, NoLostUpdate
<1>2. \A b \in Borrowers : pc[b] = "reprice" => pick[b] \in Loans /\ pick[b] # l
  BY LoanAssumption DEF IInv, RepriceStands, ChargeLateFee, Callers
<1>3. bill[s][l] > 0 /\ loan[l].state # "none"
  BY DEF IInv, BilledTaken, ChargeLateFee, NextRow
<1>4. CASE loan[l].state = "deleted"
  BY <1>4 DEF ChargeLateFee, IInv, TypeOK, RowsKept, NoLostUpdate, EmptyOwesNothing
<1>5. CASE loan[l].state # "deleted"
  <2>1. /\ loan' = [loan EXCEPT ![l] = Charged(loan[l])]
        /\ due' = [due EXCEPT ![l] = due[l] + LateFee]
    BY <1>5 DEF ChargeLateFee, IInv, TypeOK
  <2>2. /\ Charged(loan[l]) \in LoanRow
        /\ Charged(loan[l]).remaining = loan[l].remaining + LateFee
        /\ Charged(loan[l]).state = loan[l].state
    BY <1>1, RowCharged
  <2>3. due[l] + LateFee \in Nat
    BY <1>1, LoanAssumption
  <2> QED
    BY <1>1, <1>2, <1>3, <1>5, <2>1, <2>2, <2>3
    DEF IInv, TypeOK, RowsKept, NoLostUpdate, EmptyOwesNothing
<1> QED
  BY <1>4, <1>5

\* What is rescaled is the balance that was read, and it still stands.
LEMMA RepriceKeeps ==
  ASSUME IInv, NEW b \in Borrowers, Reprice(b)
  PROVE  RowsKept
<1> DEFINE l == pick[b]
           owed == Less(read[b], Saving)
<1>1. /\ l \in Loans /\ rowLock[l] = b
      /\ read[b] = loan[l].remaining /\ loan[l].state # "none"
  BY DEF IInv, RepriceStands, Reprice, Step
<1>2. loan[l] \in LoanRow /\ due[l] \in Nat /\ loan[l].remaining = due[l]
  BY <1>1 DEF IInv, TypeOK, NoLostUpdate
<1>3. owed = Less(due[l], Saving) /\ owed \in Nat /\ Less(0, Saving) = 0
  BY <1>1, <1>2, LessTyped, LoanAssumption
<1>4. PICK r \in 0 .. loan[l].rate - 1, w \in {Less(loan[l].weekly, Saving), loan[l].weekly} :
        loan' = [loan EXCEPT ![l] = Repriced(loan[l], owed, w, r)]
  BY DEF Reprice
<1> DEFINE row == Repriced(loan[l], owed, w, r)
<1>5. w \in Nat /\ r \in 0 .. MaxRate
  BY <1>2, <1>4, LessTyped, LoanAssumption DEF LoanRow
<1> HIDE DEF l, owed
<1>6. row \in LoanRow /\ row.remaining = owed /\ row.state = loan[l].state
  <2>1. loan[l] \in LoanRow /\ owed \in Nat
    BY <1>2, <1>3
  <2> QED
    BY <2>1, <1>5 DEF Repriced, LoanRow
<1>7. loan' = [loan EXCEPT ![l] = row]
  BY <1>4
<1>8. due' = [due EXCEPT ![l] = owed]
  BY <1>3 DEF Reprice, l
<1>9. \A c \in Borrowers : pc[c] = "reprice" /\ pc'[c] = "reprice"
        => pick[c] \in Loans /\ pick[c] # l
  BY <1>1 DEF IInv, TypeOK, RepriceStands, Reprice, Step, Callers, l
<1>10. loan[l].state \in {"none", "deleted"} => owed = 0
  BY <1>1, <1>2, <1>3 DEF IInv, EmptyOwesNothing
<1> HIDE DEF row
<1> QED
  BY <1>1, <1>2, <1>3, <1>6, <1>7, <1>8, <1>9, <1>10
  DEF IInv, TypeOK, RowsKept, NoLostUpdate, EmptyOwesNothing

\* The remaining steps on rows change no balance, or clear balance and due alike.
LEMMA SeizeKeeps ==
  ASSUME IInv, NEW s \in Servicers, Seize(s)
  PROVE  RowsKept
<1>1. \A l \in Loans :
        /\ loan'[l] \in LoanRow
        /\ loan'[l].remaining = loan[l].remaining
        /\ loan'[l].state # loan[l].state
             => loan'[l].state \in {"defaulted", "repossessed"}
  <2> SUFFICES ASSUME NEW l \in Loans
               PROVE  /\ loan'[l] \in LoanRow
                      /\ loan'[l].remaining = loan[l].remaining
                      /\ loan'[l].state # loan[l].state
                           => loan'[l].state \in {"defaulted", "repossessed"}
    OBVIOUS
  <2>1. loan[l] \in LoanRow
    BY DEF IInv, TypeOK
  <2>2. {loan[l].state, "defaulted", "repossessed"} \subseteq States
    BY <2>1 DEF LoanRow, States
  <2>3. PICK t \in {loan[l].state, "defaulted", "repossessed"} :
          loan'[l] = [loan[l] EXCEPT !.state = t]
    BY <2>1 DEF Seize, IInv, TypeOK, LoanRow
  <2> QED
    BY <2>1, <2>2, <2>3, RowMoved
<1>2. DOMAIN loan' = Loans
  BY DEF Seize, IInv, TypeOK
<1>3. loan' \in [Loans -> LoanRow]
  BY <1>1, <1>2 DEF Seize
<1>4. due' = due /\ pc' = [pc EXCEPT ![s] = "ground"]
  BY DEF Seize, Step
<1> QED
  BY <1>1, <1>3, <1>4
  DEF IInv, TypeOK, RowsKept, RepriceStands, NoLostUpdate, EmptyOwesNothing

LEMMA BankruptcyKeeps ==
  ASSUME IInv, NEW s \in Servicers, ApplyBankruptcy(s)
  PROVE  RowsKept
<1>1. \A l \in Loans :
        /\ loan'[l] \in LoanRow
        /\ l \in Active => /\ loan'[l].remaining = 0 /\ due'[l] = 0
                          /\ loan'[l].state = "defaulted" /\ rowLock[l] = Nobody
        /\ l \notin Active => loan'[l] = loan[l] /\ due'[l] = due[l]
  <2> SUFFICES ASSUME NEW l \in Loans
               PROVE  /\ loan'[l] \in LoanRow
                      /\ l \in Active => /\ loan'[l].remaining = 0 /\ due'[l] = 0
                                        /\ loan'[l].state = "defaulted"
                                        /\ rowLock[l] = Nobody
                      /\ l \notin Active => loan'[l] = loan[l] /\ due'[l] = due[l]
    OBVIOUS
  <2>1. loan[l] \in LoanRow
    BY DEF IInv, TypeOK
  <2>2. LET y == [loan[l] EXCEPT !.state = "defaulted", !.remaining = 0]
        IN  y \in LoanRow /\ y.remaining = 0 /\ y.state = "defaulted"
    BY <2>1, RowDefaulted
  <2> QED
    BY <2>1, <2>2 DEF ApplyBankruptcy
<1>2. loan' \in [Loans -> LoanRow] /\ due' \in [Loans -> Nat]
  BY <1>1 DEF ApplyBankruptcy, IInv, TypeOK
<1>3. \A b \in Borrowers : pc[b] = "reprice" => pick[b] \in Loans \ Active
  BY <1>1, LoanAssumption DEF IInv, RepriceStands, Callers
<1> QED
  BY <1>1, <1>2, <1>3 DEF IInv, RowsKept, NoLostUpdate, EmptyOwesNothing

LEMMA ResetKeeps ==
  ASSUME IInv, Reset
  PROVE  RowsKept
<1> DEFINE gone == [NoLoan EXCEPT !.state = "deleted"]
<1>1. gone \in LoanRow /\ gone.state = "deleted" /\ gone.remaining = 0
  BY LoanAssumption DEF NoLoan, LoanRow, States, Kinds
<1> HIDE DEF gone
<1>2. loan' = [l \in Loans |-> IF loan[l].state = "none" THEN loan[l] ELSE gone]
  BY DEF Reset, gone
<1>3. \A b \in Borrowers : pc[b] # "reprice"
  BY LoanAssumption DEF Reset, IInv, RepriceStands, Callers
<1>4. due' = [l \in Loans |-> 0]
  BY DEF Reset
<1> QED
  BY <1>1, <1>2, <1>3, <1>4
  DEF IInv, TypeOK, RowsKept, NoLostUpdate, EmptyOwesNothing

\* Every step keeps the rows.
LEMMA RowsStep == IInv /\ [Next]_vars => RowsKept
<1> SUFFICES ASSUME IInv, [Next]_vars PROVE RowsKept
  OBVIOUS
<1>1. ASSUME loan' = loan, due' = due PROVE RowsKept
  BY <1>1 DEF IInv, TypeOK, RowsKept, NoLostUpdate, EmptyOwesNothing
<1>2. ASSUME NEW b \in Borrowers, Request(b) PROVE RowsKept
  <2>1. CASE InsertLoan(b)
    <3>1. "unsecured" \in Kinds /\ Principal \in Nat
      BY LoanAssumption DEF Kinds
    <3> QED
      BY <2>1, <3>1, InsertKeeps DEF InsertLoan
  <2>2. CASE BuyAircraft(b)
    <3>1. "aircraft_financing" \in Kinds /\ Financed \in Nat
      BY LoanAssumption DEF Kinds
    <3> QED
      BY <2>2, <3>1, InsertKeeps DEF BuyAircraft
  <2>3. CASE Repay(b)
    <3>1. PICK l \in Active, asked \in Amounts :
            LET payment == IF asked < loan[l].remaining THEN asked
                                                        ELSE loan[l].remaining
            IN  rowLock[l] = Nobody /\ Reduce(l, payment)
      BY <2>3 DEF Repay
    <3>2. l \in Loans /\ loan[l].state = "active"
      BY DEF Active
    <3>3. loan[l].remaining \in Nat /\ asked \in Nat
      BY <3>2, LoanAssumption DEF IInv, TypeOK, LoanRow
    <3> QED
      BY <3>1, <3>2, <3>3, ReduceKeeps
  <2>4. CASE Reprice(b)
    BY <2>4, RepriceKeeps
  <2>5. CASE CountLoans(b) \/ QuoteAircraft(b) \/ ReadForRefinance(b) \/ AbandonRequest(b)
    BY <1>1, <2>5
    DEF CountLoans, QuoteAircraft, ReadForRefinance, AbandonRequest, tables
  <2> QED
    BY <1>2, <2>1, <2>2, <2>3, <2>4, <2>5 DEF Request
<1>3. ASSUME NEW s \in Servicers, Service(s) PROVE RowsKept
  <2>1. CASE ServeRow(s)
    <3>1. PICK l \in Loans : CollectPayment(s, l) \/ DebitRefused(s, l) \/ ChargeLateFee(s, l)
      BY <2>1 DEF ServeRow
    <3>2. CASE CollectPayment(s, l)
      <4>1. bill[s][l] \in Nat /\ loan[l].state # "none" /\ rowLock[l] = Nobody
        BY <3>2 DEF IInv, TypeOK, BilledTaken, CollectPayment, NextRow
      <4>2. Reduce(l, bill[s][l])
        BY <3>2 DEF CollectPayment
      <4> QED
        BY <4>1, <4>2, ReduceKeeps
    <3>3. CASE DebitRefused(s, l)
      BY <1>1, <3>3 DEF DebitRefused, tables
    <3> QED
      BY <3>1, <3>2, <3>3, ChargeKeeps
  <2>2. CASE CheckCash(s) \/ ReadBalance(s) \/ OpenCursor(s) \/ GroundCollateral(s)
             \/ SkipStatement(s) \/ EndPhase(s)
    BY <1>1, <2>2
    DEF CheckCash, ReadBalance, OpenCursor, GroundCollateral, SkipStatement, EndPhase,
        tables
  <2> QED
    BY <1>3, <2>1, <2>2, BankruptcyKeeps, SeizeKeeps DEF Service
<1>4. CASE Fly
  BY <1>1, <1>4 DEF Fly
<1>5. CASE Reset
  BY <1>5, ResetKeeps
<1>6. CASE UNCHANGED vars
  BY <1>1, <1>6 DEF vars, tables
<1> QED
  BY <1>2, <1>3, <1>4, <1>5, <1>6 DEF Next

----------------------------------------------------------------------------
\* A servicer moves on, and may note a loan; it takes no lock over its step.
LEMMA ServiceMoves ==
  ASSUME IInv, NEW s \in Servicers, Service(s)
  PROVE  /\ rowLock' = rowLock /\ read' = read
         /\ \E p \in Places : pc' = [pc EXCEPT ![s] = p]
         /\ pick' = pick \/ \E n \in Nat : pick' = [pick EXCEPT ![s] = n]
<1>1. ASSUME NEW l \in Loans, CollectPayment(s, l) \/ DebitRefused(s, l) PROVE pick' = pick
  BY <1>1 DEF CollectPayment, DebitRefused, borrowing
<1>2. ASSUME NEW l \in Loans, ChargeLateFee(s, l)
      PROVE  pick' = pick \/ \E n \in Nat : pick' = [pick EXCEPT ![s] = n]
  <2>1. l \in Nat
    BY DEF Loans
  <2>2. pick' = pick \/ pick' = [pick EXCEPT ![s] = l]
    BY <1>2 DEF ChargeLateFee
  <2> QED
    BY <2>1, <2>2
<1>3. CASE GroundCollateral(s)
  <2>1. pick' = [pick EXCEPT ![s] = 1] /\ 1 \in Nat
    BY <1>3 DEF GroundCollateral
  <2>2. \E p \in Places : pc' = [pc EXCEPT ![s] = p]
    BY <1>3 DEF GroundCollateral, Step, Places
  <2> QED
    BY <1>3, <2>1, <2>2 DEF GroundCollateral
<1>4. CASE CheckCash(s) \/ ApplyBankruptcy(s) \/ ReadBalance(s)
  BY <1>4 DEF CheckCash, ApplyBankruptcy, ReadBalance, Step, Places, borrowing
<1>5. CASE OpenCursor(s) \/ Seize(s) \/ EndPhase(s)
  BY <1>5 DEF OpenCursor, Seize, EndPhase, Step, Places, borrowing
<1>6. CASE SkipStatement(s)
  BY <1>6 DEF SkipStatement, Step, Places, borrowing
<1>7. ASSUME NEW l \in Loans, CollectPayment(s, l) \/ DebitRefused(s, l) \/ ChargeLateFee(s, l)
      PROVE  /\ rowLock' = rowLock /\ read' = read
             /\ \E p \in Places : pc' = [pc EXCEPT ![s] = p]
  BY <1>7 DEF CollectPayment, DebitRefused, ChargeLateFee, Step, Places, borrowing
<1> QED
  BY <1>1, <1>2, <1>3, <1>4, <1>5, <1>6, <1>7 DEF Service, ServeRow

\* A servicer is no borrower, so its steps leave the requests alone.
LEMMA ServiceLeavesRequests ==
  ASSUME IInv, NEW s \in Servicers, Service(s)
  PROVE  /\ rowLock' = rowLock
         /\ \A b \in Borrowers : /\ pc'[b] = pc[b]
                                /\ pick'[b] = pick[b] /\ read'[b] = read[b]
<1>1. \A b \in Borrowers : b \in Callers /\ b # s
  BY LoanAssumption DEF Callers
<1>2. PICK p \in Places : pc' = [pc EXCEPT ![s] = p]
  BY ServiceMoves
<1>3. pick' = pick \/ \E n \in Nat : pick' = [pick EXCEPT ![s] = n]
  BY ServiceMoves
<1>4. pc \in [Callers -> Places] /\ pick \in [Callers -> Nat]
  BY DEF IInv, TypeOK
<1>5. rowLock' = rowLock /\ read' = read
  BY ServiceMoves
<1> QED
  BY <1>1, <1>2, <1>3, <1>4, <1>5

\* A request that reads a balance to rescale takes the row's lock with it, and
\* keeps both until it writes or gives up.
LEMMA RepriceStep == IInv /\ [Next]_vars => RepriceStands'
<1> SUFFICES ASSUME IInv, [Next]_vars, NEW b \in Borrowers, pc'[b] = "reprice"
             PROVE  /\ pick'[b] \in Loans
                    /\ rowLock'[pick'[b]] = b
                    /\ read'[b] = loan'[pick'[b]].remaining
                    /\ loan'[pick'[b]].state # "none"
  BY DEF RepriceStands
<1> DEFINE Goal == /\ pick'[b] \in Loans
                   /\ rowLock'[pick'[b]] = b
                   /\ read'[b] = loan'[pick'[b]].remaining
                   /\ loan'[pick'[b]].state # "none"
<1>0. RowsKept
  BY RowsStep
<1>1. b \in Callers /\ b # Nobody
  BY LoanAssumption DEF Callers
<1>2. ASSUME pc[b] = "reprice", pick'[b] = pick[b], read'[b] = read[b],
             rowLock'[pick[b]] = rowLock[pick[b]]
      PROVE  Goal
  BY <1>0, <1>2 DEF RowsKept, IInv, RepriceStands
<1>3. ASSUME NEW s \in Servicers, Service(s) PROVE Goal
  BY <1>2, <1>3, ServiceLeavesRequests
<1>4. ASSUME NEW c \in Borrowers, Request(c), c # b PROVE Goal
  <2>1. pc[b] = "reprice" /\ pick'[b] = pick[b] /\ read'[b] = read[b]
    BY <1>1, <1>4
    DEF IInv, TypeOK, Request, CountLoans, InsertLoan, QuoteAircraft, BuyAircraft, Repay,
        ReadForRefinance, Reprice, AbandonRequest, Step, borrowing, Callers
  <2>2. pick[b] \in Loans /\ rowLock[pick[b]] = b
    BY <2>1 DEF IInv, RepriceStands
  <2>3. rowLock'[pick[b]] = rowLock[pick[b]]
    <3>1. CASE ReadForRefinance(c)
      BY <1>1, <2>2, <3>1 DEF ReadForRefinance, IInv, TypeOK
    <3>2. CASE Reprice(c)
      BY <1>4, <2>2, <3>2 DEF Reprice, Step, IInv, TypeOK, RepriceStands
    <3>3. CASE AbandonRequest(c)
      BY <1>4, <2>2, <3>3 DEF AbandonRequest
    <3>4. CASE CountLoans(c) \/ InsertLoan(c) \/ QuoteAircraft(c) \/ BuyAircraft(c)
               \/ Repay(c)
      BY <3>4 DEF CountLoans, InsertLoan, QuoteAircraft, BuyAircraft, Repay
    <3> QED
      BY <1>4, <3>1, <3>2, <3>3, <3>4 DEF Request
  <2> QED
    BY <1>2, <2>1, <2>3
<1>5. CASE Request(b)
  <2>1. ReadForRefinance(b)
    BY <1>1, <1>5
    DEF IInv, TypeOK, Request, CountLoans, InsertLoan, QuoteAircraft, BuyAircraft, Repay,
        Reprice, AbandonRequest, Step
  <2>2. PICK l \in Active : /\ rowLock' = [rowLock EXCEPT ![l] = b]
                            /\ pick' = [pick EXCEPT ![b] = l]
                            /\ read' = [read EXCEPT ![b] = loan[l].remaining]
    BY <2>1 DEF ReadForRefinance
  <2>3. loan' = loan
    BY <2>1 DEF ReadForRefinance, tables
  <2> QED
    BY <1>1, <2>2, <2>3 DEF Active, IInv, TypeOK
<1>6. CASE Fly
  BY <1>2, <1>6 DEF Fly, borrowing
<1>7. CASE Reset
  BY <1>2, <1>7 DEF Reset, borrowing
<1>8. CASE UNCHANGED vars
  BY <1>2, <1>8 DEF vars, borrowing
<1> QED
  BY <1>3, <1>4, <1>5, <1>6, <1>7, <1>8 DEF Next

\* A cursor bills loans that are there, and no loan's row is ever empty again.
LEMMA BilledStep == IInv /\ [Next]_vars => BilledTaken'
<1> SUFFICES ASSUME IInv, [Next]_vars, NEW s \in Servicers, NEW l \in Loans,
                    bill'[s][l] > 0
             PROVE  loan'[l].state # "none"
  BY DEF BilledTaken
<1>0. RowsKept
  BY RowsStep
<1>1. bill[s][l] > 0 \/ loan[l].state # "none"
  <2>1. ASSUME NEW c \in Servicers, Service(c) PROVE bill[s][l] > 0 \/ loan[l].state # "none"
    <3>1. CASE OpenCursor(c)
      BY <3>1 DEF OpenCursor, Active, IInv, TypeOK
    <3>2. CASE ServeRow(c) \/ SkipStatement(c)
      <4>1. PICK k \in Loans : bill' = bill \/ Handled(c, k)
        BY <3>2 DEF ServeRow, CollectPayment, DebitRefused, ChargeLateFee, SkipStatement
      <4>2. bill \in [Servicers -> [Loans -> Nat]]
        BY DEF IInv, TypeOK
      <4>3. bill'[s][l] \in {bill[s][l], 0}
        BY <4>1, <4>2 DEF Handled
      <4> QED
        BY <4>3
    <3>3. CASE CheckCash(c) \/ ApplyBankruptcy(c) \/ ReadBalance(c) \/ Seize(c)
               \/ GroundCollateral(c) \/ EndPhase(c)
      BY <3>3 DEF CheckCash, ApplyBankruptcy, ReadBalance, Seize, GroundCollateral, EndPhase,
                  serving
    <3> QED
      BY <2>1, <3>1, <3>2, <3>3 DEF Service
  <2>2. ASSUME NEW b \in Borrowers, Request(b) PROVE bill[s][l] > 0
    BY <2>2
    DEF Request, CountLoans, InsertLoan, QuoteAircraft, BuyAircraft, Repay,
        ReadForRefinance, Reprice, AbandonRequest, serving
  <2>3. CASE Fly \/ Reset \/ UNCHANGED vars
    BY <2>3 DEF Fly, Reset, vars, serving
  <2> QED
    BY <2>1, <2>2, <2>3 DEF Next
<1> QED
  BY <1>0, <1>1 DEF RowsKept, IInv, BilledTaken

----------------------------------------------------------------------------
\* The collateral changes in its condition or its title.
LEMMA AircraftTyped == IInv /\ [Next]_vars => aircraft' \in [Loans -> AircraftRow]
<1> SUFFICES ASSUME IInv, [Next]_vars PROVE aircraft' \in [Loans -> AircraftRow]
  OBVIOUS
<1> DEFINE Good == aircraft' \in [Loans -> AircraftRow]
<1>1. aircraft \in [Loans -> AircraftRow]
  BY DEF IInv, TypeOK
<1>2. NoAircraft \in AircraftRow /\ [status |-> "active", title |-> "finance"] \in AircraftRow
  BY DEF NoAircraft, AircraftRow
<1>3. \A x \in AircraftRow :
        /\ [x EXCEPT !.status = "grounded"] \in AircraftRow
        /\ \A t \in {x.title, "purchase"} : [x EXCEPT !.title = t] \in AircraftRow
        /\ \A t \in {x.status, "grounded"} : [x EXCEPT !.status = t] \in AircraftRow
  BY DEF AircraftRow
<1>4. ASSUME NEW b \in Borrowers, Request(b) PROVE Good
  <2>1. CASE InsertLoan(b) \/ BuyAircraft(b)
    BY <1>1, <1>2, <2>1 DEF InsertLoan, BuyAircraft, Insert
  <2>2. CASE Repay(b)
    <3>1. PICK l \in Loans : \E t \in {aircraft[l].title, "purchase"} :
            aircraft' = [aircraft EXCEPT ![l].title = t]
      BY <2>2 DEF Repay, Active
    <3>2. PICK t \in {aircraft[l].title, "purchase"} :
            aircraft' = [aircraft EXCEPT ![l].title = t]
      BY <3>1
    <3>3. [aircraft[l] EXCEPT !.title = t] \in AircraftRow
      BY <1>1, <1>3
    <3> QED
      BY <1>1, <3>2, <3>3
  <2>3. CASE CountLoans(b) \/ QuoteAircraft(b) \/ ReadForRefinance(b) \/ Reprice(b)
             \/ AbandonRequest(b)
    BY <1>1, <2>3
    DEF CountLoans, QuoteAircraft, ReadForRefinance, Reprice, AbandonRequest, tables
  <2> QED
    BY <1>4, <2>1, <2>2, <2>3 DEF Request
<1>5. ASSUME NEW s \in Servicers, Service(s) PROVE Good
  <2>1. CASE ApplyBankruptcy(s)
    BY <1>1, <1>3, <2>1 DEF ApplyBankruptcy
  <2>2. CASE GroundCollateral(s)
    BY <1>1, <1>3, <2>2 DEF GroundCollateral
  <2>3. CASE ServeRow(s) \/ CheckCash(s) \/ ReadBalance(s) \/ OpenCursor(s) \/ Seize(s)
             \/ SkipStatement(s) \/ EndPhase(s)
    BY <1>1, <2>3
    DEF ServeRow, CollectPayment, DebitRefused, ChargeLateFee, CheckCash, ReadBalance,
        OpenCursor, Seize, SkipStatement, EndPhase, tables
  <2> QED
    BY <1>5, <2>1, <2>2, <2>3 DEF Service
<1>6. CASE Fly \/ Reset \/ UNCHANGED vars
  BY <1>1, <1>2, <1>6 DEF Fly, Reset, vars, tables
<1> QED
  BY <1>4, <1>5, <1>6 DEF Next

\* Every variable keeps its type.
LEMMA TypeStep == IInv /\ [Next]_vars => TypeOK'
<1> SUFFICES ASSUME IInv, [Next]_vars PROVE TypeOK'
  OBVIOUS
<1>0. RowsKept /\ aircraft' \in [Loans -> AircraftRow]
  BY RowsStep, AircraftTyped
<1>1. /\ Loans \subseteq Nat /\ 1 \in Nat
      /\ Borrowers \subseteq Callers /\ Servicers \subseteq Callers
      /\ {"unsecured", "aircraft_financing"} \subseteq Kinds
      /\ \A l \in Loans : loan[l].remaining \in Nat /\ loan[l].weekly \in Nat
  <2>1. \A l \in Loans : loan[l].remaining \in Nat /\ loan[l].weekly \in Nat
    BY DEF IInv, TypeOK, LoanRow
  <2>2. Loans \subseteq Nat
    BY DEF Loans
  <2> QED
    BY <2>1, <2>2 DEF Callers, Kinds
<1> DEFINE Money == /\ cash' \in Int /\ status' \in {"Active", "Bankrupt"}
                    /\ streak' \in [Loans -> Nat] /\ faults' \in Nat
           Asked == /\ rowLock' \in [Loans -> Borrowers \cup {Nobody}]
                    /\ pick' \in [Callers -> Nat] /\ read' \in [Callers -> Nat]
           Served == /\ phase' \in [Servicers -> Kinds]
                     /\ purse' \in [Servicers -> Int]
                     /\ bill' \in [Servicers -> [Loans -> Nat]]
           Placed == pc' \in [Callers -> Places]
<1>2. ASSUME NEW b \in Borrowers, Request(b) PROVE Money /\ Asked /\ Served /\ Placed
  <2>0. Principal \in Int /\ DownPayment \in Int /\ Amounts \subseteq Int
    BY LoanAssumption
  <2>1. Placed
    BY <1>1, <1>2
    DEF Request, CountLoans, QuoteAircraft, InsertLoan, BuyAircraft, Repay, Reprice,
        ReadForRefinance, AbandonRequest, Step, IInv, TypeOK, Places
  <2>2. Served
    BY <1>2
    DEF Request, CountLoans, QuoteAircraft, InsertLoan, BuyAircraft, Repay, Reprice,
        ReadForRefinance, AbandonRequest, serving, IInv, TypeOK
  <2>3. Asked
    <3>1. CASE ReadForRefinance(b)
      BY <1>1, <3>1 DEF ReadForRefinance, IInv, TypeOK, Active
    <3>2. CASE Reprice(b)
      BY <1>1, <3>2 DEF Reprice, IInv, TypeOK
    <3>3. CASE AbandonRequest(b)
      BY <1>1, <3>3 DEF AbandonRequest, IInv, TypeOK
    <3>4. CASE CountLoans(b) \/ QuoteAircraft(b) \/ InsertLoan(b) \/ BuyAircraft(b) \/ Repay(b)
      BY <3>4
      DEF CountLoans, QuoteAircraft, InsertLoan, BuyAircraft, Repay, borrowing, IInv, TypeOK
    <3> QED
      BY <1>2, <3>1, <3>2, <3>3, <3>4 DEF Request
  <2>4. Money
    <3>1. status' = status /\ streak' = streak /\ (faults' = faults \/ faults' = faults + 1)
      BY <1>2
      DEF Request, CountLoans, QuoteAircraft, InsertLoan, BuyAircraft, Repay, Reprice,
          ReadForRefinance, AbandonRequest, Fault, tables
    <3>2. CASE InsertLoan(b) \/ BuyAircraft(b)
      BY <2>0, <3>1, <3>2 DEF InsertLoan, BuyAircraft, IInv, TypeOK
    <3>3. CASE Repay(b)
      BY <1>1, <2>0, <3>1, <3>3 DEF Repay, Active, IInv, TypeOK
    <3>4. CASE CountLoans(b) \/ QuoteAircraft(b) \/ ReadForRefinance(b) \/ Reprice(b)
               \/ AbandonRequest(b)
      BY <3>1, <3>4
      DEF CountLoans, QuoteAircraft, ReadForRefinance, Reprice, AbandonRequest, tables,
          IInv, TypeOK
    <3> QED
      BY <1>2, <3>2, <3>3, <3>4 DEF Request
  <2> QED
    BY <2>1, <2>2, <2>3, <2>4
<1>3. ASSUME NEW s \in Servicers, Service(s) PROVE Money /\ Asked /\ Served /\ Placed
  <2>1. \/ CheckCash(s) \/ ApplyBankruptcy(s) \/ ReadBalance(s) \/ OpenCursor(s)
        \/ Seize(s) \/ GroundCollateral(s) \/ SkipStatement(s) \/ EndPhase(s)
        \/ \E l \in Loans : CollectPayment(s, l) \/ DebitRefused(s, l) \/ ChargeLateFee(s, l)
    BY <1>3 DEF Service, ServeRow
  <2>2. Placed
    BY <1>1, <1>3, ServiceMoves DEF IInv, TypeOK
  <2>3. Asked
    BY <1>1, <1>3, ServiceMoves DEF IInv, TypeOK
  <2>4. Served
    <3>1. CASE OpenCursor(s)
      BY <1>1, <3>1 DEF OpenCursor, Active, IInv, TypeOK
    <3>2. CASE ReadBalance(s) \/ EndPhase(s)
      BY <1>1, <3>2 DEF ReadBalance, EndPhase, IInv, TypeOK
    <3>3. CASE SkipStatement(s)
      <4>1. bill \in [Servicers -> [Loans -> Nat]]
        BY DEF IInv, TypeOK
      <4>2. bill' = bill \/ \E l \in Loans : bill' = [bill EXCEPT ![s][l] = 0]
        BY <3>3 DEF SkipStatement, Handled
      <4>3. bill' \in [Servicers -> [Loans -> Nat]]
        BY <4>1, <4>2
      <4> QED
        BY <3>3, <4>3 DEF SkipStatement, IInv, TypeOK
    <3>4. CASE CheckCash(s) \/ ApplyBankruptcy(s) \/ Seize(s) \/ GroundCollateral(s)
      BY <3>4
      DEF CheckCash, ApplyBankruptcy, Seize, GroundCollateral, serving, IInv, TypeOK
    <3>5. ASSUME NEW l \in Loans,
                 CollectPayment(s, l) \/ DebitRefused(s, l) \/ ChargeLateFee(s, l)
          PROVE  Served
      <4>1. bill[s] \in [Loans -> Nat] /\ bill[s][l] \in Int
        BY <3>5 DEF IInv, TypeOK
      <4> QED
        BY <3>5, <4>1
        DEF CollectPayment, DebitRefused, ChargeLateFee, Handled, IInv, TypeOK
    <3> QED
      BY <2>1, <3>1, <3>2, <3>3, <3>4, <3>5
  <2>5. Money
    <3>1. ASSUME NEW l \in Loans,
                 CollectPayment(s, l) \/ DebitRefused(s, l) \/ ChargeLateFee(s, l)
          PROVE  Money
      <4>1. bill[s] \in [Loans -> Nat] /\ bill[s][l] \in Int
        BY <3>1 DEF IInv, TypeOK
      <4>2. CASE CollectPayment(s, l)
        BY <3>1, <4>1, <4>2 DEF CollectPayment, IInv, TypeOK
      <4>3. CASE DebitRefused(s, l)
        BY <4>3 DEF DebitRefused, tables, IInv, TypeOK
      <4>4. CASE ChargeLateFee(s, l)
        BY <3>1, <4>4 DEF ChargeLateFee, IInv, TypeOK
      <4> QED
        BY <3>1, <4>2, <4>3, <4>4
    <3>2. CASE ApplyBankruptcy(s)
      BY <3>2 DEF ApplyBankruptcy, IInv, TypeOK
    <3>3. CASE SkipStatement(s)
      BY <3>3 DEF SkipStatement, Fault, tables, IInv, TypeOK
    <3>4. CASE CheckCash(s) \/ ReadBalance(s) \/ OpenCursor(s) \/ Seize(s)
               \/ GroundCollateral(s) \/ EndPhase(s)
      BY <3>4
      DEF CheckCash, ReadBalance, OpenCursor, Seize, GroundCollateral, EndPhase, tables,
          IInv, TypeOK
    <3> QED
      BY <2>1, <3>1, <3>2, <3>3, <3>4
  <2> QED
    BY <2>2, <2>3, <2>4, <2>5
<1>4. ASSUME Fly PROVE Money /\ Asked /\ Served /\ Placed
  BY <1>4 DEF Fly, borrowing, serving, IInv, TypeOK, Places
<1>5. ASSUME Reset PROVE Money /\ Asked /\ Served /\ Placed
  <2>1. /\ cash' = StartingCash /\ status' = "Active"
        /\ streak' = [l \in Loans |-> 0]
        /\ UNCHANGED <<rowLock, pc, borrowing, serving, faults>>
    BY <1>5 DEF Reset
  <2>2. StartingCash \in Int
    BY LoanAssumption
  <2> QED
    BY <2>1, <2>2 DEF borrowing, serving, IInv, TypeOK, Places
<1>6. ASSUME UNCHANGED vars PROVE Money /\ Asked /\ Served /\ Placed
  BY <1>6 DEF vars, tables, borrowing, serving, IInv, TypeOK, Places
<1> HIDE DEF Money, Asked, Served, Placed
<1>7. Money /\ Asked /\ Served /\ Placed
  BY <1>2, <1>3, <1>4, <1>5, <1>6 DEF Next
<1> QED
  BY <1>0, <1>7 DEF RowsKept, TypeOK, Money, Asked, Served, Placed, Places

----------------------------------------------------------------------------
\* The invariant holds in every state of every behaviour.
THEOREM Invariance == Spec => []IInv
<1>1. Init => IInv
  BY Initially
<1>2. IInv /\ [Next]_vars => IInv'
  BY TypeStep, RepriceStep, BilledStep, RowsStep DEF IInv, RowsKept
<1> QED
  BY <1>1, <1>2, PTL DEF Spec

\* Tables, callers and cursors stay well typed: no balance, count or installment
\* goes below zero.
THEOREM TypeCorrect == Spec => []TypeOK
<1>1. IInv => TypeOK
  BY DEF IInv
<1> QED
  BY <1>1, Invariance, PTL

\* Refinancing, payments, fees, defaults and resets leave each loan where they
\* would if they had run one after another (bank.go:206).
THEOREM LosesNoUpdate == Spec => []NoLostUpdate
<1>1. IInv => NoLostUpdate
  BY DEF IInv
<1> QED
  BY <1>1, Invariance, PTL

\* No request and no installment takes the account below zero, whatever balance
\* it was judged by before (engine.go:97).
THEOREM OverdrawsOnlyByFlying == Spec => OnlyFlyingOverdraws
<1>1. IInv /\ [Next]_vars => [(cash' < cash /\ cash' < 0) => Fly]_vars
  <2> SUFFICES ASSUME IInv, [Next]_vars, cash' < cash, cash' < 0 PROVE Fly
    BY DEF vars, tables
  <2>0. cash \in Int /\ ~ (cash < cash)
    BY DEF IInv, TypeOK
  <2>1. ASSUME NEW b \in Borrowers, Request(b) PROVE FALSE
    <3>1. CASE InsertLoan(b)
      BY <2>0, <3>1, LoanAssumption DEF InsertLoan
    <3>2. CASE BuyAircraft(b)
      BY <2>0, <3>2, LoanAssumption DEF BuyAircraft, Covers
    <3>3. CASE Repay(b)
      <4>1. PICK l \in Active, asked \in Amounts :
              LET payment == IF asked < loan[l].remaining THEN asked
                                                          ELSE loan[l].remaining
              IN  Covers(payment) /\ cash' = cash - payment
        BY <3>3 DEF Repay
      <4>2. asked \in Nat /\ loan[l].remaining \in Nat
        BY LoanAssumption DEF Active, IInv, TypeOK, LoanRow
      <4> QED
        BY <2>0, <4>1, <4>2 DEF Covers
    <3>4. CASE CountLoans(b) \/ QuoteAircraft(b) \/ ReadForRefinance(b) \/ Reprice(b)
               \/ AbandonRequest(b)
      BY <2>0, <3>4
      DEF CountLoans, QuoteAircraft, ReadForRefinance, Reprice, AbandonRequest, tables
    <3> QED
      BY <2>1, <3>1, <3>2, <3>3, <3>4 DEF Request
  <2>2. ASSUME NEW s \in Servicers, Service(s) PROVE FALSE
    <3>1. ASSUME NEW l \in Loans, CollectPayment(s, l) PROVE FALSE
      <4>1. bill[s][l] \in Nat
        BY DEF IInv, TypeOK
      <4> QED
        BY <2>0, <3>1, <4>1 DEF CollectPayment, Covers
    <3>2. ASSUME NEW l \in Loans, DebitRefused(s, l) \/ ChargeLateFee(s, l) PROVE FALSE
      BY <2>0, <3>2 DEF DebitRefused, ChargeLateFee, tables
    <3>3. CASE CheckCash(s) \/ ApplyBankruptcy(s) \/ ReadBalance(s) \/ OpenCursor(s)
               \/ Seize(s) \/ GroundCollateral(s) \/ SkipStatement(s) \/ EndPhase(s)
      BY <2>0, <3>3
      DEF CheckCash, ApplyBankruptcy, ReadBalance, OpenCursor, Seize, GroundCollateral,
          SkipStatement, EndPhase, tables
    <3> QED
      BY <2>2, <3>1, <3>2, <3>3 DEF Service, ServeRow
  <2>3. CASE Reset
    <3>1. cash' = StartingCash /\ StartingCash \in Nat
      BY <2>3, LoanAssumption DEF Reset
    <3> QED
      BY <3>1
  <2>4. CASE UNCHANGED vars
    BY <2>0, <2>4 DEF vars, tables
  <2> QED
    BY <2>1, <2>2, <2>3, <2>4 DEF Next
<1> QED
  BY <1>1, Invariance, PTL DEF Spec, OnlyFlyingOverdraws

----------------------------------------------------------------------------
(* What is true in place of LoanCap and ConsecutiveMisses *)

\* Rows are inserted once and deleted for good, keep their kind, and count their misses
\* up; only a seizure repossesses.
RowsAge ==
  \A l \in Loans :
    /\ loan[l].state = "deleted" => loan'[l].state = "deleted"
    /\ loan'[l].state = "active" => loan[l].state \in {"active", "none"}
    /\ loan[l].state # "none" =>
         \/ loan'[l].state = "deleted"
         \/ loan'[l].kind = loan[l].kind /\ loan'[l].missed >= loan[l].missed
    /\ loan'[l].state = "repossessed" /\ loan[l].state # "repossessed" =>
         \E s \in Servicers : Seize(s) /\ pick[s] = l /\ phase[s] # "unsecured"

\* No row becomes active.
NoNewRow == \A l \in Loans : loan'[l].state = "active" => loan[l].state = "active"

\* A new row is active, of its kind, and alone.
LEMMA InsertAges ==
  ASSUME IInv, NEW kind \in Kinds, NEW owed \in Nat, NEW there,
         Insert(kind, owed, there)
  PROVE  /\ RowsAge
         /\ \E l \in Loans :
              /\ loan[l].state = "none" /\ loan'[l].kind = kind
              /\ \A k \in Loans \ {l} : loan'[k] = loan[k]
<1>1. PICK l \in Loans :
        /\ loan[l].state = "none"
        /\ loan' = [loan EXCEPT ![l] =
             [state |-> "active", kind |-> kind, remaining |-> owed,
              weekly |-> Installment, rate |-> MaxRate, missed |-> 0]]
  BY DEF Insert
<1>2. /\ loan'[l].state = "active" /\ loan'[l].kind = kind
      /\ \A k \in Loans \ {l} : loan'[k] = loan[k]
  BY <1>1 DEF IInv, TypeOK
<1>3. \A k \in Loans : loan[k].missed \in Nat
  BY DEF IInv, TypeOK, LoanRow
<1> QED
  BY <1>1, <1>2, <1>3 DEF RowsAge

\* A payment may settle a row, and changes neither its kind nor its misses.
LEMMA ReduceAges ==
  ASSUME IInv, NEW l \in Loans, NEW payment, Reduce(l, payment), loan[l].state # "none"
  PROVE  RowsAge /\ NoNewRow
<1>1. \A k \in Loans : loan[k] \in LoanRow /\ loan[k].missed \in Nat
  BY DEF IInv, TypeOK, LoanRow
<1>2. CASE loan[l].state = "deleted"
  BY <1>1, <1>2 DEF Reduce, RowsAge, NoNewRow
<1>3. CASE loan[l].state # "deleted"
  <2>1. loan' = [loan EXCEPT ![l] = Paid(loan[l], payment)]
    BY <1>3 DEF Reduce
  <2>2. /\ Paid(loan[l], payment).kind = loan[l].kind
        /\ Paid(loan[l], payment).missed = loan[l].missed
        /\ Paid(loan[l], payment).state \in {"paid_off", loan[l].state}
    BY <1>1 DEF Paid, LoanRow
  <2>3. /\ loan'[l].kind = loan[l].kind /\ loan'[l].missed = loan[l].missed
        /\ loan'[l].state \in {"paid_off", loan[l].state}
        /\ \A k \in Loans \ {l} : loan'[k] = loan[k]
    BY <2>1, <2>2 DEF IInv, TypeOK
  <2> QED
    BY <1>1, <1>3, <2>3 DEF RowsAge, NoNewRow
<1> QED
  BY <1>2, <1>3

\* New terms change neither the state of a row nor its misses.
LEMMA RepriceAges ==
  ASSUME IInv, NEW b \in Borrowers, Reprice(b) PROVE RowsAge /\ NoNewRow
<1>1. \A k \in Loans : loan[k] \in LoanRow /\ loan[k].missed \in Nat
  BY DEF IInv, TypeOK, LoanRow
<1>2. PICK r, w : loan' = [loan EXCEPT ![pick[b]] =
                             Repriced(loan[pick[b]], Less(read[b], Saving), w, r)]
  BY DEF Reprice
<1>3. pick[b] \in Loans
  BY DEF Reprice, Step, IInv, RepriceStands
<1>4. /\ loan'[pick[b]].kind = loan[pick[b]].kind /\ loan'[pick[b]].missed = loan[pick[b]].missed
      /\ loan'[pick[b]].state = loan[pick[b]].state
      /\ \A k \in Loans \ {pick[b]} : loan'[k] = loan[k]
  BY <1>1, <1>2, <1>3 DEF Repriced, LoanRow, IInv, TypeOK
<1> QED
  BY <1>1, <1>3, <1>4 DEF RowsAge, NoNewRow

\* A fee counts a miss.
LEMMA ChargeAges ==
  ASSUME IInv, NEW s \in Servicers, NEW l \in Loans, ChargeLateFee(s, l)
  PROVE  /\ RowsAge /\ NoNewRow
         /\ loan[l].state # "none"
         /\ pc'[s] = "seize" =>
              /\ pick'[s] = l /\ loan'[l].state # "none" /\ loan'[l].missed >= Patience(s)
<1>1. \A k \in Loans : loan[k] \in LoanRow /\ loan[k].missed \in Nat
  BY DEF IInv, TypeOK, LoanRow
<1>2. loan[l].state # "none"
  BY DEF ChargeLateFee, NextRow, IInv, BilledTaken
<1>3. s \in Callers /\ pc \in [Callers -> Places] /\ pick \in [Callers -> Nat]
  BY DEF Callers, IInv, TypeOK
<1>4. CASE loan[l].state = "deleted"
  <2>1. loan' = loan /\ pc'[s] # "seize"
    BY <1>3, <1>4 DEF ChargeLateFee, Step
  <2> QED
    BY <1>1, <1>2, <2>1 DEF RowsAge, NoNewRow
<1>5. CASE loan[l].state # "deleted"
  <2>1. /\ loan' = [loan EXCEPT ![l] = Charged(loan[l])]
        /\ pick' = [pick EXCEPT ![s] = l]
        /\ pc' = [pc EXCEPT ![s] = IF loan[l].missed + 1 >= Patience(s)
                                     THEN "seize" ELSE "serve"]
    BY <1>5 DEF ChargeLateFee, Step
  <2>2. /\ Charged(loan[l]).kind = loan[l].kind /\ Charged(loan[l]).state = loan[l].state
        /\ Charged(loan[l]).missed = loan[l].missed + 1
    BY <1>1 DEF Charged, LoanRow
  <2>3. /\ loan'[l].kind = loan[l].kind /\ loan'[l].state = loan[l].state
        /\ loan'[l].missed = loan[l].missed + 1
        /\ \A k \in Loans \ {l} : loan'[k] = loan[k]
    BY <2>1, <2>2 DEF IInv, TypeOK
  <2>4. pc'[s] = "seize" => pick'[s] = l /\ loan[l].missed + 1 >= Patience(s)
    BY <1>3, <2>1
  <2> QED
    BY <1>1, <1>2, <2>3, <2>4 DEF RowsAge, NoNewRow
<1> QED
  BY <1>4, <1>5

LEMMA SeizeAges == ASSUME IInv, NEW s \in Servicers, Seize(s) PROVE RowsAge /\ NoNewRow
<1>1. \A k \in Loans : loan[k] \in LoanRow /\ loan[k].missed \in Nat
  BY DEF IInv, TypeOK, LoanRow
<1>2. CASE pick[s] \in Loans
  <2>1. PICK l \in Loans : l = pick[s]
    BY <1>2
  <2>2. PICK st : /\ loan' = [loan EXCEPT ![l].state = st]
                  /\ st = CASE loan[l].state = "deleted" -> loan[l].state
                            [] loan[l].state # "deleted" /\ phase[s] = "unsecured" -> "defaulted"
                            [] OTHER -> "repossessed"
    BY <2>1 DEF Seize
  <2>3. /\ loan[l].state = "deleted" => st = "deleted"
        /\ st = "repossessed" /\ loan[l].state # "repossessed" => phase[s] # "unsecured"
        /\ st # "active" \/ loan[l].state = "active"
    <3>1. CASE loan[l].state = "deleted"
      BY <2>2, <3>1
    <3>2. CASE loan[l].state # "deleted" /\ phase[s] = "unsecured"
      BY <2>2, <3>2
    <3>3. CASE loan[l].state # "deleted" /\ phase[s] # "unsecured"
      BY <2>2, <3>3
    <3> QED
      BY <3>1, <3>2, <3>3
  <2>4. /\ loan'[l].kind = loan[l].kind /\ loan'[l].missed = loan[l].missed
        /\ loan'[l].state = st
        /\ \A k \in Loans \ {l} : loan'[k] = loan[k]
    BY <1>1, <2>2 DEF LoanRow, IInv, TypeOK
  <2> QED
    BY <1>1, <2>1, <2>3, <2>4 DEF RowsAge, NoNewRow
<1>3. CASE pick[s] \notin Loans
  <2>1. loan' = loan
    BY <1>3 DEF Seize, IInv, TypeOK
  <2> QED
    BY <1>1, <2>1 DEF RowsAge, NoNewRow
<1> QED
  BY <1>2, <1>3

\* A default and a deletion.
LEMMA OthersAge ==
  ASSUME IInv,
         \/ \E s \in Servicers : ApplyBankruptcy(s)
         \/ Reset
  PROVE  RowsAge /\ NoNewRow
<1>1. \A k \in Loans : loan[k] \in LoanRow /\ loan[k].missed \in Nat
  BY DEF IInv, TypeOK, LoanRow
<1>2. ASSUME NEW s \in Servicers, ApplyBankruptcy(s) PROVE RowsAge /\ NoNewRow
  <2>1. \A l \in Loans : \/ loan'[l] = loan[l]
                         \/ /\ loan[l].state = "active" /\ loan'[l].state = "defaulted"
                            /\ loan'[l].kind = loan[l].kind /\ loan'[l].missed = loan[l].missed
    BY <1>1, <1>2 DEF ApplyBankruptcy, Active, LoanRow
  <2> QED
    BY <1>1, <2>1 DEF RowsAge, NoNewRow
<1>3. CASE Reset
  <2>1. \A l \in Loans : \/ loan'[l] = loan[l] /\ loan[l].state = "none"
                         \/ loan'[l].state = "deleted"
    BY <1>3 DEF Reset, NoLoan
  <2> QED
    BY <1>1, <2>1 DEF RowsAge, NoNewRow
<1> QED
  BY <1>2, <1>3

LEMMA StandStill == IInv /\ loan' = loan => RowsAge /\ NoNewRow
<1>1. IInv => \A k \in Loans : loan[k].missed \in Nat
  BY DEF IInv, TypeOK, LoanRow
<1> QED
  BY <1>1 DEF RowsAge, NoNewRow

LEMMA ServiceAges == ASSUME IInv, NEW s \in Servicers, Service(s) PROVE RowsAge /\ NoNewRow
<1>1. CASE ServeRow(s)
  <2>1. PICK l \in Loans : CollectPayment(s, l) \/ DebitRefused(s, l) \/ ChargeLateFee(s, l)
    BY <1>1 DEF ServeRow
  <2>2. CASE CollectPayment(s, l)
    <3>1. loan[l].state # "none" /\ Reduce(l, bill[s][l])
      BY <2>2 DEF CollectPayment, NextRow, IInv, BilledTaken
    <3> QED
      BY <3>1, ReduceAges
  <2>3. CASE DebitRefused(s, l)
    BY <2>3, StandStill DEF DebitRefused, tables
  <2> QED
    BY <2>1, <2>2, <2>3, ChargeAges
<1>2. CASE CheckCash(s) \/ ReadBalance(s) \/ OpenCursor(s) \/ GroundCollateral(s)
           \/ SkipStatement(s) \/ EndPhase(s)
  BY <1>2, StandStill
  DEF CheckCash, ReadBalance, OpenCursor, GroundCollateral, SkipStatement, EndPhase, tables
<1> QED
  BY <1>1, <1>2, SeizeAges, OthersAge DEF Service

LEMMA RequestAges == ASSUME IInv, NEW b \in Borrowers, Request(b)
                     PROVE  RowsAge /\ (NoNewRow \/ InsertLoan(b) \/ BuyAircraft(b))
<1>1. CASE InsertLoan(b)
  <2>1. "unsecured" \in Kinds /\ Principal \in Nat
    BY LoanAssumption DEF Kinds
  <2> QED
    BY <1>1, <2>1, InsertAges DEF InsertLoan
<1>2. CASE BuyAircraft(b)
  <2>1. "aircraft_financing" \in Kinds /\ Financed \in Nat
    BY LoanAssumption DEF Kinds
  <2> QED
    BY <1>2, <2>1, InsertAges DEF BuyAircraft
<1>3. CASE Repay(b)
  <2>1. PICK l \in Active : \E payment : Reduce(l, payment)
    BY <1>3 DEF Repay
  <2>2. PICK payment : Reduce(l, payment)
    BY <2>1
  <2> QED
    BY <2>2, ReduceAges DEF Active
<1>4. CASE CountLoans(b) \/ QuoteAircraft(b) \/ ReadForRefinance(b) \/ AbandonRequest(b)
  BY <1>4, StandStill DEF CountLoans, QuoteAircraft, ReadForRefinance, AbandonRequest, tables
<1> QED
  BY <1>1, <1>2, <1>3, <1>4, RepriceAges DEF Request

LEMMA RowsAlwaysAge ==
  IInv /\ [Next]_vars =>
    RowsAge /\ (NoNewRow \/ \E b \in Borrowers : InsertLoan(b) \/ BuyAircraft(b))
BY RequestAges, ServiceAges, OthersAge, StandStill DEF Next, Fly, vars, tables

----------------------------------------------------------------------------
(* Repossession *)

\* Not three consecutive misses, but three.
SeizedAfterMisses ==
  \A l \in Loans : loan[l].state = "repossessed" => loan[l].missed >= RepossessAfter

\* Who is about to seize has counted enough misses, unless a reset came.
SeizureDue ==
  \A s \in Servicers : pc[s] = "seize" =>
    /\ pick[s] \in Loans /\ loan[pick[s]].state # "none"
    /\ loan[pick[s]].state = "deleted" \/ loan[pick[s]].missed >= Patience(s)

LEMMA PatienceTyped == \A s \in Servicers : Patience(s) \in Nat
BY LoanAssumption DEF Patience

\* Whose step it is not stays where it is.
LEMMA OthersWait ==
  ASSUME IInv, NEW s \in Servicers, [Next]_vars, ~ Service(s)
  PROVE  pc'[s] = pc[s] /\ pick'[s] = pick[s] /\ phase'[s] = phase[s]
<1>1. /\ s \in Callers /\ \A b \in Borrowers : b \in Callers /\ b # s
      /\ \A t \in Servicers : t \in Callers
  BY LoanAssumption DEF Callers
<1>2. pc \in [Callers -> Places] /\ pick \in [Callers -> Nat] /\ phase \in [Servicers -> Kinds]
  BY DEF IInv, TypeOK
<1>3. ASSUME NEW b \in Borrowers, Request(b)
      PROVE  pc'[s] = pc[s] /\ pick'[s] = pick[s] /\ phase'[s] = phase[s]
  BY <1>1, <1>2, <1>3
  DEF Request, CountLoans, InsertLoan, QuoteAircraft, BuyAircraft, Repay, ReadForRefinance,
      Reprice, AbandonRequest, Step, borrowing, serving
<1>4. ASSUME NEW t \in Servicers, Service(t), t # s
      PROVE  pc'[s] = pc[s] /\ pick'[s] = pick[s] /\ phase'[s] = phase[s]
  <2>0. /\ \E p \in Places : pc' = [pc EXCEPT ![t] = p]
        /\ pick' = pick \/ \E n \in Nat : pick' = [pick EXCEPT ![t] = n]
    BY <1>4, ServiceMoves, Zenon
  <2>1. PICK p \in Places : pc' = [pc EXCEPT ![t] = p]
    BY <2>0
  <2>2. pick' = pick \/ \E n \in Nat : pick' = [pick EXCEPT ![t] = n]
    BY <2>0
  <2>3. phase' = phase \/ EndPhase(t)
    BY <1>4
    DEF Service, ServeRow, CheckCash, ApplyBankruptcy, ReadBalance, OpenCursor, CollectPayment,
        DebitRefused, ChargeLateFee, Seize, GroundCollateral, SkipStatement, serving
  <2>4. phase'[s] = phase[s]
    BY <1>2, <1>4, <2>3 DEF EndPhase
  <2> QED
    BY <1>1, <1>2, <1>4, <2>1, <2>2, <2>4
<1>5. CASE Fly \/ Reset \/ UNCHANGED vars
  <2>1. pc' = pc /\ pick' = pick /\ phase' = phase
    <3>1. CASE Fly
      BY <3>1 DEF Fly, borrowing, serving
    <3>2. CASE Reset
      BY <3>2 DEF Reset, borrowing, serving
    <3>3. CASE UNCHANGED vars
      BY <3>3 DEF vars, borrowing, serving
    <3> QED
      BY <1>5, <3>1, <3>2, <3>3
  <2> QED
    BY <2>1
<1> QED
  BY <1>3, <1>4, <1>5, Zenon DEF Next

\* Only a late fee sends a servicer to seize.
LEMMA SeizureFollowsFee ==
  ASSUME IInv, NEW s \in Servicers, Service(s), pc'[s] = "seize"
  PROVE  \E l \in Loans : ChargeLateFee(s, l)
<1>1. s \in Callers /\ pc \in [Callers -> Places]
  BY DEF Callers, IInv, TypeOK
<1> QED
  BY <1>1
  DEF Service, ServeRow, CheckCash, ApplyBankruptcy, ReadBalance, OpenCursor, CollectPayment,
      DebitRefused, Seize, GroundCollateral, SkipStatement, EndPhase, Step

LEMMA SeizureDueStep == IInv /\ SeizureDue /\ [Next]_vars => SeizureDue'
<1> SUFFICES ASSUME IInv, SeizureDue, [Next]_vars, NEW s \in Servicers, pc'[s] = "seize"
             PROVE  /\ pick'[s] \in Loans /\ loan'[pick'[s]].state # "none"
                    /\ \/ loan'[pick'[s]].state = "deleted"
                       \/ loan'[pick'[s]].missed >= Patience(s)'
  BY DEF SeizureDue
<1>1. RowsAge /\ RowsKept
  BY RowsAlwaysAge, RowsStep
<1>2. CASE Service(s)
  <2>1. PICK l \in Loans : ChargeLateFee(s, l)
    BY <1>2, SeizureFollowsFee
  <2>2. pick'[s] = l /\ loan'[l].state # "none" /\ loan'[l].missed >= Patience(s)
    BY <2>1, ChargeAges
  <2>3. Patience(s)' = Patience(s)
    BY <2>1 DEF ChargeLateFee, Patience
  <2> QED
    BY <2>2, <2>3
<1>3. CASE ~ Service(s)
  <2>1. pc[s] = "seize" /\ pick'[s] = pick[s] /\ phase'[s] = phase[s]
    BY <1>3, OthersWait
  <2>2. PICK l \in Loans : l = pick[s] /\ loan[l].state # "none"
                           /\ (loan[l].state = "deleted" \/ loan[l].missed >= Patience(s))
    BY <2>1 DEF SeizureDue
  <2>3. loan'[l].state # "none"
    BY <1>1, <2>2 DEF RowsKept
  <2>4. \/ loan'[l].state = "deleted"
        \/ loan'[l].missed >= loan[l].missed /\ loan[l].state # "deleted"
    BY <1>1, <2>2 DEF RowsAge
  <2>5. loan[l].missed \in Nat /\ loan'[l].missed \in Nat /\ Patience(s) \in Nat
    BY <1>1, PatienceTyped DEF RowsKept, IInv, TypeOK, LoanRow
  <2>6. Patience(s)' = Patience(s)
    BY <2>1 DEF Patience
  <2> QED
    BY <2>1, <2>2, <2>3, <2>4, <2>5, <2>6
<1> QED
  BY <1>2, <1>3

LEMMA SeizedStep == IInv /\ SeizureDue /\ SeizedAfterMisses /\ [Next]_vars => SeizedAfterMisses'
<1> SUFFICES ASSUME IInv, SeizureDue, SeizedAfterMisses, [Next]_vars, NEW l \in Loans,
                    loan'[l].state = "repossessed"
             PROVE  loan'[l].missed >= RepossessAfter
  BY DEF SeizedAfterMisses
<1>1. RowsAge /\ RowsKept
  BY RowsAlwaysAge, RowsStep
<1>2. loan[l].missed \in Nat /\ loan'[l].missed \in Nat /\ RepossessAfter \in Nat
  BY <1>1, LoanAssumption DEF RowsKept, IInv, TypeOK, LoanRow
<1>3. CASE loan[l].state = "repossessed"
  <2>1. loan'[l].missed >= loan[l].missed
    BY <1>1, <1>3 DEF RowsAge
  <2>2. loan[l].missed >= RepossessAfter
    BY <1>3 DEF SeizedAfterMisses
  <2> QED
    BY <1>2, <2>1, <2>2
<1>4. CASE loan[l].state # "repossessed"
  <2>1. PICK s \in Servicers : Seize(s) /\ pick[s] = l /\ phase[s] # "unsecured"
    BY <1>1, <1>4 DEF RowsAge
  <2>2. loan[l].state # "none" /\ loan[l].state # "deleted"
    BY <1>1, <2>1 DEF Seize, Step, SeizureDue, RowsAge
  <2>3. loan[l].missed >= RepossessAfter
    BY <2>1, <2>2 DEF Seize, Step, SeizureDue, Patience
  <2>4. loan'[l].missed >= loan[l].missed
    BY <1>1, <2>2 DEF RowsAge
  <2> QED
    BY <1>2, <2>3, <2>4
<1> QED
  BY <1>3, <1>4

\* Whatever requests and servicers race, no aircraft's loan is repossessed before its
\* third miss (dayboundary.go:255), though other installments may have been paid in
\* between.
THEOREM NoEarlyRepossession == Spec => []SeizedAfterMisses
<1>1. Init => SeizureDue /\ SeizedAfterMisses
  BY DEF Init, SeizureDue, SeizedAfterMisses, NoLoan, Callers
<1>2. IInv /\ SeizureDue /\ SeizedAfterMisses /\ [Next]_vars => (SeizureDue /\ SeizedAfterMisses)'
  BY SeizureDueStep, SeizedStep
<1> QED
  BY <1>1, <1>2, Invariance, PTL DEF Spec

----------------------------------------------------------------------------
(* The cap on loans *)

Unsecured == {l \in Active : loan[l].kind = "unsecured"}

\* Requests that have counted and not yet inserted.
Inserting == {b \in Borrowers : pc[b] = "insert"}

\* The cap is overrun by no more than the requests that raced the one that filled it.
CapOverrun ==
  Cardinality(Unsecured) + Cardinality(Inserting) <= MaxActive + Cardinality(Borrowers) - 1

LEMMA CapTyped ==
  ASSUME IsFiniteSet(Borrowers)
  PROVE  /\ IsFiniteSet(Active) /\ Cardinality(Active) \in Nat
         /\ IsFiniteSet(Unsecured) /\ Cardinality(Unsecured) \in Nat
         /\ Cardinality(Unsecured) <= Cardinality(Active)
         /\ IsFiniteSet(Inserting) /\ Cardinality(Inserting) \in Nat
         /\ Cardinality(Inserting) <= Cardinality(Borrowers)
         /\ Cardinality(Borrowers) \in Nat /\ MaxActive \in Nat
<1>1. MaxLoans \in Nat /\ MaxActive \in Nat
  BY LoanAssumption
<1>2. IsFiniteSet(Loans)
  BY <1>1, FS_Interval DEF Loans
<1>3. Active \subseteq Loans /\ Unsecured \subseteq Active /\ Inserting \subseteq Borrowers
  BY DEF Active, Unsecured, Inserting
<1>4. IsFiniteSet(Active)
  BY <1>2, <1>3, FS_Subset
<1> QED
  BY <1>1, <1>3, <1>4, FS_Subset, FS_CardinalityType

LEMMA FewerInLine ==
  ASSUME IsFiniteSet(Borrowers), CapOverrun,
         Unsecured' \subseteq Unsecured, Inserting' \subseteq Inserting
  PROVE  CapOverrun'
<1>1. PICK u, i, n, m \in Nat : /\ u = Cardinality(Unsecured) /\ i = Cardinality(Inserting)
                                /\ n = Cardinality(Borrowers) /\ m = MaxActive
  BY CapTyped
<1>2. PICK v \in Nat : v = Cardinality(Unsecured') /\ v <= u
  BY <1>1, CapTyped, FS_Subset, FS_CardinalityType
<1>3. PICK j \in Nat : j = Cardinality(Inserting') /\ j <= i
  BY <1>1, CapTyped, FS_Subset, FS_CardinalityType
<1>4. u + i <= m + n - 1
  BY <1>1 DEF CapOverrun
<1>5. v + j <= m + n - 1
  BY <1>2, <1>3, <1>4
<1> QED
  BY <1>1, <1>2, <1>3, <1>5 DEF CapOverrun


\* Only InsertLoan makes a loan unsecured and active.
LEMMA UnsecuredFewer ==
  ASSUME IInv, [Next]_vars, \A b \in Borrowers : ~ InsertLoan(b)
  PROVE  Unsecured' \subseteq Unsecured
<1>1. RowsAge
  BY RowsAlwaysAge
<1>2. CASE NoNewRow
  BY <1>1, <1>2 DEF RowsAge, NoNewRow, Unsecured, Active
<1>3. ASSUME NEW b \in Borrowers, BuyAircraft(b) PROVE Unsecured' \subseteq Unsecured
  <2>1. "aircraft_financing" \in Kinds /\ Financed \in Nat
    BY LoanAssumption DEF Kinds
  <2>2. PICK l \in Loans : /\ loan'[l].kind = "aircraft_financing"
                           /\ \A k \in Loans \ {l} : loan'[k] = loan[k]
    BY <1>3, <2>1, InsertAges DEF BuyAircraft
  <2> QED
    BY <2>2 DEF Unsecured, Active
<1> QED
  BY <1>2, <1>3, RowsAlwaysAge

\* Only CountLoans joins the requests about to insert.
LEMMA InLineFewer ==
  ASSUME IInv, [Next]_vars, \A b \in Borrowers : ~ CountLoans(b)
  PROVE  Inserting' \subseteq Inserting
<1>1. pc \in [Callers -> Places] /\ \A b \in Borrowers : b \in Callers
  BY DEF IInv, TypeOK, Callers
<1>2. ASSUME NEW b \in Borrowers, Request(b) PROVE Inserting' \subseteq Inserting
  <2>1. PICK p \in {"idle", "buy", "reprice"} : pc' = [pc EXCEPT ![b] = p]
    BY <1>2
    DEF Request, InsertLoan, QuoteAircraft, BuyAircraft, Repay, ReadForRefinance, Reprice,
        AbandonRequest, Step
  <2> QED
    BY <1>1, <2>1 DEF Inserting
<1>3. ASSUME NEW s \in Servicers, Service(s) PROVE Inserting' \subseteq Inserting
  <2>1. PICK p \in Places : pc' = [pc EXCEPT ![s] = p]
    BY <1>3, ServiceMoves
  <2>2. \A b \in Borrowers : b # s
    BY LoanAssumption
  <2> QED
    BY <1>1, <2>1, <2>2 DEF Inserting
<1>4. CASE Fly \/ Reset \/ UNCHANGED vars
  BY <1>4 DEF Fly, Reset, vars, Inserting
<1> QED
  BY <1>2, <1>3, <1>4 DEF Next

\* A request that finds the cap not reached joins the line.
LEMMA CountOverrun ==
  ASSUME IInv, IsFiniteSet(Borrowers), NEW b \in Borrowers, CountLoans(b)
  PROVE  CapOverrun'
<1>1. Unsecured' = Unsecured
  BY DEF CountLoans, tables, Unsecured, Active
<1>2. PICK u, a, n, m \in Nat : /\ u = Cardinality(Unsecured) /\ a = Cardinality(Active)
                                /\ n = Cardinality(Borrowers) /\ m = MaxActive /\ u <= a
  BY CapTyped
<1>3. PICK j \in Nat : j = Cardinality(Inserting') /\ j <= n
  <2>1. Inserting' \subseteq Borrowers
    BY DEF Inserting
  <2> QED
    BY <1>2, <2>1, FS_Subset, FS_CardinalityType
<1>4. a < m
  BY <1>2 DEF CountLoans
<1>5. u + j <= m + n - 1
  BY <1>2, <1>3, <1>4
<1> QED
  BY <1>1, <1>2, <1>3, <1>5 DEF CapOverrun

\* A request that inserts leaves the line for the cap.
LEMMA InsertOverrun ==
  ASSUME IInv, CapOverrun, IsFiniteSet(Borrowers), NEW b \in Borrowers, InsertLoan(b)
  PROVE  CapOverrun'
<1>1. PICK l \in Loans : \A k \in Loans \ {l} : loan'[k] = loan[k]
  <2>1. "unsecured" \in Kinds /\ Principal \in Nat
    BY LoanAssumption DEF Kinds
  <2> QED
    BY <2>1, InsertAges DEF InsertLoan
<1>2. Unsecured' \subseteq Unsecured \cup {l}
  BY <1>1 DEF Unsecured, Active
<1>3. Inserting' = Inserting \ {b} /\ b \in Inserting
  BY DEF InsertLoan, Step, Inserting, IInv, TypeOK, Callers
<1>4. PICK u, i, n, m \in Nat : /\ u = Cardinality(Unsecured) /\ i = Cardinality(Inserting)
                                /\ n = Cardinality(Borrowers) /\ m = MaxActive
  BY CapTyped
<1>5. PICK v \in Nat : v = Cardinality(Unsecured') /\ v <= u + 1
  <2>1. IsFiniteSet(Unsecured)
    BY CapTyped
  <2>2. /\ IsFiniteSet(Unsecured \cup {l})
        /\ Cardinality(Unsecured \cup {l}) \in {u, u + 1}
    BY <1>4, <2>1, FS_AddElement
  <2> QED
    BY <1>2, <1>4, <2>2, FS_Subset, FS_CardinalityType
<1>6. PICK j \in Nat : j = Cardinality(Inserting') /\ j = i - 1
  BY <1>3, <1>4, CapTyped, FS_RemoveElement, FS_CardinalityType
<1>7. u + i <= m + n - 1
  BY <1>4 DEF CapOverrun
<1>8. v + j <= m + n - 1
  BY <1>4, <1>5, <1>6, <1>7
<1> QED
  BY <1>4, <1>5, <1>6, <1>8 DEF CapOverrun

\* The cap of bank.go:55 may be overrun (LoanCap), but never by more than the requests
\* that counted along with the one that filled it.
THEOREM CapOverrunBounded ==
  ASSUME IsFiniteSet(Borrowers), Borrowers # {}
  PROVE  Spec => []CapOverrun
<1>1. Init => CapOverrun
  <2> SUFFICES ASSUME Init PROVE CapOverrun
    OBVIOUS
  <2>1. Unsecured = {} /\ Inserting = {}
    BY DEF Init, Unsecured, Active, NoLoan, Inserting, Callers
  <2>2. Cardinality(Unsecured) = 0 /\ Cardinality(Inserting) = 0
    BY <2>1, FS_EmptySet
  <2>3. Cardinality(Borrowers) \in Nat \ {0} /\ MaxActive \in Nat
    BY FS_CardinalityType, FS_EmptySet, LoanAssumption
  <2> QED
    BY <2>2, <2>3 DEF CapOverrun
<1>2. IInv /\ CapOverrun /\ [Next]_vars => CapOverrun'
  BY CountOverrun, InsertOverrun, UnsecuredFewer, InLineFewer, FewerInLine
<1> QED
  BY <1>1, <1>2, Invariance, PTL DEF Spec
=============================================================================
