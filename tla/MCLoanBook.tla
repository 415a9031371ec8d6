----------------------------- MODULE MCLoanBook -----------------------------
EXTENDS LoanBook

MCFloor == -2
MCMinCash == -3
MCFlows == {-2, 2}
=============================================================================
