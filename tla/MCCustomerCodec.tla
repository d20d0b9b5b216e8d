---------------------------- MODULE MCCustomerCodec ----------------------------
EXTENDS CustomerCodec

Cust(name, street, agency, report) ==
  [Name |-> name, Id |-> 7, Active |-> TRUE, Street |-> street, City |-> "c",
   State |-> "s", Zip |-> "z", Agency |-> agency, Report |-> report]

\* The sender starts from the Go zero value (a nil Report) or a filled-in
\* customer; both then take every Set and every Report assignment.
MCCustomers ==
  {[Cust("", "", 0, NilReport) EXCEPT !.Id = 0, !.Active = FALSE, !.City = "",
                                      !.State = "", !.Zip = ""],
   Cust("ann", "main", 2, [tag |-> "TransUnionReport", rating |-> 1])}

\* The receiver holds a different customer, or one whose enum Set left at -1.
MCOlds ==
  {Cust("bob", "elm", 1, [tag |-> "ExperianReport", rating |-> 1]),
   Cust("bob", "elm", -1, NilReport)}

\* An exact label, a lower-case label, and an unknown one, of each enum.
MCLabels == {"Experian", "transunion", "Bad", "good", "Bogus"}
====
