----------------------------- MODULE MCPostings -----------------------------
(***************************************************************************)
(* Instances of Postings for TLC: documents of up to two lines, small      *)
(* amounts and rates that do not divide.                                   *)
(***************************************************************************)
EXTENDS Postings, TLC, SequencesExt

Rates == {NoRate, <<1, 3>>, <<29, 10>>}
UpTo(S, n) == UNION {[1..k -> S] : k \in 1..n}

TaxTable == "t19" :> 190 @@ "t7" :> 70

SaleLines == [qty : {5, 10, 13}, price : {0, 1, 33}, account : {"sales", "services"}, tax : {Missing, "t19", "t7"}]
Invoices == [kind : {"invoice"}, lines : UpTo(SaleLines, 2), stamp : {0, 10}, discount : {0, 7, 50},
             rate : Rates, cleared : {0}]
\* Half a cent on each of four accounts: every group rounds up, and the total
\* is less than what the largest can give back.
Splinters == [kind : {"invoice"}, stamp : {0}, discount : {0}, rate : Rates, cleared : {0},
              lines : {[i \in 1..4 |-> [qty |-> 5, price |-> 1, tax |-> Missing,
                                        account |-> <<"sales", "services", "rents", "fees">>[i]]]}]
FreeInvoices == {x \in Invoices : x.rate = NoRate}

PurchaseLines == [qty : {5, 13}, price : {33}, account : {"expense", "inventory"}, tax : {Missing, "t19"}]
Bills == [kind : {"bill"}, lines : UpTo(PurchaseLines, 2), stamp : {0}, discount : {0},
          rate : Rates, cleared : {0, 20, 90}]

Payments == [kind : {"payment"}, inbound : BOOLEAN, rate : Rates,
             applied : UpTo([cents : {1, 5, 50}, rate : Rates], 2)]

OrderLines == [qty : {5, 20}, price : {1, 7}, rate : {NoRate, <<29, 10>>}, cancelled : BOOLEAN]
Receipts == [kind : {"receipt"}, rate : {NoRate, <<29, 10>>}, freight : {0, 25}, quantityOnly : {FALSE},
             lines : [1..2 -> [qty : {5, 20}, cost : {Missing, 1, 7}, imported : BOOLEAN]],
             orders : [1..2 -> OrderLines]]

Shipments == [kind : {"shipment"}, quantityOnly : BOOLEAN,
              lines : UpTo([qty : {5, 20}, unitCost : {Missing, 9}, average : {Missing, 3}], 2)]
Adjustments == [kind : {"adjustment"}, quantityOnly : BOOLEAN, qty : {-15, -10, 5, 10},
                stated : {Missing, 4}, unitCost : {Missing, 9}, average : {Missing, 3}]
Productions == [kind : {"production"}, quantityOnly : BOOLEAN, qty : {10, 25, 30, 70}, components : 0..30]
Histories == [kind : {"history"}, moves : UpTo([qty : {-3, -1, 1, 2}, cost : {Missing, 2, 7}], 4)]
Recipes == [kind : {"recipe"}, quantityOnly : BOOLEAN, tracked : BOOLEAN, price : {0, 4},
            lines : {<<>>} \cup UpTo([qty : {3, 10, 15}, stock : {-10, 5, 10, 31, 60}, average : {Missing, 1, 7},
                                   serialized : BOOLEAN], 2)]

AllDocuments == Invoices \cup Splinters \cup Bills \cup Payments \cup Receipts \cup Shipments \cup Adjustments
                  \cup Productions \cup Recipes \cup Histories
=============================================================================
