----------------------------- MODULE DataTypes -----------------------------
(***************************************************************************)
(* The records the packages send and decode, reduced to the fields that    *)
(* matter when a value is logged or decoded:                               *)
(*   secret    the fields that identify a person, an account or a link a   *)
(*             stranger could use, each with the kind of thing it holds    *)
(*   parts     the fields that hold another record, a slice of records     *)
(*             included, with its type                                     *)
(*   ccy       the record's field for a currency: "none", a "number", an   *)
(*             "optional" number (omitempty), or a "text" to be parsed     *)
(*   money     the fields of type money.Money                              *)
(*   attached  the amounts, as paths, to which UnmarshalJSON copies that   *)
(*             currency                                                    *)
(***************************************************************************)
LOCAL INSTANCE Sequences
LOCAL INSTANCE TLC

none == << >>

Amounts(name, secret, parts, ccy, money, attached) ==
    name :> [secret |-> secret, parts |-> parts, ccy |-> ccy, money |-> money,
             attached |-> attached]

Struct(name, secret, parts) == Amounts(name, secret, parts, "none", {}, {})

\* Records without a field of interest.
Plain(names) ==
    [n \in names |-> [secret |-> none, parts |-> none, ccy |-> "none", money |-> {},
                      attached |-> {}]]

\* A named slice type, so that the slice can have methods.
Slice(name, of) == Struct(name, none, [elements |-> of])

\* The amounts among the fields m, all of which get the currency.
Own(m) == {<<f>> : f \in m}

-----------------------------------------------------------------------------
(* bank/data.go                                                            *)

bankClientInfo ==
    Struct("bank.ClientInfo", [Name |-> "name", WebHookURL |-> "url"],
           [Accounts |-> "bank.Accounts", Jars |-> "bank.Jars",
            ManagedClients |-> "bank.ManagedClients"])

bankAccount ==
    LET m == {"Balance", "CreditLimit"}
    IN  Amounts("bank.Account", [IBAN |-> "iban", CardMasks |-> "card"], none,
                "number", m, Own(m))

bankJar ==
    LET m == {"Balance", "Goal"}
    IN  Amounts("bank.Jar", [Title |-> "text", Description |-> "text"], none,
                "number", m, Own(m))

bankManagedClient ==
    Struct("bank.ManagedClient", [TIN |-> "id", Name |-> "name"],
           [Accounts |-> "bank.Accounts"])
    @@ Slice("bank.ManagedClients", "bank.ManagedClient")

\* The currency is the operation's.  Amount is documented "in the account
\* currency", which the body does not carry: its Code is the operation's too.
bankTransaction ==
    LET m == {"Amount", "OperationAmount", "CommissionRate", "CashbackAmount", "Balance"}
    IN  Amounts("bank.Transaction",
                [Description |-> "text", Comment |-> "text", EDRPOU |-> "id",
                 IBAN |-> "iban", CounterName |-> "name"], none,
                "number", m, Own(m))
        @@ Slice("bank.Transactions", "bank.Transaction")

bankSlices == Slice("bank.Accounts", "bank.Account") @@ Slice("bank.Jars", "bank.Jar")

-----------------------------------------------------------------------------
(* business/types.go; the slice types are declared in business/logvalue.go *)

person == [FullName |-> "name", INN |-> "id", DocumentNumber |-> "id",
           DocumentSeries |-> "id", IBAN |-> "iban"]

businessPeople ==
    Struct("business.Account", [IBAN |-> "iban"], none)
    @@ Struct("business.Contact", person @@ [PAN |-> "pan"], none)
    @@ Slice("business.Contacts", "business.Contact")
    @@ Struct("business.ContactsPage", none, [Contacts |-> "business.Contacts"])
    @@ Struct("business.CreateContactRequest",
              [FirstName |-> "name", LastName |-> "name", MiddleName |-> "name",
               INN |-> "id", DocumentNumber |-> "id", DocumentSeries |-> "id",
               IBAN |-> "iban", PAN |-> "pan"], none)
    @@ Struct("business.SalaryRecipient", person, none)
    @@ Slice("business.SalaryRecipients", "business.SalaryRecipient")
    @@ Struct("business.CreateSalaryRegistryRequest", [SenderIBAN |-> "iban"],
              [Recipients |-> "business.SalaryRecipients"])
    @@ Struct("business.SubmitSalaryRegistryBatchRequest", [SenderIBAN |-> "iban"],
              [Recipients |-> "business.SalaryRecipients"])
    @@ Plain({"business.BalancePoint", "business.SalaryRegistryCreated",
              "business.SalaryRegistryBatchAccepted", "business.SalaryRegistryType",
              "business.SalaryRegistryStatus"})

businessPayments ==
    Amounts("business.StatementItem",
            [Description |-> "text", CounterEdrpou |-> "id", CounterIBAN |-> "iban",
             CounterName |-> "name"],
            [UltimateDebit |-> "business.StatementUltimateDebit"],
            "text", {"Amount"}, Own({"Amount"}))
    @@ Struct("business.PaymentReceiver",
              [IBAN |-> "iban", EDRPOU |-> "id", Name |-> "name"], none)
    @@ Struct("business.UltimateDebit", [ID |-> "id", Name |-> "name"], none)
    @@ Struct("business.StatementUltimateDebit", [Name |-> "name", IDCode |-> "id"], none)
    @@ Struct("business.PaymentRequest",
              [SenderIBAN |-> "iban", Destination |-> "text", AdditionalInfo |-> "text"],
              [Receiver |-> "business.PaymentReceiver",
               UltimateDebit |-> "business.UltimateDebit"])
    @@ Plain({"business.PaymentPrepared", "business.PaymentState"})

businessPayslipTypes ==
    Struct("business.BatchAttribute", [Value |-> "text"], none)
    @@ Slice("business.BatchAttributes", "business.BatchAttribute")
    @@ Struct("business.BatchEmployee", [Identification |-> "id"],
              [Attributes |-> "business.BatchAttributes"])
    @@ Slice("business.BatchEmployees", "business.BatchEmployee")
    @@ Struct("business.BatchPayslipRequest", none, [Employees |-> "business.BatchEmployees"])
    @@ Struct("business.DeletePayslipsRequest", [Identifications |-> "id"], none)
    @@ Struct("business.FailedEmployee", [Identification |-> "id"], none)
    @@ Slice("business.FailedEmployees", "business.FailedEmployee")
    @@ Struct("business.BatchPayslipResponse", none,
              [FailedEmployees |-> "business.FailedEmployees"])
    @@ Struct("business.ImportStatusResponse", none,
              [FailedEmployees |-> "business.FailedEmployees"])
    @@ Plain({"business.BatchStats", "business.OverallStats", "business.SendResult"})

businessSlices == Slice("business.Accounts", "business.Account")
                  @@ Slice("business.StatementItems", "business.StatementItem")

-----------------------------------------------------------------------------
(* openbanking                                                             *)

openbankingAccountTypes ==
    Struct("openbanking.Href", [Href |-> "link"], none)
    @@ Struct("openbanking.Account", [IBAN |-> "iban"], none)
    @@ Struct("openbanking.AccountAccessRights", none, [Account |-> "openbanking.Account"])
    @@ Struct("openbanking.AccountAccess", none,
              [f \in {"Cards", "Payments", "Savings", "Loans"} |->
                  "openbanking.AccountAccessRights"])
    @@ Struct("openbanking.AccountDetails", [IBAN |-> "iban"],
              [Balances |-> "openbanking.Balance"])
    @@ Struct("openbanking.AccountReference", [IBAN |-> "iban"], none)
    @@ Struct("openbanking.PaymentAccountReference", [IBAN |-> "iban"], none)
    @@ Plain({"openbanking.Amount", "openbanking.Balance"})

openbankingStatementTypes ==
    Struct("openbanking.Party", [Name |-> "name"], none)
    @@ Struct("openbanking.Creditor", [Name |-> "name", CreditorID |-> "id"], none)
    @@ Struct("openbanking.Transaction", [RemittanceInformationUnstructured |-> "text"],
              [Creditor |-> "openbanking.Party", Debtor |-> "openbanking.Party",
               CardTransaction |-> "openbanking.CardTransactionDetails"])
    @@ Struct("openbanking.AccountReport", none, [Booked |-> "openbanking.TransactionList"])
    @@ Plain({"openbanking.CardTransactionDetails", "openbanking.AccountReportLinks"})

openbankingOptions ==
    Struct("openbanking.PSU", [ID |-> "id", CorporateID |-> "id", IPAddress |-> "ip"], none)
    @@ Struct("openbanking.InitiationOptions", none, [PSU |-> "openbanking.PSU"])
    @@ Struct("openbanking.AccountOptions", [PSUIPAddress |-> "ip"], none)
    @@ Struct("openbanking.AccountsOptions", none,
              [AccountOptions |-> "openbanking.AccountOptions"])
    @@ Struct("openbanking.TransactionsOptions", none,
              [AccountOptions |-> "openbanking.AccountOptions"])
    @@ Plain({"openbanking.AuthorisationOptions"})

openbankingConsentTypes ==
    Struct("openbanking.CreateConsentRequest", none, [Access |-> "openbanking.AccountAccess"])
    @@ Struct("openbanking.Consent", none, [Access |-> "openbanking.AccountAccess"])
    @@ Struct("openbanking.AuthorisationLinks", none,
              [SCARedirect |-> "openbanking.Href", SCAStatus |-> "openbanking.Href"])
    @@ Struct("openbanking.StartAuthorisationResponse", none,
              [Links |-> "openbanking.AuthorisationLinks"])
    @@ Plain({"openbanking.ConsentLinks", "openbanking.CreateConsentResponse",
              "openbanking.ConsentStatusResponse"})

openbankingPaymentTypes ==
    LET parties == [CreditorAccount |-> "openbanking.PaymentAccountReference",
                    Creditor        |-> "openbanking.Creditor",
                    DebtorAccount   |-> "openbanking.PaymentAccountReference"]
    IN  Struct("openbanking.CreatePaymentRequest",
               [RemittanceInformationUnstructured |-> "text"], parties)
        @@ Struct("openbanking.Payment", none, parties)
        @@ Plain({"openbanking.PaymentLinks", "openbanking.CreatePaymentResponse",
                  "openbanking.PaymentStatusResponse",
                  "openbanking.PaymentAuthorisationsResponse",
                  "openbanking.AuthorisationStatusResponse"})

openbankingResponses ==
    Struct("openbanking.AccountsResponse", none, [Accounts |-> "openbanking.AccountList"])
    @@ Struct("openbanking.BalancesResponse", none,
              [Account |-> "openbanking.AccountReference", Balances |-> "openbanking.Balance"])
    @@ Struct("openbanking.TransactionsResponse", none,
              [Account |-> "openbanking.AccountReference",
               Transactions |-> "openbanking.AccountReport"])

openbankingCertificate ==
    Struct("openbanking.CertificateRequest",
           [Organization |-> "name", ContactPerson |-> "name", Phone |-> "id",
            Email |-> "id", Description |-> "text", EDRPOU |-> "id"], none)
    @@ Plain({"openbanking.CertificateRequestResponse",
              "openbanking.CertificateStatusResponse"})

openbankingSlices == Slice("openbanking.AccountList", "openbanking.AccountDetails")
                     @@ Slice("openbanking.TransactionList", "openbanking.Transaction")

-----------------------------------------------------------------------------
(* acquiring: amounts only, the package redacts nothing but its token      *)

acquiringQRDetails ==
    Amounts("acquiring.QRDetails", none, none, "optional", {"Amount"}, Own({"Amount"}))

\* Cancellations, with a currency of their own that may be missing; the fees of
\* PaymentInfo, which has none; and the response that holds both.
invoiceStatus(fees) ==
    Amounts("acquiring.CancelOp", none, none, "optional", {"Amount"}, Own({"Amount"}))
    @@ Amounts("acquiring.PaymentInfo", none, none, "none", {"Fee", "AgentFee"}, {})
    @@ Amounts("acquiring.InvoiceStatusResponse", none,
               [CancelList |-> "acquiring.CancelOp", PaymentInfo |-> "acquiring.PaymentInfo"],
               "number", {"Amount", "FinalAmount"},
               Own({"Amount", "FinalAmount"}) \cup {<<"PaymentInfo", f>> : f \in fees})

\* Seeded fault: the fees of the nested record are forgotten.
acquiringInvoiceStatusShallow == invoiceStatus({})

acquiringInvoiceStatus == invoiceStatus({"Fee", "AgentFee"})

acquiringPaymentDirect ==
    Amounts("acquiring.PaymentDirectResponse", none, none, "number", {"Amount"},
            Own({"Amount"}))

acquiringStatement ==
    Amounts("acquiring.StatementInvoice", none, [CancelList |-> "acquiring.StatementRefund"],
            "number", {"Amount", "ProfitAmount"}, Own({"Amount", "ProfitAmount"}))
    @@ Amounts("acquiring.StatementRefund", none, none, "number", {"Amount"}, Own({"Amount"}))

acquiringT2P ==
    Amounts("acquiring.T2PPaymentStatusResponse", none, none, "text", {"Amount"},
            Own({"Amount"}))

-----------------------------------------------------------------------------

bankTypes == bankClientInfo @@ bankAccount @@ bankJar @@ bankManagedClient
             @@ bankTransaction @@ bankSlices
businessTypes == businessPeople @@ businessPayments @@ businessPayslipTypes @@ businessSlices
openbankingTypes == openbankingAccountTypes @@ openbankingStatementTypes
                    @@ openbankingOptions @@ openbankingConsentTypes
                    @@ openbankingPaymentTypes @@ openbankingResponses
                    @@ openbankingCertificate @@ openbankingSlices
acquiringTypes == acquiringQRDetails @@ acquiringInvoiceStatus @@ acquiringPaymentDirect
                  @@ acquiringStatement @@ acquiringT2P

Types == bankTypes @@ businessTypes @@ openbankingTypes @@ acquiringTypes

-----------------------------------------------------------------------------
(* Decoding                                                                *)

\* Every amount inside a value of type t, as a path of fields.
MoneyPaths[t \in DOMAIN Types] ==
    Own(Types[t].money)
    \cup UNION {{<<f>> \o p : p \in MoneyPaths[Types[t].parts[f]]} :
                 f \in DOMAIN Types[t].parts}

\* Whose currency each amount has once json.Unmarshal is done: the path of a
\* record inside t, or nobody's (the zero currency).  UnmarshalJSON of the nested
\* records runs before the outer one attaches its own.
\* known: currency.Parse knows the text; given: the optional field is there.
Attached(t, known, given) ==
    LET states(u) == \/ Types[u].ccy = "number"
                     \/ Types[u].ccy = "optional" /\ given
                     \/ Types[u].ccy = "text" /\ known
        of[u \in DOMAIN Types] ==
            [p \in MoneyPaths[u] |->
                IF p \in Types[u].attached THEN IF states(u) THEN {<<>>} ELSE {}
                ELSE IF Len(p) = 1 THEN {}
                ELSE {<<Head(p)>> \o r : r \in of[Types[u].parts[Head(p)]][Tail(p)]}]
    IN  of[t]

\* Reference: an amount is in the currency of the innermost record around it that
\* has a field for one.
Denominator[t \in DOMAIN Types] ==
    [p \in MoneyPaths[t] |->
        LET inner == IF Len(p) = 1 THEN {}
                     ELSE {<<Head(p)>> \o r : r \in Denominator[Types[t].parts[Head(p)]][Tail(p)]}
        IN  IF inner = {} /\ Types[t].ccy # "none" THEN {<<>>} ELSE inner]
=============================================================================
