----------------------------- MODULE Redaction -----------------------------
(***************************************************************************)
(* What a log line shows of a value handed to slog: the LogValue methods   *)
(* of bank, business and openbanking over DataTypes.  A method is reduced  *)
(* to what it does with secret fields and with parts: a field it names is  *)
(* masked by a function of its package ("group": the part's LogValue is    *)
(* called in place); a field it reduces to a count or to its presence, or  *)
(* leaves out, is not listed.  A mask is the set of positions it shows.    *)
(***************************************************************************)
EXTENDS DataTypes, Integers, TLC

\* A LogValue method, and the one of a slice type: the elements' own.
Log(name, attrs) == name :> attrs
Each(name) == Log(name, [elements |-> "group"])

-----------------------------------------------------------------------------
(* The masks; n is the length of the value                                 *)

\* maskName, redactURL (of the path), redactIBAN, redactTIN, redactCardMask.
bankMask(mask, n) ==
    CASE mask = "maskName"       -> IF n <= 1 THEN {} ELSE {1}
      [] mask = "redactURL"      -> {}
      [] mask = "redactIBAN"     -> IF n <= 6 THEN {} ELSE 1..2 \cup (n - 3)..n
      [] mask = "redactTIN"      -> {}
      [] mask = "redactCardMask" -> IF n <= 4 THEN {} ELSE (n - 3)..n

\* maskName, redactIBAN, redactID.
businessMask(mask, n) ==
    CASE mask = "maskName"   -> IF n <= 1 THEN {} ELSE {1}
      [] mask = "redactIBAN" -> IF n <= 6 THEN {} ELSE 1..2 \cup (n - 3)..n
      [] mask = "redactID"   -> {}

\* Seeded fault: short values are not treated apart.
openbankingMaskShort(mask, n) ==
    CASE mask = "maskName"   -> IF n < 1 THEN {} ELSE {1}
      [] mask = "redactIBAN" -> (1..2 \cup (n - 3)..n) \cap 1..n
      [] mask = "redactID"   -> {}

\* maskName, redactIBAN, redactID.
openbankingMask(mask, n) ==
    CASE mask = "maskName"   -> IF n <= 1 THEN {} ELSE {1}
      [] mask = "redactIBAN" -> IF n <= 6 THEN {} ELSE 1..2 \cup (n - 3)..n
      [] mask = "redactID"   -> {}

Mask(t, mask, n) ==
    IF mask = "clear" THEN 1..n
    ELSE IF t \in DOMAIN bankTypes THEN bankMask(mask, n)
    ELSE IF t \in DOMAIN businessTypes THEN businessMask(mask, n)
    ELSE openbankingMask(mask, n)

-----------------------------------------------------------------------------
(* The LogValue methods                                                    *)

bankLogClient ==
    Log("bank.ClientInfo", [Name |-> "maskName", WebHookURL |-> "redactURL"])
    @@ Log("bank.ManagedClient", [Name |-> "maskName", TIN |-> "redactTIN"])
    @@ Log("bank.Account", [IBAN |-> "redactIBAN", CardMasks |-> "redactCardMask"])

bankLogStatement ==
    Each("bank.ManagedClients")
    @@ Log("bank.Transaction", [IBAN |-> "redactIBAN", EDRPOU |-> "redactTIN",
                                CounterName |-> "maskName"])
    @@ Each("bank.Transactions") @@ Log("bank.Jar", none) @@ Each("bank.Jars")

bankLogAccounts == Each("bank.Accounts")

document == [INN |-> "redactID", DocumentNumber |-> "redactID", DocumentSeries |-> "redactID",
             IBAN |-> "redactIBAN"]

businessLogPeople ==
    Log("business.Account", [IBAN |-> "redactIBAN"]) @@ Each("business.Accounts")
    @@ Log("business.Contact", document @@ [FullName |-> "maskName"])
    @@ Each("business.Contacts") @@ Log("business.ContactsPage", none)
    @@ Log("business.CreateContactRequest",
           document @@ [f \in {"FirstName", "LastName", "MiddleName"} |-> "maskName"])
    @@ Log("business.SalaryRecipient", document @@ [FullName |-> "maskName"])
    @@ Each("business.SalaryRecipients")
    @@ Log("business.CreateSalaryRegistryRequest", [SenderIBAN |-> "redactIBAN"])
    @@ Log("business.SubmitSalaryRegistryBatchRequest", [SenderIBAN |-> "redactIBAN"])

businessLogPayments ==
    Log("business.StatementItem", [CounterIBAN |-> "redactIBAN", CounterEdrpou |-> "redactID",
                                   CounterName |-> "maskName"])
    @@ Each("business.StatementItems")
    @@ Log("business.UltimateDebit", [ID |-> "redactID", Name |-> "maskName"])
    @@ Log("business.StatementUltimateDebit", [IDCode |-> "redactID", Name |-> "maskName"])
    @@ Log("business.PaymentReceiver", [IBAN |-> "redactIBAN", EDRPOU |-> "redactID",
                                        Name |-> "maskName"])
    @@ Log("business.PaymentRequest", [SenderIBAN |-> "redactIBAN", Receiver |-> "group"])

businessLogPayslips ==
    Log("business.BatchAttribute", none) @@ Each("business.BatchAttributes")
    @@ Log("business.BatchEmployee", [Identification |-> "redactID"])
    @@ Each("business.BatchEmployees") @@ Log("business.BatchPayslipRequest", none)
    @@ Log("business.DeletePayslipsRequest", none)
    @@ Log("business.FailedEmployee", [Identification |-> "redactID"])
    @@ Each("business.FailedEmployees") @@ Log("business.BatchPayslipResponse", none)
    @@ Log("business.ImportStatusResponse", none)

openbankingLogBasics ==
    Log("openbanking.PSU", [ID |-> "redactID", CorporateID |-> "redactID"])
    @@ [t \in {"openbanking.AccountReference", "openbanking.PaymentAccountReference",
               "openbanking.AccountDetails", "openbanking.Account"} |->
            [IBAN |-> "redactIBAN"]]
    @@ Log("openbanking.Party", [Name |-> "maskName"])
    @@ Log("openbanking.Creditor", [Name |-> "maskName", CreditorID |-> "redactID"])
    @@ Log("openbanking.Transaction", [Creditor |-> "group", Debtor |-> "group"])
    @@ Each("openbanking.AccountList") @@ Each("openbanking.TransactionList")

openbankingLogConsents ==
    Log("openbanking.AccountAccessRights", [Account |-> "group"])
    @@ Log("openbanking.AccountAccess", none)
    @@ Log("openbanking.CreateConsentRequest", [Access |-> "group"])
    @@ Log("openbanking.Consent", [Access |-> "group"])
    @@ Log("openbanking.InitiationOptions", [PSU |-> "group"])
    @@ Log("openbanking.AccountsResponse", none)
    @@ Log("openbanking.BalancesResponse", [Account |-> "group"])
    @@ Log("openbanking.TransactionsResponse", [Account |-> "group"])
    @@ Log("openbanking.AccountReport", none)

openbankingLogPayments ==
    LET parties == [f \in {"Creditor", "CreditorAccount", "DebtorAccount"} |-> "group"]
    IN  Log("openbanking.CreatePaymentRequest", parties)
        @@ Log("openbanking.Payment", parties)
        @@ Log("openbanking.AccountOptions", none)
        @@ Log("openbanking.AccountsOptions", [AccountOptions |-> "group"])
        @@ Log("openbanking.TransactionsOptions", [AccountOptions |-> "group"])
        @@ Log("openbanking.CertificateRequest",
               [Organization |-> "maskName", ContactPerson |-> "maskName",
                EDRPOU |-> "redactID"])
        @@ Log("openbanking.Href", none)
        @@ Log("openbanking.StartAuthorisationResponse", none)

LogValue == bankLogClient @@ bankLogStatement @@ bankLogAccounts
            @@ businessLogPeople @@ businessLogPayments @@ businessLogPayslips
            @@ openbankingLogBasics @@ openbankingLogConsents @@ openbankingLogPayments

-----------------------------------------------------------------------------
(* slog                                                                    *)

\* External: a value without LogValue is printed field by field; slog does not
\* look for LogValue inside it.  The result is a set of <<kind, type, mask>>.
Dump[t \in DOMAIN Types] ==
    {<<Types[t].secret[f], t, "clear">> : f \in DOMAIN Types[t].secret}
    \cup UNION {Dump[Types[t].parts[f]] : f \in DOMAIN Types[t].parts}

\* External: slog resolves the LogValue of the value it is given.
Shown[t \in DOMAIN Types] ==
    IF t \notin DOMAIN LogValue THEN Dump[t]
    ELSE UNION {IF LogValue[t][f] = "group" THEN Shown[Types[t].parts[f]]
                ELSE {<<Types[t].secret[f], t, LogValue[t][f]>>} :
                f \in DOMAIN LogValue[t]}
=============================================================================
