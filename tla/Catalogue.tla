------------------------------ MODULE Catalogue ------------------------------
(***************************************************************************)
(* The API methods of every package: what each puts into the one request   *)
(* it sends.  A set per source file.  The clients of personal, corporate,  *)
(* business, acquiring, openbanking and bank send through Client.Do; the   *)
(* installment client has a transport of its own, without retries.         *)
(*   method, keyed  the HTTP method, and whether Idempotency-Key is set    *)
(*   body           what req.Body is: none, or replayable (bytes.Reader)   *)
(*   out            the answer is decoded into a value                     *)
(*   ok             the expected statuses                                  *)
(*   checks         what the method refuses before a request exists        *)
(***************************************************************************)
LOCAL INSTANCE Naturals

Endpoint(name, method, body, out, ok, checks) ==
    [name |-> name, method |-> method, keyed |-> FALSE, body |-> body, out |-> out,
     ok |-> ok, checks |-> checks]

Get(name, checks)          == Endpoint(name, "GET", "none", TRUE, {200}, checks)
Probe(name, checks)        == Endpoint(name, "GET", "none", FALSE, {200}, checks)
Post(name, ok, checks)     == Endpoint(name, "POST", "replayable", TRUE, {ok}, checks)
Command(name, ok, checks)  == Endpoint(name, "POST", "replayable", FALSE, {ok}, checks)
Start(name, ok, checks)    == Endpoint(name, "POST", "none", TRUE, {ok}, checks)
Delete(name, body, ok, checks) == Endpoint(name, "DELETE", body, FALSE, ok, checks)

\* An endpoint with a mandatory Idempotency-Key.
Keyed(e) == [e EXCEPT !.keyed = TRUE, !.checks = @ \cup {"ErrIdempotencyKeyRequired"}]

\* A request of the corporate client is signed before it reaches Do.
Signed(e) == [e EXCEPT !.checks = @ \cup {"SetAuth"}]

-----------------------------------------------------------------------------
(* bank, personal, corporate                                               *)

bankClient == {Get("Rates", {}), Get("ServerKey", {})}

personalReads == {Get("ClientInfo", {}), Get("Transactions", {})}
personalSetWebHook == {Command("SetWebHook", 200, {})}

corporateAuth == {
    Signed(Start("Auth", 200, {"ErrInvalidCallback", "ErrInsecureCallback"})),
    Signed(Probe("CheckAuth", {}))}
corporateRegistration == {
    Signed(Post("Register", 200, {"ErrNilRequest", "ErrLogoTooLarge"})),
    Signed(Post("RegistrationStatus", 200, {}))}
corporateSettings == {Signed(Get("GetSettings", {})),
                      Signed(Command("CorporateSetWebHook", 200, {}))}
corporateSignature == {
    Signed(Post("SignatureCreate", 200, {"ErrNilRequest"})),
    Signed(Get("SignatureStatus", {})),
    Signed(Delete("SignatureCancel", "none", {200}, {}))}
corporateData == {Signed(Get("CorporateClientInfo", {})),
                  Signed(Get("CorporateTransactions", {}))}

-----------------------------------------------------------------------------
(* acquiring                                                               *)

acquiringInvoice == {
    Post("CreateInvoice", 200, {"ErrNilRequest"}),
    Get("InvoiceStatus", {"ErrEmptyID"}),
    Post("CancelInvoice", 200, {"ErrNilRequest"}),
    Post("FinalizeInvoice", 200, {"ErrNilRequest"}),
    Command("RemoveInvoice", 200, {"ErrEmptyID"})}
acquiringPayment == {
    Get("FiscalChecks", {"ErrEmptyID"}),
    Get("Receipt", {"ErrEmptyID"}),
    Post("PaymentDirect", 200, {"ErrNilRequest"}),
    Post("SyncPayment", 200, {"ErrNilRequest"})}
acquiringSubscription == {
    Post("SubscriptionCreate", 200, {"ErrNilRequest"}),
    Command("SubscriptionEdit", 200, {"ErrNilRequest"}),
    Command("SubscriptionRemove", 200, {"ErrEmptyID"}),
    Get("SubscriptionStatus", {"ErrEmptyID"}),
    Get("SubscriptionList", {"DateFrom"}),
    Get("SubscriptionPayments", {"ErrEmptyID", "DateFrom"})}
acquiringTerminal == {Get("Terminals", {}), Get("T2PPaymentStatus", {"ErrEmptyID"})}
acquiringMerchant == {Get("MerchantDetails", {}), Get("Employees", {}), Get("PubKey", {}),
                      Get("Submerchants", {}), Get("Statement", {})}
acquiringMonopay == {
    Post("MonoPayKeyImport", 200, {"ErrNilRequest"}),
    Command("MonoPayKeyDelete", 200, {"ErrEmptyID"}),
    Get("MonoPayKeyList", {})}
acquiringPOS == {Command("POSTransactionCancel", 200, {"ErrNilRequest", "ErrEmptyID"})}
acquiringQR == {Get("QRList", {}), Get("QRDetails", {"ErrEmptyID"}),
                Command("QRResetAmount", 200, {"ErrEmptyID"})}
acquiringWallet == {Get("Wallet", {}),
                    Delete("DeleteCard", "none", {200}, {"ErrEmptyID"}),
                    Post("WalletPayment", 200, {"ErrNilRequest"})}
acquiringSplit == {Get("SplitReceivers", {})}

-----------------------------------------------------------------------------
(* business                                                                *)

businessAccounts == {Get("Accounts", {}), Get("Account", {}), Get("AccountBalances", {})}
businessContacts == {
    Get("Contacts", {}), Get("SearchContacts", {}), Get("ContactByID", {}),
    Command("CreateContact", 200, {"ErrNilRequest"}),
    Delete("DeleteContact", "none", {200}, {}),
    Delete("DeleteContactsBatch", "replayable", {200}, {"ErrNilRequest"})}

\* Seeded fault: the payment is sent without its key, as a PUT.
businessPaymentPut == {
    [Post("PreparePayment", 200, {"ErrNilRequest"}) EXCEPT !.method = "PUT"],
    Get("PaymentState", {}), Get("PaymentStateByReference", {})}

businessPayment == {
    Keyed(Post("PreparePayment", 200, {"ErrNilRequest"})),
    Get("PaymentState", {}), Get("PaymentStateByReference", {})}
businessSalary == {
    Keyed(Post("CreateSalaryRegistry", 200, {"ErrNilRequest"})),
    Get("SalaryRegistryTypes", {}), Get("SalaryRegistryStatus", {}),
    Keyed(Post("SubmitSalaryRegistryBatch", 200, {"ErrNilRequest", "ErrBatchSize"})),
    Command("FinalizeSalaryRegistry", 200, {"ErrEmptyRegistryReference"})}
businessPayslips == {
    Post("UploadPayslips", 200, {"ErrNilRequest"}),
    Delete("DeletePayslips", "replayable", {204, 200}, {"ErrNilRequest"}),
    Get("ImportStatus", {}),
    Delete("DeleteImport", "none", {204, 200}, {}),
    Start("SendPayslipsToMobile", 200, {}),
    Get("PayslipPDF", {})}
businessStatement == {Get("BusinessStatement", {"ErrInvalidTimeRange"}),
                      Get("Operation", {"ErrOperationRefRequired"})}

-----------------------------------------------------------------------------
(* openbanking                                                             *)

openbankingAccounts == {
    Get("OpenbankingAccounts", {"ErrMissingConsentID"}),
    Get("Balances", {"ErrEmptyID", "ErrMissingConsentID"}),
    Get("OpenbankingTransactions",
        {"ErrEmptyID", "ErrMissingConsentID", "ErrMissingBookingStatus"})}
openbankingConsents == {
    Post("CreateConsent", 201, {"ErrNilRequest", "ErrMissingPSUIPAddress"}),
    Start("StartConsentAuthorisation", 201, {"ErrEmptyID"}),
    Get("Consent", {"ErrEmptyID"}), Get("ConsentStatus", {"ErrEmptyID"}),
    Delete("RevokeConsent", "none", {204}, {"ErrEmptyID"})}
openbankingPayments == {
    Post("CreatePayment", 201, {"ErrEmptyID", "ErrNilRequest", "ErrMissingPSUIPAddress"}),
    Get("Payment", {"ErrEmptyID"}), Get("PaymentStatus", {"ErrEmptyID"}),
    Delete("CancelPayment", "none", {204}, {"ErrEmptyID"})}
openbankingAuthorisations == {
    Start("StartPaymentAuthorisation", 201, {"ErrEmptyID"}),
    Get("PaymentAuthorisations", {"ErrEmptyID"}),
    Get("PaymentAuthorisationStatus", {"ErrEmptyID"})}
openbankingTest == {
    Post("RequestTestCertificate", 201, {"ErrNilRequest"}),
    Post("TestCertificateStatus", 200, {"ErrEmptyID"})}

-----------------------------------------------------------------------------
(* installment: every call is a POST                                       *)

installmentOrders == {
    Post("CreateOrder", 201, {"ErrNilRequest"}),
    Post("OrderState", 200, {"ErrEmptyOrderID"}),
    Post("ConfirmOrder", 200, {"ErrEmptyOrderID"}),
    Post("RejectOrder", 200, {"ErrEmptyOrderID"}),
    Post("ReturnOrder", 200, {"ErrNilRequest"}),
    Post("OrderInfo", 200, {"ErrEmptyOrderID"}),
    Post("OrderData", 200, {"ErrEmptyOrderID"}),
    Post("CheckPaid", 200, {"ErrEmptyOrderID"})}
installmentValidate == {
    Post("ValidateClientLegacy", 200, {"ErrEmptyPhone", "ErrInvalidPhone"}),
    Post("ValidateClient", 200, {"ErrEmptyPhone", "ErrInvalidPhone"})}
installmentGuarantee == {
    Post("GuaranteeLetterPDF", 200, {"ErrNilRequest"}),
    Post("GuaranteeLetterData", 200, {"ErrNilRequest"}),
    Post("GuaranteeLetterDataV2", 200, {"ErrNilRequest"})}
installmentQRCart == {
    Command("CreateQRCart", 201, {"ErrNilRequest", "ErrEmptyQRID"}),
    Command("CancelQRCart", 200, {"ErrEmptyQRID"})}
installmentReport == {Post("DailyReport", 200, {"ErrEmptyDate"})}

-----------------------------------------------------------------------------

CoreEndpoints ==
    UNION {bankClient, personalReads, personalSetWebHook, corporateAuth,
           corporateRegistration, corporateSettings, corporateSignature, corporateData,
           acquiringInvoice, acquiringPayment, acquiringSubscription, acquiringTerminal,
           acquiringMerchant, acquiringMonopay, acquiringPOS, acquiringQR, acquiringWallet,
           acquiringSplit, businessAccounts, businessContacts, businessPayment,
           businessSalary, businessPayslips, businessStatement, openbankingAccounts,
           openbankingConsents, openbankingPayments, openbankingAuthorisations,
           openbankingTest}

InstallmentEndpoints ==
    UNION {installmentOrders, installmentValidate, installmentGuarantee,
           installmentQRCart, installmentReport}

\* External: the operations that move money or create something, so that a
\* second execution is a second payment, refund, registry or application.
Adds == {"CreateInvoice", "CancelInvoice", "FinalizeInvoice", "PaymentDirect", "SyncPayment",
         "SubscriptionCreate", "MonoPayKeyImport", "POSTransactionCancel", "WalletPayment",
         "Auth", "Register", "SignatureCreate", "CreateContact", "PreparePayment",
         "CreateSalaryRegistry", "SubmitSalaryRegistryBatch", "FinalizeSalaryRegistry",
         "UploadPayslips", "SendPayslipsToMobile", "CreateConsent",
         "StartConsentAuthorisation", "CreatePayment", "StartPaymentAuthorisation",
         "RequestTestCertificate", "CreateOrder", "ConfirmOrder", "ReturnOrder",
         "CreateQRCart"}

\* What the retry loop can tell of an endpoint.
Profile(e) == [method |-> e.method, keyed |-> e.keyed, body |-> e.body, out |-> e.out]
=============================================================================
