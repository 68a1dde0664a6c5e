----------------------------- MODULE Processors -----------------------------
(***************************************************************************)
(* The processor registry and the adapters, for one operation: a           *)
(* collection, a refund of it, or a payout.  It is routed to an adapter,   *)
(* the adapter asks its provider over HTTP and turns what comes back into  *)
(* a status, and later answers and webhooks into reports.  The provider is *)
(* external; what it may say is taken from how the adapters read it.       *)
(* Amounts at the provider are in cents; only XOF, which has none, is used.*)
(***************************************************************************)
EXTENDS Integers, FiniteSets, PaymentStates

CONSTANTS
  Configurations,   \* sets of adapters whose credentials are configured
  Modes,            \* PAYMENT_PROCESSOR_MODE
  Locals,           \* whether the deployment is local or a test
  Directions, Currencies, Channels, Networks, Countries, Contacts,
  Amounts,          \* what requests may ask for
  Deviations,       \* cents by which a payer may pay too much or too little
  Fees,             \* cents the provider may keep
  Echoes,           \* whose identifier CinetPay's look-up may name
  Hiding            \* <<direction, reply>>: a reply that may hide that the request
                    \* was carried out

None == "none"
Nobody == "nobody"
Adapters == {"paystack", "pawapay", "cinetpay", "jeko", "sandbox"}
\* coded: an error whose body has an id, the error's own; done, undone: Jeko accepted a
\* transfer and has settled it already.
Replies ==
  {"timeout", "error", "coded", "garbled", "refused", "no_link", "accepted", "done", "undone"}
HttpErrors == {"error", "coded", "refused"}
Received == {"no_link", "accepted", "done", "undone"}

ASSUME ProcessorsAssumption ==
  /\ Configurations \subseteq SUBSET (Adapters \ {"sandbox"})
  /\ Modes \subseteq Adapters /\ Locals \subseteq BOOLEAN
  /\ Directions \subseteq {"collection", "payout"}
  /\ Contacts \subseteq SUBSET {"email", "phone", "callback"}
  /\ Amounts \subseteq Nat \ {0} /\ Deviations \subseteq Int /\ Fees \subseteq Nat
  /\ Echoes \subseteq {"ours", "theirs"}
  /\ Hiding \subseteq {"collection", "payout", "refund"} \X Replies

VARIABLES
  request,   \* configuration and command; no step changes it
  chosen,    \* payment_attempts.processor or payouts.processor
  attempt,   \* status and provider_reference of the attempt or payout
  refund,    \* the status of the refund row
  link,      \* whether the payer was sent to the provider's page
  provider,  \* external: what became of the charge or transfer, in cents, and whether
             \* it was paid after it had been abandoned
  returned,  \* external: what became of the refund
  result     \* amount and fee of the success that was recorded

processorVars == <<request, chosen, attempt, refund, link, provider, returned, result>>

Command ==
  [configured : Configurations, mode : Modes, local : Locals, direction : Directions,
   currency : Currencies, channel : Channels, network : Networks, country : Countries,
   contact : Contacts, amount : Amounts]

\* ours: an identifier of DiddiPay; theirs: the provider's; login, code: no identifier.
References == {None, "ours", "theirs", "login", "code"}
Movements == {"absent", "open", "paid", "failed", "abandoned"}

ProcessorsInit ==
  \* A mode of paystack without its key stops the process at its start.
  /\ request \in {c \in Command : c.mode = "paystack" => "paystack" \in c.configured}
  /\ chosen = None
  /\ attempt = [status |-> "pending", ref |-> None]
  /\ refund = None
  /\ link = FALSE
  /\ provider = [state |-> "absent", cents |-> 0, fee |-> 0, late |-> FALSE]
  /\ returned = "absent"
  /\ result = [amount |-> 0, fee |-> 0]

-----------------------------------------------------------------------------
(* The registry *)

AllChannels == {"mobile_money", "card"}

Paystack == [directions |-> {"collection"}, channels |-> AllChannels, networks |-> {}]
Pawapay == [directions |-> {"collection", "payout", "refund"},
            channels |-> {"mobile_money"}, networks |-> {"mtn", "orange", "moov"}]
Cinetpay == [directions |-> {"collection", "payout"},
             channels |-> {"mobile_money"}, networks |-> {}]
Jeko == [directions |-> {"collection", "payout"},
         channels |-> {"mobile_money"}, networks |-> {}]
Sandbox == [directions |-> {"collection", "refund", "payout"},
            channels |-> AllChannels, networks |-> {"orange", "wave", "mtn"}]

Capabilities == [paystack |-> Paystack, pawapay |-> Pawapay, cinetpay |-> Cinetpay,
                 jeko |-> Jeko, sandbox |-> Sandbox]

\* An adapter that names no network takes any; a request that names none goes to any.
Supports(a) ==
  LET can == Capabilities[a] IN
  /\ request.currency = "XOF"
  /\ request.direction \in can.directions
  /\ request.channel = None \/ request.channel \in can.channels
  /\ request.network = None \/ can.networks = {} \/ request.network \in can.networks

Simulated == {"sandbox"}
Registered == {"sandbox"} \union request.configured

Priority == [pawapay |-> 50, paystack |-> 100, sandbox |-> 100, cinetpay |-> 110, jeko |-> 120]

\* ordered: by priority, then name.
Before(a, b) == Priority[a] < Priority[b] \/ (a = "paystack" /\ b = "sandbox")
Best(S) == CHOOSE a \in S : \A b \in S \ {a} : Before(a, b)

\* Mutant: the sandbox is preferred like any other for a network it names.
Dedicated_Simulated ==
  {a \in Registered : request.network \in Capabilities[a].networks /\ Supports(a)}

\* The real adapters that name the network.
Dedicated ==
  {a \in Registered \ Simulated : request.network \in Capabilities[a].networks /\ Supports(a)}

Preferred == IF Dedicated # {} THEN Best(Dedicated) ELSE request.mode

CollectionRoute ==
  IF Preferred \in Registered /\ Supports(Preferred) THEN Preferred ELSE Nobody

\* Without a preference: the first that can; a simulated one only locally.
PayoutRoute ==
  LET able == {a \in Registered : Supports(a)} IN
  IF able = {} \/ (Best(able) \in Simulated /\ ~request.local) THEN Nobody ELSE Best(able)

Route ==
  /\ chosen = None
  /\ chosen' = IF request.direction = "payout" THEN PayoutRoute ELSE CollectionRoute
  /\ UNCHANGED <<request, attempt, refund, link, provider, returned, result>>

-----------------------------------------------------------------------------
(* What an adapter refuses before it calls *)

PawapayOperators ==
  {<<"moov", "BJ">>, <<"mtn", "BJ">>, <<"moov", "BF">>, <<"moov", "CI">>,
   <<"mtn", "CI">>, <<"orange", "CI">>, <<"orange", "SN">>}

CinetpayMethods ==
  {<<"orange", "CI">>, <<"moov", "CI">>, <<"mtn", "CI">>, <<"wave", "CI">>, <<"orange", "BF">>,
   <<"moov", "BF">>, <<"wave", "BF">>, <<"orange", "ML">>, <<"moov", "ML">>, <<"orange", "SN">>,
   <<"free", "SN">>, <<"expresso", "SN">>, <<"wave", "SN">>, <<"moov", "TG">>, <<"tmoney", "TG">>,
   <<"orange", "GN">>, <<"mtn", "GN">>, <<"orange", "CM">>, <<"mtn", "CM">>, <<"moov", "BJ">>,
   <<"mtn", "BJ">>, <<"orange", "CD">>, <<"airtel", "CD">>, <<"mpesa", "CD">>,
   <<"africell", "CD">>, <<"airtel", "NE">>, <<"moov", "NE">>, <<"zamani", "NE">>}

JekoMethods == {"orange", "wave", "mtn", "moov", "djamo"}

Line == <<request.network, request.country>>

TakesCollection(a) ==
  LET has(what) == what \in request.contact IN
  CASE a = "paystack" -> has("email")
    [] a = "pawapay"  -> has("phone") /\ has("callback") /\ Line \in PawapayOperators
    [] a = "cinetpay" -> has("email") /\ has("callback")
    [] a = "jeko"     -> has("callback") /\ request.network \in JekoMethods
    [] OTHER          -> TRUE

\* A payout's channel is the type of its destination.
TakesPayout(a) ==
  \/ a = "sandbox"
  \/ /\ request.channel = "mobile_money" /\ "phone" \in request.contact
     /\ CASE a = "pawapay"  -> Line \in PawapayOperators
          [] a = "cinetpay" -> Line \in CinetpayMethods
          [] a = "jeko"     -> request.network \in JekoMethods
          [] OTHER          -> FALSE

-----------------------------------------------------------------------------
(* Amounts *)

\* _to_paystack_amount, _to_jeko_amount: hundredths although XOF has none.
Sent(a, amount) == IF a \in {"paystack", "jeko"} THEN 100 * amount ELSE amount

\* The unit of the provider's API.
Cents(a, n) == IF a \in {"paystack", "jeko"} THEN n ELSE 100 * n

Unreadable == -1
Whole(cents) == IF cents % 100 = 0 THEN cents \div 100 ELSE Unreadable

\* A fraction of a franc is refused, but by CinetPay's adapter, which cuts it off.
Read(a, cents) == IF a = "cinetpay" THEN cents \div 100 ELSE Whole(cents)

\* _from_paystack_fee: rounded up, so that the net is never overstated.
PaystackFee(cents) == (cents + 99) \div 100

\* pawapay and cinetpay report none.
ReadFee(a, cents) ==
  CASE a = "paystack" -> PaystackFee(cents)
    [] a = "jeko" -> Whole(cents)
    [] OTHER -> 0

-----------------------------------------------------------------------------
(* The call that starts a collection or a payout *)

Answer(status, ref) == [status |-> status, ref |-> ref]

\* The outcomes of cinetpay's login before its call.
LoginFails(a) == IF a = "cinetpay" THEN {"rejected", "unreachable"} ELSE {}

\* Without a link, no payer: but for Paystack, an initialization without one failed.
Opened(reply) ==
  CASE reply = "accepted" -> "requires_action" [] reply = "timeout" -> "unknown" [] OTHER -> "failed"

PaystackInitialize(reply) ==
  Answer(IF reply = "no_link" THEN "unknown" ELSE Opened(reply), "ours")

PawapayInitialize(reply) == Answer(Opened(reply), "ours")

CinetpayInitialize(reply) == Answer(Opened(reply), "ours")

\* The id of the body, whatever it identifies: an error is saved with its code.
JekoReference(reply) ==
  CASE reply \in Received -> "theirs" [] reply = "coded" -> "code" [] OTHER -> "ours"

JekoInitialize(reply) == Answer(Opened(reply), JekoReference(reply))

Initialize(a, reply) ==
  CASE a = "paystack" -> PaystackInitialize(reply)
    [] a = "pawapay" -> PawapayInitialize(reply)
    [] a = "cinetpay" -> CinetpayInitialize(reply)
    [] OTHER -> JekoInitialize(reply)

\* Mutant: an answer that cannot be read is a refusal.
PawapayPayout_Pessimistic(reply) ==
  Answer(IF reply \in HttpErrors \union {"garbled"} THEN "failed" ELSE "processing", "ours")

PawapayPayout(reply) ==
  Answer(IF reply \in HttpErrors THEN "failed" ELSE "processing", "ours")

\* The identifier is CinetPay's own if it was read.
CinetpayPayout(reply) ==
  Answer(IF reply \in HttpErrors THEN "failed" ELSE "processing",
         IF reply = "accepted" THEN "theirs" ELSE "ours")

JekoPayout(reply) ==
  Answer(CASE reply = "done" -> "succeeded"
           [] reply \in HttpErrors \union {"undone"} -> "failed"
           [] OTHER -> "processing",
         JekoReference(reply))

CreatePayout(a, reply) ==
  CASE a = "pawapay" -> PawapayPayout(reply)
    [] a = "cinetpay" -> CinetpayPayout(reply)
    [] OTHER -> JekoPayout(reply)

Takes(a) == IF request.direction = "payout" THEN TakesPayout(a) ELSE TakesCollection(a)

Rejected ==
  /\ chosen \in Adapters /\ attempt.status = "pending"
  /\ ~Takes(chosen) \/ "rejected" \in LoginFails(chosen)
  /\ attempt' = Answer("failed", None)
  /\ UNCHANGED <<request, chosen, refund, link, provider, returned, result>>

\* The failed login is taken for the call, "login" for the reference.
LoginUncertain ==
  /\ chosen \in Adapters /\ attempt.status = "pending"
  /\ Takes(chosen) /\ "unreachable" \in LoginFails(chosen)
  /\ attempt' = Answer(IF request.direction = "payout" THEN "processing" ELSE "unknown", "login")
  /\ UNCHANGED <<request, chosen, refund, link, provider, returned, result>>

\* Simulated operations reach no provider.
CallSandbox ==
  /\ chosen = "sandbox" /\ attempt.status = "pending"
  /\ attempt' = Answer(IF request.direction = "payout" THEN "succeeded" ELSE "requires_action", "ours")
  /\ UNCHANGED <<request, chosen, refund, link, provider, returned, result>>

Call ==
  /\ chosen \in Adapters \ Simulated /\ attempt.status = "pending"
  /\ Takes(chosen)
  /\ \E reply \in Replies, arrived \in BOOLEAN :
       /\ reply \in Received => arrived
       /\ reply = "no_link" => request.direction = "collection"
       /\ reply \in {"done", "undone"} => request.direction = "payout" /\ chosen = "jeko"
       /\ reply = "refused" => ~arrived
       /\ (arrived /\ reply \notin Received) => <<request.direction, reply>> \in Hiding
       /\ attempt' = IF request.direction = "payout" THEN CreatePayout(chosen, reply)
                     ELSE Initialize(chosen, reply)
       /\ link' = (request.direction = "collection" /\ reply = "accepted")
       /\ provider' = IF arrived
            THEN [state |-> CASE reply = "done" -> "paid" [] reply = "undone" -> "failed"
                              [] OTHER -> "open",
                  cents |-> Cents(chosen, Sent(chosen, request.amount)), fee |-> 0,
                  late |-> FALSE]
            ELSE provider
  /\ UNCHANGED <<request, chosen, refund, returned, result>>

\* External: the payer pays on the provider's page, more or less than the price, also a
\* charge that Paystack calls abandoned; the provider pays out what it was asked to.
ProviderActs ==
  /\ provider.state \in {"open", "abandoned"}
  /\ request.direction = "collection" => link
  /\ \/ \E more \in Deviations \union {0}, fee \in Fees :
          /\ request.direction = "payout" => more = 0
          /\ provider.cents + more > 0
          /\ provider' = [state |-> "paid", cents |-> provider.cents + more, fee |-> fee,
                          late |-> provider.state = "abandoned"]
     \/ provider' = [provider EXCEPT !.state = "failed"]
     \/ chosen = "paystack" /\ provider' = [provider EXCEPT !.state = "abandoned"]
  /\ UNCHANGED <<request, chosen, attempt, refund, link, returned, result>>

-----------------------------------------------------------------------------
(* Look-ups and webhooks *)

\* Jeko, and CinetPay for payouts, look up by their own identifier only.
Finds(a, ref) ==
  ref = IF a = "jeko" \/ (a = "cinetpay" /\ request.direction = "payout")
        THEN "theirs" ELSE "ours"

\* External: the words of the providers.
Words(a, state) ==
  CASE state = "paid" -> CASE a = "pawapay" -> {"completed"} [] a = "cinetpay" -> {"SUCCESS"}
                           [] OTHER -> {"success"}
    [] state = "failed" -> CASE a = "jeko" -> {"error"} [] a = "cinetpay" -> {"FAILED", "EXPIRED"}
                             [] OTHER -> {"failed"}
    [] state = "abandoned" -> {"abandoned"}
    [] OTHER -> CASE a = "paystack" -> {"pending", "ongoing", "queued"}
                  [] a = "pawapay" -> {"submitted", "NOT_FOUND"}
                  [] a = "cinetpay" -> {"INITIATED", "PENDING"}
                  [] OTHER -> {"pending"}

PaystackReport(word) ==
  CASE word = "success" -> "succeeded"
    [] word \in {"failed", "abandoned", "reversed"} -> "failed"
    [] word \in {"pending", "ongoing", "processing", "queued"} -> "processing"
    [] OTHER -> "unknown"

PawapayReport(word) ==
  CASE word = "completed" -> "succeeded" [] word = "failed" -> "failed" [] OTHER -> "processing"

CinetpayFailures ==
  {"FAILED", "EXPIRED", "NOT_ALLOWED", "USER_NOT_FOUND", "USER_IS_BLOCKED", "OTP_ERROR",
   "OTP_EXPIRED", "OPERATION_ERROR", "INSUFFICIENT_BALANCE"}

CinetpayReport(word) ==
  CASE word = "SUCCESS" -> "succeeded" [] word \in CinetpayFailures -> "failed"
    [] OTHER -> "processing"

JekoReport(word) ==
  CASE word = "success" -> "succeeded" [] word = "error" -> "failed" [] OTHER -> "processing"

Unanswered == {"error", "garbled"}   \* an error page; JSON without what is looked for

\* verify_payment: a field that cannot be converted makes the answer unknown.
PaystackVerify(word) ==
  IF word \in Unanswered \/ Whole(provider.cents) = Unreadable THEN "unknown"
  ELSE PaystackReport(word)

\* A page nobody opened yet is not found.
PawapayVerify(word) ==
  IF word \in {"NOT_FOUND", "garbled"} THEN "processing"
  ELSE IF word = "error" \/ Whole(provider.cents) = Unreadable THEN "unknown"
  ELSE PawapayReport(word)

CinetpayVerify(word) == IF word = "error" THEN "unknown" ELSE CinetpayReport(word)

JekoVerify(word) ==
  IF word = "error" \/ Whole(provider.cents) = Unreadable \/ Whole(provider.fee) = Unreadable
  THEN "unknown" ELSE JekoReport(word)

Verified(a, word) ==
  CASE a = "paystack" -> PaystackVerify(word)
    [] a = "pawapay" -> PawapayVerify(word)
    [] a = "cinetpay" -> CinetpayVerify(word)
    [] OTHER -> JekoVerify(word)

\* verify_payout: what is not found is still under way.
PawapayVerifyPayout(word) ==
  IF word \in Unanswered \union {"NOT_FOUND"} THEN "processing" ELSE PawapayReport(word)

CinetpayVerifyPayout(word) == IF word = "error" THEN "processing" ELSE CinetpayReport(word)

JekoVerifyPayout(word) == IF word = "error" THEN "processing" ELSE JekoReport(word)

VerifiedPayout(a, word) ==
  CASE a = "pawapay" -> PawapayVerifyPayout(word)
    [] a = "cinetpay" -> CinetpayVerifyPayout(word)
    [] OTHER -> JekoVerifyPayout(word)

\* Mutant: the amount collected is not compared.
Matches_AnyAmount(ref) == ref = attempt.ref

\* Both callers take a success only for their reference and amount.
Matches(ref) == ref = attempt.ref /\ Read(chosen, provider.cents) = request.amount

Records(report) ==
  /\ attempt' = [attempt EXCEPT !.status = AttemptAfter(@, report)]
  /\ result' = IF report = "succeeded" /\ attempt.status # "succeeded"
               THEN [amount |-> Read(chosen, provider.cents),
                     fee |-> ReadFee(chosen, provider.fee)]
               ELSE result

\* Mutant: an attempt whose payer has something to do is not asked about.
LookedUp_Waits == attempt.status \in {"processing", "unknown"} /\ attempt.ref # None

\* What reconciliation asks about.
LookedUp == attempt.status \in {"requires_action", "processing", "unknown"} /\ attempt.ref # None

\* The identifier in an answer; CinetPay's may be its own.
Named(a) == IF a = "cinetpay" THEN Echoes ELSE {attempt.ref}

\* verify_payment, and what reconciliation makes of it.
VerifyAnswered ==
  /\ chosen \in Adapters \ Simulated /\ request.direction = "collection"
  /\ LookedUp
  /\ Finds(chosen, attempt.ref) /\ provider.state # "absent"
  /\ \E word \in Words(chosen, provider.state), ref \in Named(chosen) :
       LET report == Verified(chosen, word) IN
       /\ report = "succeeded" => Matches(ref)
       /\ Records(report)
  /\ UNCHANGED <<request, chosen, refund, link, provider, returned>>

\* What is not there is an error page, but for pawapay.
VerifyMissed ==
  /\ chosen \in Adapters \ Simulated /\ request.direction = "collection"
  /\ LookedUp
  /\ \E word \in Unanswered \union {"NOT_FOUND"} :
       /\ word = "NOT_FOUND" => chosen = "pawapay" /\ provider.state = "absent"
       /\ Records(Verified(chosen, word))
  /\ UNCHANGED <<request, chosen, refund, link, provider, returned>>

VerifyPayout ==
  /\ chosen \in Adapters \ Simulated /\ request.direction = "payout"
  /\ attempt.status = "processing" /\ attempt.ref # None
  /\ Finds(chosen, attempt.ref) /\ provider.state # "absent"
  /\ \E word \in Words(chosen, provider.state) :
       attempt' = [attempt EXCEPT !.status = VerifiedPayout(chosen, word)]
  /\ UNCHANGED <<request, chosen, refund, link, provider, returned, result>>

\* parse_webhook: charge.success says all, other events have a status.
WebhookReport(event, word) ==
  IF event = "charge.success" THEN "succeeded" ELSE PaystackReport(word)

\* Paystack's events; the other adapters take none.
Webhook ==
  /\ chosen = "paystack" /\ Finds(chosen, attempt.ref)
  /\ provider.state \in {"paid", "failed", "abandoned"}
  /\ Whole(provider.cents) # Unreadable
  /\ \E word \in Words(chosen, provider.state) :
       LET report == WebhookReport(IF provider.state = "paid" THEN "charge.success"
                                   ELSE "charge.failed", word) IN
       /\ report = "succeeded" => Matches(attempt.ref) /\ Applicable("processing", attempt.status, report)
       /\ Records(report)
  /\ UNCHANGED <<request, chosen, refund, link, provider, returned>>

-----------------------------------------------------------------------------
(* Refunds *)

\* A refund of the whole: cinetpay and jeko raise NotImplementedError after the
\* row was committed, which nobody catches: it stays pending.  A simulated collection
\* never succeeds.
Refundable == {"paystack", "pawapay"}

RefundWords == {"processed", "pending", "failed"}   \* external: Paystack's answer

PaystackRefund(reply, word) ==
  IF reply \in HttpErrors \union {"garbled"} THEN "failed"
  ELSE CASE reply = "timeout" \/ word = "pending" -> "processing"
         [] reply # "timeout" /\ word = "failed" -> "failed"
         [] reply # "timeout" /\ word = "processed" -> "succeeded"

PawapayRefund(reply) == IF reply \in HttpErrors THEN "failed" ELSE "processing"

RefundBegin ==
  /\ request.direction = "collection" /\ attempt.status = "succeeded" /\ refund = None
  /\ refund' = "pending"
  /\ UNCHANGED <<request, chosen, attempt, link, provider, returned, result>>

\* What the provider's answer says is what it has done so far.
RefundCall ==
  /\ refund = "pending" /\ chosen \in Refundable
  /\ \E reply \in Replies \ {"no_link", "done", "undone"}, arrived \in BOOLEAN, word \in RefundWords :
       /\ reply = "accepted" => arrived
       /\ reply = "refused" => ~arrived
       /\ (arrived /\ reply # "accepted") => <<"refund", reply>> \in Hiding
       /\ refund' = IF chosen = "paystack" THEN PaystackRefund(reply, word) ELSE PawapayRefund(reply)
       /\ returned' = IF ~arrived THEN "absent"
                      ELSE CASE word = "processed" -> "paid" [] word = "failed" -> "failed"
                             [] OTHER -> "open"
  /\ UNCHANGED <<request, chosen, attempt, link, provider, result>>

RefundSettles ==
  /\ returned = "open"
  /\ returned' \in {"paid", "failed"}
  /\ UNCHANGED <<request, chosen, attempt, refund, link, provider, result>>

-----------------------------------------------------------------------------
ProcessorsNext ==
  \/ Route \/ Rejected \/ LoginUncertain \/ CallSandbox \/ Call \/ ProviderActs
  \/ VerifyAnswered \/ VerifyMissed \/ VerifyPayout \/ Webhook
  \/ RefundBegin \/ RefundCall \/ RefundSettles

\* Reconciliation asks again and again, and the provider answers in the end.
ProcessorsFairness == SF_processorVars(VerifyAnswered) /\ SF_processorVars(VerifyPayout)

ProcessorsSpec == ProcessorsInit /\ [][ProcessorsNext]_processorVars /\ ProcessorsFairness

-----------------------------------------------------------------------------
(* Properties *)

ProcessorsTypeOK ==
  /\ request \in Command
  /\ chosen \in Adapters \union {None, Nobody}
  /\ attempt \in [status : AttemptStatuses, ref : References]
  /\ refund \in RefundStatuses \union {None}
  /\ link \in BOOLEAN
  /\ provider \in [state : Movements, cents : Nat, fee : Nat, late : BOOLEAN]
  /\ returned \in Movements
  /\ result \in [amount : Nat, fee : Nat]

\* An operation goes to a registered adapter that can do it; to the simulator only
\* where it is the mode, or a payout's deployment is a test; and a network that a
\* real adapter of this deployment names is left to such an adapter.
RoutingIsSound == chosen \in Adapters =>
  /\ chosen \in Registered /\ Supports(chosen)
  /\ chosen = "sandbox" =>
       IF request.direction = "payout" THEN request.local ELSE request.mode = "sandbox"
  /\ (\E a \in request.configured : request.network \in Capabilities[a].networks /\ Supports(a)) =>
       request.network \in Capabilities[chosen].networks /\ chosen \notin Simulated

\* What any real adapter calls succeeded was paid, and paid in full: payments, in
\* francs and without overstating what is left after the fee; payouts; refunds.
SuccessIsMoney == chosen \in Adapters \ Simulated =>
  /\ attempt.status = "succeeded" => provider.state = "paid" /\ provider.cents >= 100 * request.amount
  /\ (attempt.status = "succeeded" /\ request.direction = "collection") =>
       /\ result.amount = request.amount
       /\ chosen \in {"paystack", "jeko"} =>
            100 * (result.amount - result.fee) <= provider.cents - provider.fee
  /\ refund = "succeeded" => returned = "paid"

\* What any real adapter calls failed did not and will not move money, where error
\* pages do not hide that a transfer was accepted; but for a Paystack charge that its
\* payer abandoned, which is called failed and may be paid all the same.
FailureIsNoMoney == chosen \in Adapters \ Simulated =>
  /\ attempt.status = "failed" =>
       /\ provider.state = "paid" => provider.late
       /\ provider.state = "open" => request.direction = "collection" /\ ~link
  /\ refund = "failed" => returned \notin {"open", "paid"}

\* Money that moved is seen by reconciliation in the end, whatever the first call
\* told, if the reference saved is one the provider looks up by and no look-up is
\* answered with a foreign identifier; if it is the amount asked for, its fee can be
\* read (Jeko's in whole francs) and the charge had not been abandoned before.
MoneyIsSeen ==
  (/\ provider.state = "paid" /\ Finds(chosen, attempt.ref)
   /\ Read(chosen, provider.cents) = request.amount
   /\ ReadFee(chosen, provider.fee) # Unreadable
   /\ ~provider.late)
  ~> (attempt.status = "succeeded")

=============================================================================
