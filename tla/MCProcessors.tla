---------------------------- MODULE MCProcessors ----------------------------
(***************************************************************************)
(* Small instances of Processors: the configurations and commands that     *)
(* tell the adapters apart.                                                *)
(***************************************************************************)
EXTENDS Processors

MCConfigurations == SUBSET {"paystack", "pawapay", "cinetpay", "jeko"}
MCContacts == {{"email", "phone", "callback"}, {"phone"}}

\* Half a franc and a franc too little and too much.
MCDeviations == {-100, -50, 50, 100}

\* Error pages and answers that cannot be read leave a payer without a link, and
\* payouts that were accepted open; they do not hide refunds.
MCHiding == {<<d, "timeout">> : d \in {"collection", "payout", "refund"}}
            \union {<<"collection", "error">>, <<"collection", "coded">>,
                    <<"collection", "garbled">>, <<"payout", "garbled">>}
=============================================================================
