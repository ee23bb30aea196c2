-------------------------------- MODULE Router --------------------------------
(***************************************************************************)
(* The orchestrator's choice of a gateway (internal/orchestrator/router.go)*)
(* by the fee it takes.                                                    *)
(*                                                                         *)
(* A percentage is in thousandths, a cost in hundredths of a rupiah, as the*)
(* code rounds it.  The amounts of the runs keep every product below 2^31. *)
(***************************************************************************)
EXTENDS Integers, Sequences, FiniteSets

CONSTANTS Providers,        \* provider name -> [enabled, platform, fees]
          FallbackPriority  \* names, most preferred first

NoCost == -1

\* The keys of a provider's fee table; all other types are passed on as they are.
NormalizeChannel(raw) ==
    CASE raw \in {"card", "credit_card"} -> "credit_card"
      [] raw \in {"qris", "id_qris"} -> "qris"
      [] raw \in {"virtual_account", "id_virtual_account", "bank_transfer"} -> "virtual_account"
      [] raw \in {"ewallet_gopay", "gopay"} -> "ewallet_gopay"
      [] raw \in {"ewallet_shopeepay", "shopeepay"} -> "ewallet_shopeepay"
      [] raw \in {"retail_outlet", "over_the_counter", "convenience_store"} -> "retail_outlet"
      [] OTHER -> raw

Lists(name, raw) ==
    /\ name \in DOMAIN Providers
    /\ Providers[name].enabled
    /\ NormalizeChannel(raw) \in DOMAIN Providers[name].fees

\* Mutant of CalculateCost: tax is added to every fee.
CalculateCostTaxed(name, raw, amount) ==
    IF ~Lists(name, raw) THEN NoCost
    ELSE LET p == Providers[name]
             fee == p.fees[NormalizeChannel(raw)]
         IN ((amount * (fee.pct + p.platform) + fee.fixed * 1000) * 111 + 500) \div 1000

\* The fee with the platform's share on top, taxed unless the fee includes the
\* tax, and rounded; NoCost stands for the code's false.
CalculateCost(name, raw, amount) ==
    IF ~Lists(name, raw) THEN NoCost
    ELSE LET p == Providers[name]
             fee == p.fees[NormalizeChannel(raw)]
             tax == IF fee.vatIncluded THEN 100 ELSE 111
         IN ((amount * (fee.pct + p.platform) + fee.fixed * 1000) * tax + 500) \div 1000

\* The loop over the candidates in one order: the first of the cheapest wins.
Cheapest(names, raw, amount) ==
    LET cost(i) == CalculateCost(names[i], raw, amount)
        best[i \in 0 .. Len(names)] ==
            IF i = 0 THEN 0
            ELSE IF cost(i) # NoCost /\ (best[i - 1] = 0 \/ cost(i) < cost(best[i - 1]))
                 THEN i ELSE best[i - 1]
    IN best[Len(names)]

\* The first preferred provider that lists the channel, or else the most preferred,
\* whether an adapter is loaded for it or not.
Fallback(raw) ==
    LET listing == {i \in DOMAIN FallbackPriority : Lists(FallbackPriority[i], raw)}
    IN IF FallbackPriority = <<>> THEN "midtrans"
       ELSE IF listing = {} THEN FallbackPriority[1]
       ELSE FallbackPriority[CHOOSE i \in listing : \A j \in listing : i <= j]

SelectBestGateway(names, raw, amount) ==
    LET i == Cheapest(names, raw, amount)
    IN IF i = 0 THEN Fallback(raw) ELSE names[i]

-----------------------------------------------------------------------------
\* DefaultConfig: the table used when config.yaml cannot be loaded.
DefaultProviders ==
    LET flat(f) == [pct |-> 0, fixed |-> f, vatIncluded |-> FALSE]
        rate(p) == [pct |-> p, fixed |-> 0, vatIncluded |-> FALSE]
        net(p) == [pct |-> p, fixed |-> 0, vatIncluded |-> TRUE]
        card(p) == [pct |-> p, fixed |-> 2000, vatIncluded |-> FALSE]
        table(platform, fees) == [enabled |-> TRUE, platform |-> platform, fees |-> fees]
    IN [midtrans |-> table(0, [virtual_account |-> flat(4000), qris |-> net(7),
                               credit_card |-> card(29), ewallet_gopay |-> net(20),
                               ewallet_shopeepay |-> net(15), retail_outlet |-> flat(5000)]),
        xendit |-> table(0, [virtual_account |-> flat(4500), qris |-> rate(7),
                             credit_card |-> card(29), ewallet_gopay |-> rate(15),
                             ewallet_shopeepay |-> rate(15), retail_outlet |-> flat(5000)]),
        doku |-> table(0, [virtual_account |-> flat(4000), qris |-> rate(7),
                           credit_card |-> card(29), retail_outlet |-> flat(5000)]),
        mayar |-> table(15, [virtual_account |-> flat(4500), qris |-> rate(7),
                             credit_card |-> card(26), ewallet_gopay |-> rate(15),
                             ewallet_shopeepay |-> rate(15), retail_outlet |-> flat(5000)])]

DefaultPriority == <<"midtrans", "xendit", "doku", "mayar">>
===============================================================================
