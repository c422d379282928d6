--------------------------------- MODULE Rates ---------------------------------
(***************************************************************************)
(* Currency conversion: exchange_rate_service.py, which looks a rate up in *)
(* Redis, in the table exchange_rates and at the rate service, in that     *)
(* order, and currency_conversion.py, which adds converted amounts to a    *)
(* report.                                                                 *)
(*                                                                         *)
(* Amounts are cents.  A rate is a whole number of Units.  Time runs in    *)
(* moments, DayLength of which make a day.  A store is what is kept        *)
(* between calls: [cache, rows], where the cache maps a key to a rate with *)
(* the moment it expires.                                                  *)
(***************************************************************************)
EXTENDS Integers, FiniteSets, FiniteSetsExt

CONSTANTS Null,       \* SQL's NULL, Python's None
          Unit,       \* a rate of one
          DayLength,  \* moments of a day
          LatestTTL,  \* how long a latest rate is cached (a day)
          HistoryTTL  \* how long a day's rate is cached (a week)

ASSUME RatesAssumption == {Unit, DayLength, LatestTTL, HistoryTTL} \subseteq Nat \ {0}

DayOf(t)   == t \div DayLength
Midnight(d) == d * DayLength
EndOf(d)   == Midnight(d + 1) - 1

(***************************************************************************)
(* Conversion of an amount.                                                *)
(***************************************************************************)
\* Decimal's ROUND_HALF_UP: a half goes away from zero.
RoundHalfUp(n, d) ==
  IF n >= 0 THEN (2 * n + d) \div (2 * d) ELSE -((d - 2 * n) \div (2 * d))

Converted(amount, rate) == RoundHalfUp(amount * rate, Unit)

(***************************************************************************)
(* The lookup of a rate.                                                   *)
(***************************************************************************)
\* day is Null for the latest rate.
CacheKey(pair, day) == <<pair, day>>

TTL(day) == IF day = Null THEN LatestTTL ELSE HistoryTTL

Alive(store, key, now) ==
  key \in DOMAIN store.cache /\ now < store.cache[key].until

\* The table's rows of a pair, up to the end of the day if one is asked for.
RowsOf(store, pair, day) ==
  {r \in store.rows : r.pair = pair /\ (day = Null \/ r.at <= EndOf(day))}

NewestRow(rows) == CHOOSE r \in rows : \A q \in rows : q.at <= r.at

Remember(store, pair, day, now, found) ==
  LET key == CacheKey(pair, day)
      told == [rate |-> found.rate, at |-> found.at, until |-> now + TTL(day)]
  IN  [store EXCEPT !.cache = [k \in DOMAIN @ \cup {key} |-> IF k = key THEN told ELSE @[k]]]

Answered(found, stale, store) ==
  [rate |-> found.rate, at |-> found.at, stale |-> stale, store |-> store]

NoRate(store) == [rate |-> Null, at |-> Null, stale |-> FALSE, store |-> store]

\* The rate service has one rate for now and one for a day, each of which may
\* be Null: the call failed, or the service does not know the currency.
FromService(store, pair, day, now, service) ==
  IF day # Null /\ service.daily = Null
    THEN IF service.latest = Null THEN NoRate(store)
         ELSE Answered([rate |-> service.latest, at |-> now], TRUE, store)
  ELSE IF day = Null /\ service.latest = Null THEN NoRate(store)
  ELSE LET found == IF day = Null THEN [rate |-> service.latest, at |-> now]
                    ELSE [rate |-> service.daily, at |-> Midnight(day)]
           row == [pair |-> pair, rate |-> found.rate, at |-> found.at]
           grown == [store EXCEPT !.rows = @ \cup {row}]
       IN  Answered(found, FALSE, Remember(grown, pair, day, now, found))

\* The last resort: any row of the pair, whatever its date.
LastKnown(store, pair) ==
  LET rows == RowsOf(store, pair, Null)
  IN  IF rows = {} THEN NoRate(store) ELSE Answered(NewestRow(rows), TRUE, store)

\* The lookup of a pair of supported currencies.
Looked(store, pair, day, now, service) ==
  LET key  == CacheKey(pair, day)
      rows == RowsOf(store, pair, day)
      asked == FromService(store, pair, day, now, service)
  IN CASE Alive(store, key, now) -> Answered(store.cache[key], FALSE, store)
       [] ~Alive(store, key, now) /\ rows # {}
            -> LET r == NewestRow(rows)
               IN  Answered(r, FALSE, Remember(store, pair, day, now, r))
       [] OTHER -> IF asked.rate # Null THEN asked ELSE LastKnown(store, pair)

\* An unsupported currency is an error, whatever is cached or stored, unless it
\* is asked for in itself.
GetRate(store, pair, day, now, service, supported) ==
  IF pair[1] = pair[2] THEN Answered([rate |-> Unit, at |-> now], FALSE, store)
  ELSE IF {pair[1], pair[2]} \subseteq supported THEN Looked(store, pair, day, now, service)
  ELSE NoRate(store)

\* fetch_daily_exchange_rates: one row for each supported currency the service
\* knows.
DailyFetch(store, base, rates, now, supported) ==
  [store EXCEPT !.rows = @ \cup
     {[pair |-> <<base, c>>, rate |-> rates[c], at |-> now] : c \in DOMAIN rates \cap supported}]

(***************************************************************************)
(* Reports in another currency.                                            *)
(***************************************************************************)
\* The fields of a report that are converted.  total_advertising and total_tax
\* of the profit and loss are not among them.
AmountFields ==
  {"total_revenue", "total_fees", "total_refunds", "refunds", "net_profit",
   "current_balance", "reserve_held", "available_for_payout", "revenue",
   "etsy_fees", "advertising_expenses", "product_costs", "invoice_expenses",
   "total_expenses", "total_discounts", "shipping_labels"}

\* A report with its converted amounts, all at one rate; without any if there
\* is no rate, and as it is in its own currency.
EnrichedBy(fields, report, own, target, supported, rate) ==
  IF target \notin supported \/ target = own \/ rate = Null
    THEN [report |-> report, converted |-> [f \in {} |-> 0], currency |-> Null]
    ELSE [report |-> report, currency |-> target,
          converted |-> [f \in fields \cap DOMAIN report |-> Converted(report[f], rate)]]

Enriched(report, target, supported, rate) ==
  EnrichedBy(AmountFields, report, report.currency, target, supported, rate)

\* The overview of the analytics, whose amounts are taken for dollars.
EnrichedOverview(overview, target, supported, rate) ==
  EnrichedBy({"total_revenue", "revenue_7d", "revenue_30d", "avg_order_value"},
             overview, "USD", target, supported, rate)

\* The currency a report is asked in: the request's, or the user's if that is
\* not the default.
TargetCurrency(param, preferred) ==
  IF param # Null THEN param ELSE IF preferred # "USD" THEN preferred ELSE Null

-----------------------------------------------------------------------------
(* Properties, over every input of a bounded set.                          *)

\* exchange_rate_service.py 232-251: a converted amount is the exact one to
\* half a cent, a debit converts like the credit of its size, and a sum of
\* converted amounts is off the converted sum by a cent at most.
ConversionIsExact(amounts, rates) ==
  \A x, y \in amounts, r \in rates :
    /\ 2 * (Converted(x, r) * Unit - x * r) \in -Unit..Unit
    /\ Converted(-x, r) = -Converted(x, r)
    /\ Converted(x + y, r) - Converted(x, r) - Converted(y, r) \in -1..1

\* Everything the stores can become in one lookup.
Lookups(stores, pairs, days, moments, services, supported) ==
  {GetRate(r, p, d, t, s, supported).store :
     r \in stores, p \in pairs, d \in days, t \in moments, s \in services}

\* A cached rate is a row of the table.
Grounded(store) ==
  \A k \in DOMAIN store.cache :
    \E r \in store.rows : r.pair = k[1] /\ r.rate = store.cache[k].rate /\ r.at = store.cache[k].at

\* exchange_rate_service.py 93-229: a day's rate that is not marked stale was
\* there by the end of that day, whatever was cached and stored before; and a
\* supported pair the table knows gets an answer while the service is down.
RatesOfTheirDay(stores, pairs, days, moments, services, supported) ==
  \A s \in stores, p \in pairs, d \in days, t \in moments, v \in services :
    LET a == GetRate(s, p, d, t, v, supported) IN
    /\ a.rate # Null /\ ~a.stale /\ d # Null /\ p[1] # p[2] => a.at <= EndOf(d)
    /\ RowsOf(s, p, Null) # {} /\ {p[1], p[2]} \subseteq supported => a.rate # Null
    /\ Grounded(s) => Grounded(a.store)
=============================================================================
