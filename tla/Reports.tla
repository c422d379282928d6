-------------------------------- MODULE Reports --------------------------------
(***************************************************************************)
(* The financial pages: what FinancialService makes of the stored rows,    *)
(* what the endpoints of financials.py ask it for, and the rows' money and *)
(* types as the financial tasks store them.                                *)
(*                                                                         *)
(* A book holds the rows of one tenant:                                    *)
(*   entries   [id, shop, type, amount, balance, currency, at]             *)
(*   registry  a function from entry types to [category, mapped]           *)
(*   states    a function from shops to [balance, available, reserve,      *)
(*             currency]                                                   *)
(*   payments  [id, shop, net, adjusted, at, fees]                         *)
(*   orders    [id, shop, at, items, discount], items Null or a set of     *)
(*             [id, listing, quantity]                                     *)
(*   products  [id, listing, cost]                                         *)
(*   invoices  [id, shop, status, at, amount]                              *)
(* A query names a shop, or a set of shops, or neither, and a period.      *)
(* Where a query leaves rows in an order of its own, tie is that order: a   *)
(* function from ids to numbers, which may be another for every query.      *)
(***************************************************************************)
EXTENDS Rates

CONSTANT Month  \* thirty days

Absolute(x) == IF x < 0 THEN -x ELSE x
Positive(x) == IF x < 0 THEN 0 ELSE x
Total(S, value(_)) == MapThenSumSet(value, S)
Amount(e) == e.amount
Coalesce(x, default) == IF x = Null THEN default ELSE x

-----------------------------------------------------------------------------
(* How the tasks store money and types.                                    *)

\* Python's round: a half goes to the even neighbour.
RoundHalfEven(n, d) ==
  LET q == n \div d
      r == n % d
  IN  IF 2 * r < d \/ (2 * r = d /\ q % 2 = 0) THEN q ELSE q + 1

\* Etsy's money: Null, a number of cents, or an amount with a divisor.
Normalized(money) ==
  CASE money.kind = "null"   -> 0
    [] money.kind = "number" -> money.amount
    [] money.kind = "money"  ->
         RoundHalfEven(money.amount * 100, IF money.divisor > 0 THEN money.divisor ELSE 100)

EntryType(raw) ==
  IF raw.ledger_type # Null THEN raw.ledger_type ELSE Coalesce(raw.description, "unknown")

Categories == {"sales", "fees", "marketing", "refunds", "adjustments", "other"}

Known(category) == [category |-> category, mapped |-> TRUE]
Unknown         == [category |-> Null, mapped |-> FALSE]

\* What the seed knows replaces what nobody has mapped.
Seeded(registry, seed) ==
  LET Open(t) == t \notin DOMAIN registry \/ registry[t].category = Null \/ ~registry[t].mapped
  IN  [t \in DOMAIN registry \cup DOMAIN seed |->
         IF t \in DOMAIN seed /\ Open(t) THEN Known(seed[t]) ELSE registry[t]]

\* A sync meets an entry of type t.
Met(registry, seed, t) ==
  LET fresh == IF t \in DOMAIN seed THEN Known(seed[t]) ELSE Unknown
      kept  == t \in DOMAIN registry /\ (registry[t].mapped \/ t \notin DOMAIN seed)
  IN  [u \in DOMAIN registry \cup {t} |-> IF u = t /\ ~kept THEN fresh ELSE registry[u]]

\* An owner or admin gives a type its category.
MappedTo(registry, t, category) ==
  IF t \in DOMAIN registry THEN [registry EXCEPT ![t] = Known(category)] ELSE registry

\* The payment account, if Etsy tells it.
AccountState(states, shop, data) ==
  LET reserve == Normalized(data.reserve)
      told == [balance |-> Normalized(data.balance), available |-> Normalized(data.available),
               reserve |-> IF reserve = 0 THEN Null ELSE reserve,
               currency |-> Coalesce(data.currency, "USD")]
  IN  IF data.failed THEN states
      ELSE [s \in DOMAIN states \cup {shop} |-> IF s = shop THEN told ELSE states[s]]

-----------------------------------------------------------------------------
(* What a query covers, and the cache.                                     *)

Covers(q, shop) ==
  IF q.shops # {} THEN shop \in q.shops ELSE q.shop = Null \/ shop = q.shop

During(q, t) == q.from <= t /\ t <= q.to

EntriesOf(b, q) == {e \in b.entries : Covers(q, e.shop) /\ During(q, e.at)}

\* The key has the days of the period, not its moments.
ReportKey(q, metric) ==
  [shops |-> q.shops, shop |-> IF q.shops = {} THEN q.shop ELSE Null,
   metric |-> metric, from |-> DayOf(q.from), to |-> DayOf(q.to)]

\* A read through the cache: [answer, cache].  A Redis that is down is as good
\* as an empty one.
ReadThrough(cache, key, report, refresh) ==
  IF key \in DOMAIN cache /\ ~refresh THEN [answer |-> cache[key], cache |-> cache]
  ELSE [answer |-> report,
        cache |-> [k \in DOMAIN cache \cup {key} |-> IF k = key THEN report ELSE cache[k]]]

-----------------------------------------------------------------------------
(* The reports.                                                            *)

\* The outer join with the registry: Null for a type it lacks or has not mapped.
Category(b, e) ==
  IF e.type \in DOMAIN b.registry THEN b.registry[e.type].category ELSE Null

Sum(b, S, category) == Total({e \in S : Category(b, e) = category}, Amount)

Unmapped(b) == {t \in DOMAIN b.registry : ~b.registry[t].mapped}

\* The newest entry's currency; of those of one moment the database has a choice.
CurrencyOf(S, default) ==
  IF S = {} THEN default
  ELSE Coalesce((CHOOSE e \in S : \A f \in S : f.at <= e.at).currency, default)

ProfitAndLoss(b, q) ==
  LET S == EntriesOf(b, q)
      In(c) == Sum(b, S, c)
  IN  [total_revenue |-> In("sales"), total_fees |-> Absolute(In("fees")),
       total_refunds |-> Absolute(In("refunds")),
       total_advertising |-> Absolute(In("marketing")),
       total_tax |-> Absolute(In("adjustments")),
       net_profit |-> In("sales") + In("fees") + In("marketing") + In("refunds"),
       currency |-> CurrencyOf(S, "USD"), warning |-> Unmapped(b) # {}]

Payouts  == {"payout", "Payment", "Deposit"}
Reserves == {"reserve", "Reserve"}

\* The order of the queries that sort by the time alone.
Newer(e, f, tie) == e.at > f.at \/ (e.at = f.at /\ tie[e.id] < tie[f.id])

\* That of the estimate's last entry.
Later(e, f) == e.at > f.at \/ (e.at = f.at /\ e.id > f.id)

\* At most n of the newest payouts of the last month.
RecentPayouts(S, now, n, tie) ==
  LET P == {e \in S : e.type \in Payouts /\ e.at >= now - Month}
  IN  {e \in P : Cardinality({f \in P : Newer(f, e, tie)}) < n}

\* The shop's payment account if one shop is asked for and it has one, else the
\* running balance of the newest entry of any of the shops.
PayoutEstimate(b, q, now, tie) ==
  LET one == IF q.shops # {} THEN q.shops ELSE IF q.shop # Null THEN {q.shop} ELSE {}
      S   == {e \in b.entries : Covers(q, e.shop)}
      reserve == Absolute(Total({e \in S : e.type \in Reserves}, Amount))
      last == CHOOSE e \in S : \A f \in S \ {e} : Later(e, f)
      balance == IF S = {} THEN 0 ELSE last.balance
  IN  IF Cardinality(one) = 1 /\ one \subseteq DOMAIN b.states
      THEN LET st == b.states[CHOOSE s \in one : TRUE] IN
           [current_balance |-> st.balance, reserve_held |-> Absolute(Coalesce(st.reserve, 0)),
            available_for_payout |-> Positive(st.available), currency |-> st.currency,
            recent |-> RecentPayouts(S, now, 10, tie)]
      ELSE [current_balance |-> balance, reserve_held |-> reserve,
            available_for_payout |-> Positive(balance - reserve),
            currency |-> IF S = {} THEN "USD" ELSE last.currency,
            recent |-> RecentPayouts(S, now, 10, tie)]

\* What was paid of a type's entries, and the pages' name for the type.
FeeBreakdown(b, q, name) ==
  LET S == {e \in EntriesOf(b, q) : e.amount < 0 /\ Category(b, e) = "fees"}
      Named(n) == {e \in S : name[e.type] = n}
      names == {name[e.type] : e \in S}
      paid == {p \in b.payments : Covers(q, p.shop) /\ p.at # Null /\ During(q, p.at)}
  IN  [categories |-> [n \in names |->
         [amount |-> Absolute(Total(Named(n), Amount)), count |-> Cardinality(Named(n))]],
       total_fees |-> Total({e.type : e \in S},
                            LAMBDA t : Absolute(Total({e \in S : e.type = t}, Amount))),
       currency |-> CurrencyOf(S, "ILS"),
       payment_fees |-> Positive(Total(paid, LAMBDA p : p.fees))]

\* One page of the payments, the newest first and those without a date last.
PaymentBefore(p, r, tie) ==
  IF p.at = r.at THEN tie[p.id] < tie[r.id] ELSE r.at = Null \/ (p.at # Null /\ p.at > r.at)

OrderProfitability(b, q, limit, offset, tie) ==
  LET P == {p \in b.payments : Covers(q, p.shop)}
      Rank(p) == Cardinality({r \in P : PaymentBefore(r, p, tie)})
      page == {p \in P : Rank(p) \in offset .. offset + limit - 1}
  IN  [orders |-> {[id |-> p.id, final_net |-> Coalesce(p.adjusted, p.net)] : p \in page},
       total_count |-> Cardinality(P)]

\* Buckets of a granularity, each a stretch of so many moments.
Timeline(b, q, stretch) ==
  LET S == EntriesOf(b, q)
      In(k) == {e \in S : e.at \div stretch = k}
      revenue(k) == Sum(b, In(k), "sales")
      expenses(k) == Absolute(Total({e \in In(k) : e.amount < 0}, Amount))
  IN  [k \in {e.at \div stretch : e \in S} |->
         [revenue |-> revenue(k), expenses |-> expenses(k), net |-> revenue(k) - expenses(k)]]

\* One page of the entries, never more than a hundred.
LedgerPage(b, q, type, limit, offset, tie) ==
  LET S == {e \in EntriesOf(b, q) : type = Null \/ e.type = type}
      Rank(e) == Cardinality({f \in S : Newer(f, e, tie)})
      most == IF limit < 100 THEN limit ELSE 100
  IN  [entries |-> {e \in S : Rank(e) \in offset .. offset + most - 1},
       total_count |-> Cardinality(S)]

OrdersOf(b, q) == {o \in b.orders : Covers(q, o.shop) /\ During(q, o.at)}

\* Every product row of a sold listing counts, of whatever shop; a quantity that
\* is no number makes the whole cost nothing.
ProductCosts(b, q) ==
  LET items == UNION {o.items : o \in {o \in OrdersOf(b, q) : o.items # Null}}
      Sold(l) == Total({i \in items : i.listing = l}, LAMBDA i : i.quantity)
  IN  IF \E i \in items : i.quantity = Null THEN 0
      ELSE Total({p \in b.products : p.cost > 0}, LAMBDA p : p.cost * Sold(p.listing))

Discounted(b, q) == {o \in OrdersOf(b, q) : o.discount > 0}
TotalDiscounts(b, q) == Total(Discounted(b, q), LAMBDA o : o.discount)

DiscountSummary(b, q) ==
  [total_discounts |-> TotalDiscounts(b, q), orders |-> Cardinality(Discounted(b, q)),
   currency |-> "USD"]

InvoiceExpenses(b, q) ==
  Total({i \in b.invoices : /\ i.status = "approved" /\ Covers(q, i.shop)
                            /\ i.at # Null /\ During(q, i.at)},
        LAMBDA i : Coalesce(i.amount, 0))

Summary(b, q) ==
  LET S == EntriesOf(b, q)
      In(c) == Sum(b, S, c)
      fees == Absolute(In("fees"))
      ads  == Absolute(In("marketing"))
      costs == ProductCosts(b, q)
      invoices == InvoiceExpenses(b, q)
  IN  [revenue |-> In("sales"), etsy_fees |-> fees, advertising_expenses |-> ads,
       product_costs |-> costs, invoice_expenses |-> invoices, shipping_labels |-> 0,
       refunds |-> Absolute(In("refunds")), total_discounts |-> TotalDiscounts(b, q),
       total_expenses |-> fees + ads + costs + invoices,
       net_profit |-> In("sales") + In("fees") + In("marketing") + In("refunds") - costs - invoices,
       currency |-> CurrencyOf(S, "USD"), warning |-> Unmapped(b) # {}]

-----------------------------------------------------------------------------
(* The endpoints.                                                          *)

\* The shops of a request, or a refusal.  Without a list (Null) the one shop must
\* be open to the caller; with one, every shop of the list, and the one shop counts
\* only if the list is empty (commas alone), and is then not checked.
Asked(shop, listed, open) ==
  LET shops == IF listed = Null THEN {} ELSE listed
  IN  [refused |-> \/ listed = Null /\ shop # Null /\ shop \notin open
                   \/ ~(shops \subseteq open),
       shop |-> IF shops = {} THEN shop ELSE Null, shops |-> shops]

\* The estimate is refused for a tenant with several shops that names none.
PayoutRefused(asked, tenantShops) ==
  asked.refused \/ (asked.shops = {} /\ asked.shop = Null /\ Cardinality(tenantShops) > 1)

\* What the endpoints of the reports answer: the report, and its amounts in the
\* currency the user wants, at the rate there is.
Served(asked, report, target, supported, rate) ==
  IF asked.refused THEN Null ELSE Enriched(report, target, supported, rate)

\* Those of the pages and the timeline convert nothing.
ServedAsIs(asked, report) == IF asked.refused THEN Null ELSE report

\* A summary for each shop, over one period.
Comparison(b, shops, period) ==
  [s \in shops |-> Summary(b, [shop |-> Null, shops |-> {s}, from |-> period.from, to |-> period.to])]

\* The scope of the first token found, of the shop or of any of the tenant's.
HasBillingScope(token) ==
  token # Null /\ {"billing_r", "transactions_r"} \cap token.scopes # {}

-----------------------------------------------------------------------------
(* Properties, over every book and query of a bounded set.                 *)

\* A type has a category exactly when it is mapped.
Consistent(registry) == \A t \in DOMAIN registry : registry[t].mapped <=> registry[t].category # Null

\* financial_tasks.py 147-209 and financials.py 342-372: the seed and the syncs
\* leave what is mapped as it is, whatever the seed says of it, an entry's type
\* is registered, and a type has a category exactly when it is mapped.
RegistryKept(registries, seeds, types) ==
  \A r \in registries, s \in seeds, t \in types :
    Consistent(r) =>
      /\ t \in DOMAIN Met(r, s, t)
      /\ \A after \in {Seeded(r, s), Met(r, s, t)} :
           /\ Consistent(after)
           /\ \A u \in DOMAIN r : r[u].mapped => after[u] = r[u]
           /\ \A u \in DOMAIN after : after[u] # Unknown /\ (u \notin DOMAIN r \/ ~r[u].mapped)
                 => after[u] = Known(s[u])
      /\ \A c \in Categories : Consistent(MappedTo(r, t, c))

\* financial_tasks.py 32-50: money of any divisor is stored to the nearest cent.
NearestCent(amounts, divisors) ==
  \A a \in amounts, d \in divisors :
    LET cents == Normalized([kind |-> "money", amount |-> a, divisor |-> d]) IN
    d > 0 => 2 * (cents * d - a * 100) \in -d..d

\* financial_service.py 154-190: the profit leaves out what is adjustment, other
\* or unmapped, and nothing else; and without the warning nothing is unmapped.
NothingUncounted(b, q) ==
  LET S == EntriesOf(b, q)
      p == ProfitAndLoss(b, q)
      aside == Sum(b, S, "adjustments") + Sum(b, S, "other") + Sum(b, S, Null)
  IN  /\ p.net_profit + aside = Total(S, Amount)
      /\ ~p.warning /\ Consistent(b.registry) /\ {e.type : e \in S} \subseteq DOMAIN b.registry
           => \A e \in S : Category(b, e) # Null

\* financial_service.py 807-937: the summary and the profit and loss agree up to
\* costs and invoices, and the summary's own blocks explain its net, unless a
\* block's credits outweigh its debits.
SummaryAgrees(b, q) ==
  LET p == ProfitAndLoss(b, q)
      s == Summary(b, q)
      Debit(c) == Sum(b, EntriesOf(b, q), c) <= 0
  IN  /\ s.revenue = p.total_revenue /\ s.etsy_fees = p.total_fees
      /\ s.net_profit = p.net_profit - s.product_costs - s.invoice_expenses
      /\ Debit("fees") /\ Debit("marketing") /\ Debit("refunds")
           => s.net_profit = s.revenue - s.refunds - s.total_expenses

\* financial_service.py 319-421: the named fees add up to the total, whatever the
\* map of names leaves to "other"; it is the profit and loss's, and more by the
\* fees Etsy gave back.
FeesAddUp(b, q, name) ==
  LET f == FeeBreakdown(b, q, name)
      fees == {e \in EntriesOf(b, q) : Category(b, e) = "fees"}
      credits == Total({e \in fees : e.amount > 0}, Amount)
  IN  /\ Total(DOMAIN f.categories, LAMBDA n : f.categories[n].amount) = f.total_fees
      /\ Total(DOMAIN f.categories, LAMBDA n : f.categories[n].count)
           = Cardinality({e \in fees : e.amount < 0})
      /\ f.total_fees - credits = -Sum(b, EntriesOf(b, q), "fees")

\* financial_service.py 499-590: every granularity shows the same revenue, the
\* one of the profit and loss, and the same expenses.
TimelinesAgree(b, q, stretches) ==
  LET All(k, field) == LET t == Timeline(b, q, k) IN Total(DOMAIN t, LAMBDA i : t[i][field])
  IN  \A k, l \in stretches :
        /\ All(k, "revenue") = ProfitAndLoss(b, q).total_revenue
        /\ All(k, "expenses") = All(l, "expenses")
        /\ All(k, "net") = All(k, "revenue") - All(k, "expenses")

\* No other row of S is of the moment of x.
Alone(x, S) == \A y \in S : y.at = x.at => y = x

\* financial_service.py 427-493 and 596-650: turning the pages shows every row
\* once, whatever order each page's query gives the rows of one moment, unless
\* there are others of that row's moment and the queries order them differently:
\* those may repeat or be missed.
PagesPartition(b, q, limit, ties) ==
  LET pages == 0 .. Cardinality(b.entries) + Cardinality(b.payments)
      steady == \A j, k \in pages : ties[j] = ties[k]
      S == EntriesOf(b, q)
      P == {p \in b.payments : Covers(q, p.shop)}
      ledger(k) == LedgerPage(b, q, Null, limit, limit * k, ties[k]).entries
      profit(k) == {r.id : r \in OrderProfitability(b, q, limit, limit * k, ties[k]).orders}
  IN  /\ \A e \in S : steady \/ Alone(e, S) => Cardinality({k \in pages : e \in ledger(k)}) = 1
      /\ \A p \in P : steady \/ Alone(p, P) => Cardinality({k \in pages : p.id \in profit(k)}) = 1

\* financial_service.py 656-718: where every listing has one row, the costs are
\* those of the items sold.
CostsOfItems(b, q) ==
  LET items == UNION {o.items : o \in {o \in OrdersOf(b, q) : o.items # Null}}
      CostOf(i) == Total({p \in b.products : p.listing = i.listing /\ p.cost > 0}, LAMBDA p : p.cost)
  IN  (\A p, r \in b.products : p.listing = r.listing => p = r) /\ (\A i \in items : i.quantity # Null)
        => ProductCosts(b, q) = Total(items, LAMBDA i : CostOf(i) * i.quantity)

\* The days on which a period begins and ends.
EdgeDays(period) == {DayOf(period.from), DayOf(period.to)}

\* financial_service.py 73-78 and 143-145: of two requests that share a key, from
\* whatever moments to whatever moments, one covers an entry and the other not only
\* if the entry is of a day on which the period begins or ends; without rows of
\* those days both are given the same reports.
KeysTellApart(b, queries) ==
  \A q, r \in queries :
    LET Edge(t) == t # Null /\ DayOf(t) \in EdgeDays(q)
        E == EntriesOf(b, q)
        F == EntriesOf(b, r)
    IN  ReportKey(q, "pnl") = ReportKey(r, "pnl") =>
          /\ \A e \in (E \cup F) \ (E \cap F) : Edge(e.at)
          /\ (\A x \in b.entries \cup b.orders \cup b.invoices : ~Edge(x.at)) =>
               ProfitAndLoss(b, q) = ProfitAndLoss(b, r) /\ Summary(b, q) = Summary(b, r)

\* financials.py 73-90: a request that names shops is refused or shows rows of
\* shops open to its caller alone.  One that names none shows the tenant's, and a
\* list of commas alone is left out here: the shop named beside it is not checked.
OpenShopsOnly(b, shops, tie) ==
  \A open \in SUBSET shops, listed \in {Null} \cup ((SUBSET shops) \ {{}}),
     one \in shops \cup {Null} :
    LET a == Asked(one, listed, open)
        q == [shop |-> a.shop, shops |-> a.shops, from |-> 0, to |-> 2 * Month]
    IN  ~a.refused /\ (listed # Null \/ one # Null) =>
          \A e \in ServedAsIs(a, LedgerPage(b, q, Null, 100, 0, tie)).entries : e.shop \in open

\* financials.py 494-530: the nets of the shops compared add up to the net of
\* the shops together.
ShopsAddUp(b, shops, period) ==
  LET all == [shop |-> Null, shops |-> shops, from |-> period.from, to |-> period.to]
      each == Comparison(b, shops, period)
  IN  shops # {} /\ (\A o \in b.orders : o.items # Null => \A i \in o.items : i.quantity # Null)
        => Total(shops, LAMBDA s : each[s].net_profit) = Summary(b, all).net_profit
=============================================================================
