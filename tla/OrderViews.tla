------------------------------- MODULE OrderViews -------------------------------
(***************************************************************************)
(* What the pages show of the orders: the cards, the list and the single   *)
(* order of orders.py, the dashboard of dashboard.py, and the overviews of *)
(* AnalyticsService.                                                       *)
(*                                                                         *)
(* A row is [id, shop, supplier, etsy, life, pay, fulf, status, created,   *)
(* stored, price, currency, buyer, items, shipments]: Etsy's own status,   *)
(* the three columns derived from it, any of which an old row may lack,    *)
(* and the legacy column; when Etsy created it, or Null, and when it was   *)
(* stored.  A viewer is [user, role, shops], the shops of its list.        *)
(***************************************************************************)
EXTENDS Reports, Sequences

CONSTANT Week   \* seven days

ASSUME OrderViewsAssumption == {Week, Month} \subseteq Nat /\ 0 < Week /\ Week <= Month

Lifecycles == {"processing", "in_transit", "completed", "cancelled", "refunded"}
Cancels == {"canceled", "cancelled"}
Refunds == {"refunded", "fully refunded"}
Pays    == {"paid", "completed"}

-----------------------------------------------------------------------------
(* The columns as the sync derives them, and as the pages do for a row that *)
(* lacks them.                                                             *)

LifecycleFor(etsy, fulf) ==
  IF etsy \in Cancels THEN "cancelled"
  ELSE IF etsy \in Refunds THEN "refunded"
  ELSE IF fulf = "delivered" \/ etsy = "completed" THEN "completed"
  ELSE IF fulf = "shipped" THEN "in_transit" ELSE "processing"

LegacyFor(life, fulf) ==
  IF life = "in_transit" \/ (life = "completed" /\ fulf # "delivered") THEN "shipped"
  ELSE IF life = "completed" THEN "delivered" ELSE life

\* The statuses of a row that is stored for a receipt.
Synced(row, etsy, paid, fulf) ==
  LET life == LifecycleFor(etsy, fulf)
  IN  [row EXCEPT !.etsy = etsy, !.life = life, !.fulf = fulf,
                  !.pay = IF paid \/ etsy \in Pays THEN "paid" ELSE "unpaid",
                  !.status = LegacyFor(life, fulf)]

ShownPayment(o) == IF o.pay # Null THEN o.pay ELSE IF o.etsy \in Pays THEN "paid" ELSE "unpaid"

ShownLifecycle(o) ==
  IF o.life # Null THEN o.life
  ELSE IF o.etsy \in Refunds \/ o.status = "refunded" THEN "refunded"
  ELSE IF o.etsy \in Cancels \/ o.status = "cancelled" THEN "cancelled"
  ELSE IF o.etsy = "completed" \/ o.fulf = "delivered" THEN "completed"
  ELSE IF "shipped" \in {o.fulf, o.status} THEN "in_transit" ELSE "processing"

-----------------------------------------------------------------------------
(* Cards and lists.                                                        *)

\* The cards a row without a lifecycle is on.
Legacy(o) ==
  (IF o.etsy \notin {"completed"} \cup Cancels \cup Refunds /\ o.fulf \in {Null, "unshipped"}
     THEN {"processing"} ELSE {})
  \cup (IF o.fulf = "shipped" THEN {"in_transit"} ELSE {})
  \cup (IF o.fulf = "delivered" \/ o.etsy = "completed" THEN {"completed"} ELSE {})
  \cup (IF o.etsy \in Cancels THEN {"cancelled"} ELSE {})
  \cup (IF o.etsy \in Refunds THEN {"refunded"} ELSE {})

Cards(o) == IF o.life = Null THEN Legacy(o) ELSE {o.life}

IsPaid(o) == o.pay = "paid" \/ (o.pay = Null /\ o.etsy \in Pays)
IsUnpaid(o) == o.pay = "unpaid" \/ (o.pay = Null /\ o.etsy \notin Pays)

\* A supplier is shown the orders assigned to it.
Theirs(o, viewer) == viewer.role = "supplier" => o.supplier = viewer.user

Visible(rows, viewer, q) == {o \in rows : Covers(q, o.shop) /\ Theirs(o, viewer)}

Breakdown(S) ==
  [order |-> [c \in Lifecycles |-> Cardinality({o \in S : c \in Cards(o)})],
   payment |-> [paid |-> Cardinality({o \in S : IsPaid(o)}),
                unpaid |-> Cardinality({o \in S : IsUnpaid(o)})]]

OrderStats(rows, viewer, q) ==
  LET S == Visible(rows, viewer, q) IN [counts |-> Breakdown(S), total |-> Cardinality(S)]

\* The list's filter: unlike the cards, a cancelled or refunded order is found
\* by Etsy's status whatever its lifecycle.
Matches(o, status, payment) ==
  /\ \/ status = Null \/ status \in Cards(o)
     \/ (status = "cancelled" /\ o.etsy \in Cancels) \/ (status = "refunded" /\ o.etsy \in Refunds)
  /\ payment = "paid" => IsPaid(o)
  /\ payment = "unpaid" => IsUnpaid(o)

\* The newest at Etsy first, those without a date last.
OrderBefore(o, p, tie) ==
  IF o.created # p.created THEN p.created = Null \/ (o.created # Null /\ o.created > p.created)
  ELSE o.stored > p.stored \/ (o.stored = p.stored /\ tie[o.id] < tie[p.id])

Slice(S, skip, limit, tie) ==
  {o \in S : Cardinality({p \in S : OrderBefore(p, o, tie)}) \in skip .. skip + limit - 1}

\* The newest shipment that has a code.
LatestCode(shipments) ==
  LET coded == {i \in DOMAIN shipments : shipments[i] # Null}
  IN  IF coded = {} THEN Null ELSE shipments[Max(coded)]

\* The first item with a picture, or the first.
Pictured(items) ==
  LET with == {i \in DOMAIN items : items[i].image # Null}
  IN  IF items = <<>> THEN Null ELSE items[IF with = {} THEN 1 ELSE Min(with)]

\* The currency of the pages of orders: what the request or the user names, if
\* it is supported.
OrderCurrency(param, preferred, supported) ==
  IF param \in supported THEN param ELSE IF preferred \in supported THEN preferred ELSE Null

\* The dashboard takes a request's currency that is not supported for none.
DashboardCurrency(param, preferred, supported) ==
  IF param # Null THEN OrderCurrency(param, Null, supported)
  ELSE OrderCurrency(Null, preferred, supported)

\* A price, which suppliers are not told, and the price in another currency, if
\* there is a rate.
PriceFor(o, viewer, target, rate) ==
  LET hidden == viewer.role = "supplier"
      own == Coalesce(o.currency, "USD")
      same == Null \in {target, rate} \/ target = own \/ Coalesce(o.price, 0) = 0
  IN  [price |-> IF hidden THEN Null ELSE Coalesce(o.price, 0),
       converted |-> IF hidden \/ same THEN Null ELSE Converted(o.price, rate)]

ShownRow(o, viewer, target, rate) ==
  [id |-> o.id, money |-> PriceFor(o, viewer, target, rate), status |-> ShownLifecycle(o),
   payment |-> ShownPayment(o), fulfillment |-> Coalesce(o.fulf, "unshipped"),
   tracking |-> LatestCode(o.shipments), item |-> Pictured(o.items)]

OrderPage(rows, viewer, q, status, payment, skip, limit, target, rate, tie) ==
  LET S == {o \in Visible(rows, viewer, q) : Matches(o, status, payment)}
  IN  [orders |-> {ShownRow(o, viewer, target, rate) : o \in Slice(S, skip, limit, tie)},
       total |-> Cardinality(S)]

\* One order: whatever its shop, if it is the tenant's and, for a supplier, its own.
Opened(rows, viewer, id) ==
  LET found == {o \in rows : o.id = id}
      o == CHOOSE o \in found : TRUE
  IN  IF found = {} THEN "missing"
      ELSE IF ~Theirs(o, viewer) THEN "forbidden" ELSE "shown"

\* An owner or admin gives an order of a shop open to it to one of the suppliers.
Assigned(rows, viewer, open, id, user, suppliers) ==
  {IF o.id = id /\ o.shop \in open /\ viewer.role \in {"owner", "admin"} /\ user \in suppliers
   THEN [o EXCEPT !.supplier = user] ELSE o : o \in rows}

-----------------------------------------------------------------------------
(* The dashboard.                                                          *)

\* A supplier that names no shop is shown those of its list.
DashboardQuery(viewer, q) ==
  IF q.shops = {} /\ q.shop = Null /\ viewer.role = "supplier"
  THEN [q EXCEPT !.shops = viewer.shops] ELSE q

\* Products of no shop count for every shop.
ProductsOf(products, q) == {p \in products : p.shop = Null \/ Covers(q, p.shop)}

Dashboard(rows, products, viewer, q0, viewed) ==
  LET q == DashboardQuery(viewer, q0)
      S == Visible(rows, viewer, q)
      P == ProductsOf(products, q)
  IN  [total_products |-> Cardinality(P),
       active_listings |-> Cardinality({p \in P : p.listing # Null}),
       total_orders |-> Cardinality(S),
       total_customers |-> Cardinality({o.buyer : o \in S} \ {Null}),
       unread |-> Cardinality({o \in S : viewed = Null \/ Coalesce(o.created, o.stored) > viewed})]

\* A member who has accepted has seen the orders now.
Viewed(viewed, accepted, now) == IF accepted THEN now ELSE viewed

RecentOrders(rows, viewer, q, limit, target, rate, tie) ==
  {[id |-> o.id, money |-> PriceFor(o, viewer, target, rate), status |-> ShownLifecycle(o),
    payment |-> ShownPayment(o)] : o \in Slice(Visible(rows, viewer, q), 0, limit, tie)}

-----------------------------------------------------------------------------
(* The analytics, of a range or, where it is Null, of everything.          *)

Dated(range, t) == range = Null \/ (t # Null /\ During(range, t))

\* The orders whose price counts.  SQL leaves out those without a status.
Earning(o) ==
  o.status \notin {Null, "cancelled", "refunded"} /\ o.life \notin {"cancelled", "refunded"}

CreatedSince(S, t) == {o \in S : o.created # Null /\ o.created >= t}

\* The change in hundredths of a percent.
Trend(current, previous) ==
  IF previous = 0 THEN IF current > 0 THEN 10000 ELSE 0
  ELSE RoundHalfEven((current - previous) * 10000, previous)

\* A window ends now, or with the range, and begins with the range at the earliest.
WindowStart(range, now, length) ==
  IF range = Null THEN now - length ELSE Max({range.to - length, range.from})

Overview(rows, q, range, now) ==
  LET S == {o \in rows : Covers(q, o.shop) /\ Dated(range, o.created)}
      earning == {o \in S : Earning(o)}
      Revenue(T) == Total(T, LAMBDA o : Coalesce(o.price, 0))
      Recent(T, n) == CreatedSince(T, WindowStart(range, now, n))
      Prior(T, n) == CreatedSince(T, WindowStart(range, now, n) - n) \ Recent(T, n)
      Changed(n) == [orders |-> Trend(Cardinality(Recent(S, n)), Cardinality(Prior(S, n))),
                     revenue |-> Trend(Revenue(Recent(earning, n)), Revenue(Prior(earning, n)))]
  IN  [total_orders |-> Cardinality(S), total_revenue |-> Revenue(earning),
       avg_order_value |-> IF earning = {} THEN 0
                           ELSE RoundHalfEven(Revenue(earning), Cardinality(earning)),
       orders_7d |-> Cardinality(Recent(S, Week)), orders_30d |-> Cardinality(Recent(S, Month)),
       revenue_7d |-> Revenue(Recent(earning, Week)),
       revenue_30d |-> Revenue(Recent(earning, Month)),
       trend_7d |-> Changed(Week), trend_30d |-> Changed(Month)]

OrderAnalytics(rows, q, range) ==
  Breakdown({o \in rows : Covers(q, o.shop) /\ Dated(range, o.created)})

ProductAnalytics(products, q, range) ==
  LET P == {p \in ProductsOf(products, q) : Dated(range, p.created)}
      published == {p \in P : p.listing # Null}
  IN  [total |-> Cardinality(P), published |-> Cardinality(published),
       draft |-> Cardinality(P \ published)]

\* An event is [id, order, shop, state, source, at, shipped].
States == {"processing", "shipped", "in_transit", "delivered", "delayed", "cancelled"}

FulfillmentAnalytics(rows, events, q, range) ==
  LET E == {e \in events : Covers(q, e.shop) /\ Dated(range, e.at)}
      Of(e) == CHOOSE o \in rows : o.id = e.order
      timed == {e \in E : e.state = "shipped" /\ e.shipped # Null /\ Of(e).created # Null}
      kept == {e \in events : /\ Covers(q, Of(e).shop) /\ Dated(range, e.at)
                              /\ Of(e).supplier # Null}
      Count(P(_)) == Cardinality({e \in E : P(e)})
  IN  [states |-> [s \in States |-> Count(LAMBDA e : e.state = s)],
       sources |-> [s \in {"manual", "etsy_sync", "auto"} |-> Count(LAMBDA e : e.source = s)],
       time |-> IF timed = {} THEN 0
                ELSE Total(timed, LAMBDA e : e.shipped - Of(e).created) \div Cardinality(timed),
       suppliers |-> [u \in {Of(e).supplier : e \in kept} |->
                        Cardinality({e \in kept : Of(e).supplier = u})]]

\* The overview's key has the moments of a range, the others' its days.
AnalyticsKey(q, metric, range) ==
  LET Part(t) == IF metric = "overview" THEN t ELSE DayOf(t)
  IN  [shops |-> q.shops, shop |-> IF q.shops = {} THEN q.shop ELSE Null, metric |-> metric,
       range |-> IF range = Null THEN Null ELSE <<Part(range.from), Part(range.to)>>]

\* What the endpoints answer to a request for the shops asked.
ServedOverview(asked, rows, range, now, target, supported, rate) ==
  IF asked.refused THEN Null
  ELSE EnrichedOverview(Overview(rows, asked, range, now), target, supported, rate)

ServedAnalytics(asked, rows, products, events, range) ==
  IF asked.refused THEN Null
  ELSE [orders |-> OrderAnalytics(rows, asked, range),
        products |-> ProductAnalytics(products, asked, range),
        fulfillment |-> FulfillmentAnalytics(rows, events, asked, range)]

\* The overview and the orders of each shop.
CompareShops(rows, shops, now) ==
  [s \in shops |-> LET q == [shop |-> s, shops |-> {}]
                   IN  [overview |-> Overview(rows, q, Null, now),
                        orders |-> OrderAnalytics(rows, q, Null)]]

-----------------------------------------------------------------------------
(* Properties, over every row and request of a bounded set.                *)

\* order_utils.py 6-36, order_tasks.py 369-421, orders.py 84-125 and 195-263,
\* analytics_service.py 147-156: a row as a sync stores it is on one card, in the
\* list of that card and of no other, earns unless that card is cancelled or
\* refunded, and would be shown the same had its lifecycle not been stored, nor,
\* for one cancelled or refunded, Etsy's status.
SyncedCountsOnce(row, statuses, fulfs) ==
  \A etsy \in statuses, paid \in BOOLEAN, fulf \in fulfs :
    LET o == Synced(row, etsy, paid, fulf) IN
    /\ Cards(o) = {ShownLifecycle(o)}
    /\ \A c \in Lifecycles : Matches(o, c, Null) <=> c \in Cards(o)
    /\ Earning(o) <=> Cards(o) \cap {"cancelled", "refunded"} = {}
    /\ ShownLifecycle([o EXCEPT !.life = Null]) = o.life
    /\ o.life \in {"cancelled", "refunded"} =>
         ShownLifecycle([o EXCEPT !.life = Null, !.etsy = Null]) = o.life
    /\ IsPaid(o) # IsUnpaid(o)

\* orders.py 84-125 and order_utils.py 18-36: a row is on some card, and on no
\* other if that is "processing", is either paid or unpaid, and what is shown of
\* it is one of its cards, unless only the legacy column says so.
ShownIsCounted(rows) ==
  \A o \in rows :
    /\ Cards(o) # {} /\ IsPaid(o) # IsUnpaid(o)
    /\ "processing" \in Cards(o) => Cards(o) = {"processing"}
    /\ \/ ShownLifecycle(o) \in Cards(o)
       \/ o.life = Null /\ o.status \in {"cancelled", "refunded", "shipped"}
    /\ ShownPayment(o) = "paid" <=> IsPaid(o)

\* orders.py 52-451: a supplier is listed its own orders, without their prices,
\* can open what it is listed and nothing else, and shares no order with another,
\* also after an order was given to someone else.
SuppliersKeepApart(rows, users, open, queries, rates, tie) ==
  \A u, v \in users, q \in queries, id \in {o.id : o \in rows}, w \in users, r \in rates :
    LET Supplier(x) == [user |-> x, role |-> "supplier", shops |-> {}]
        owner == [user |-> Null, role |-> "owner", shops |-> {}]
        after == Assigned(rows, owner, open, id, w, users)
        List(x) ==
          OrderPage(after, Supplier(x), q, Null, Null, 0, Cardinality(rows), "EUR", r, tie)
        ids(x) == {o.id : o \in List(x).orders}
    IN  /\ \A o \in List(u).orders : {o.money.price, o.money.converted} = {Null}
        /\ \A i \in ids(u) : Opened(after, Supplier(u), i) = "shown"
        /\ u # v => /\ ids(u) \cap ids(v) = {}
                    /\ \A i \in ids(v) : Opened(after, Supplier(u), i) = "forbidden"

\* orders.py 265-277: turning the pages shows every order that matches once, unless
\* others were created at Etsy and stored at the same moments and the queries of
\* two pages order them differently.
OrderPagesPartition(rows, viewer, q, limit, ties) ==
  LET pages == 0 .. Cardinality(rows)
      steady == \A j, k \in pages : ties[j] = ties[k]
      S == Visible(rows, viewer, q)
      Single(o) == \A p \in S : p.created = o.created /\ p.stored = o.stored => p = o
      Page(k) == OrderPage(rows, viewer, q, Null, Null, limit * k, limit, Null, Null, ties[k])
      In(k) == {o.id : o \in Page(k).orders}
  IN  \A o \in S : steady \/ Single(o) => Cardinality({k \in pages : o.id \in In(k)}) = 1

\* dashboard.py 25-129 and 142-252: the dashboard counts the orders the cards
\* count, if the same shops are asked for, the unread ones are among them, and
\* after a member has viewed the orders none that there was is unread.
DashboardAgrees(rows, viewer, q, viewed, now, tie) ==
  LET d == Dashboard(rows, {}, viewer, q, viewed)
  IN  /\ q.shops # {} \/ q.shop # Null \/ viewer.shops = {}
           => d.total_orders = OrderStats(rows, viewer, q).total
      /\ d.unread <= d.total_orders /\ d.total_customers <= d.total_orders
      /\ viewed = Null => d.unread = d.total_orders
      /\ (\A o \in rows : Coalesce(o.created, o.stored) <= now)
           => Dashboard(rows, {}, viewer, q, Viewed(viewed, TRUE, now)).unread = 0
      /\ \A o \in RecentOrders(rows, viewer, q, 2, Null, Null, tie) :
           \E r \in Visible(rows, viewer, q) : r.id = o.id

\* analytics_service.py 78-222: the windows lie within each other and within the
\* whole, and without a range a window and the one before it are everything
\* since the earlier began.
WindowsNest(rows, q, range, now) ==
  LET o == Overview(rows, q, range, now)
      all == Overview(rows, q, Null, now)
      Double(n) == Cardinality(CreatedSince({x \in rows : Covers(q, x.shop)}, now - 2 * n))
  IN  /\ o.orders_7d <= o.orders_30d /\ o.orders_30d <= o.total_orders
      /\ o.revenue_7d <= o.revenue_30d /\ o.revenue_30d <= o.total_revenue
      /\ o.total_orders <= all.total_orders
      /\ all.trend_7d.orders = Trend(all.orders_7d, Double(Week) - all.orders_7d)
      /\ all.trend_30d.orders = Trend(all.orders_30d, Double(Month) - all.orders_30d)

\* analytics_service.py 342-500 and dashboard.py 56-68: every event is counted
\* once by state and once by source, a supplier for every event of its orders, and
\* the products of the dashboard are those of the analytics.
FulfillmentAgrees(rows, events, products, q) ==
  LET f == FulfillmentAnalytics(rows, events, q, Null)
      E == {e \in events : Covers(q, e.shop)}
      All(g) == Total(DOMAIN g, LAMBDA x : g[x])
      viewer == [user |-> Null, role |-> "owner", shops |-> {}]
      d == Dashboard(rows, products, viewer, q, Null)
      p == ProductAnalytics(products, q, Null)
  IN  /\ All(f.states) = Cardinality(E) /\ All(f.sources) = Cardinality(E)
      /\ All(f.suppliers) =
           Cardinality({e \in E : \E o \in rows : o.id = e.order /\ o.supplier # Null})
      /\ f.time > 0 => \E e \in E : e.state = "shipped"
      /\ d.total_products = p.total /\ d.active_listings = p.published
      /\ p.draft + p.published = p.total

\* endpoints/analytics.py 51-173: a request that names shops is answered from the
\* orders and events of shops open to the caller, or refused; a list of commas alone
\* is left out, as the shop named beside it is not checked.
OnlyOpenShops(rows, events, products, shops, now) ==
  \A open \in SUBSET shops, listed \in {Null} \cup ((SUBSET shops) \ {{}}),
     one \in shops \cup {Null}, r \in {Null, 5} :
    LET Of(S) == {x \in S : x.shop \in open \cup {Null}}
        a == Asked(one, listed, open)
    IN  listed # Null \/ one # Null =>
          /\ ServedOverview(a, rows, Null, now, "EUR", {"EUR", "USD"}, r) =
               ServedOverview(a, Of(rows), Null, now, "EUR", {"EUR", "USD"}, r)
          /\ ServedAnalytics(a, rows, products, events, Null) =
               ServedAnalytics(a, Of(rows), Of(products), Of(events), Null)

\* endpoints/analytics.py 176-216: the shops compared add up to the shops together.
ComparisonAddsUp(rows, shops, now) ==
  LET all == [shop |-> Null, shops |-> shops]
      each == CompareShops(rows, shops, now)
  IN  shops # {} =>
        /\ Overview(rows, all, Null, now).total_revenue =
             Total(shops, LAMBDA s : each[s].overview.total_revenue)
        /\ \A c \in Lifecycles : OrderAnalytics(rows, all, Null).order[c] =
             Total(shops, LAMBDA s : each[s].orders.order[c])

\* analytics_service.py 29-44 and 224-340: two requests that share a key, over
\* whatever moments, have the same answer if no order is of a day on which the range
\* begins or ends.
AnalyticsKeysSuffice(rows, queries, ranges) ==
  \A q, p \in queries, r, t \in ranges :
    /\ AnalyticsKey(q, "orders", r) = AnalyticsKey(p, "orders", t)
    /\ r # Null => \A o \in rows : o.created # Null => DayOf(o.created) \notin EdgeDays(r)
    => OrderAnalytics(rows, q, r) = OrderAnalytics(rows, p, t)
=============================================================================
