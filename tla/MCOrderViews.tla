------------------------------ MODULE MCOrderViews ------------------------------
(* OrderViews over up to three orders of two shops and two suppliers.        *)
EXTENDS OrderViews

Etsys == {Null, "open", "paid", "completed"} \cup Cancels \cup Refunds
Fulfs  == {"unshipped", "shipped", "delivered"}

Plain == [id |-> 1, shop |-> 1, supplier |-> Null, etsy |-> Null, life |-> Null, pay |-> Null,
          fulf |-> Null, status |-> "pending", created |-> 1, stored |-> 1, price |-> 3,
          currency |-> "USD", buyer |-> "b", items |-> <<>>, shipments |-> <<>>]

AnyRow ==
  {[Plain EXCEPT !.etsy = e, !.life = l, !.pay = p, !.fulf = f, !.status = s] :
     e \in Etsys, l \in Lifecycles \cup {Null}, p \in {Null, "paid", "unpaid"},
     f \in Fulfs \cup {Null},
     s \in {"pending", "processing", "shipped", "delivered", "cancelled", "refunded"}}

Made(f) ==
  {[Plain EXCEPT !.id = i, !.shop = (i % 2) + 1, !.created = f[i].at, !.stored = 3 - i, !.price = i,
                 !.supplier = f[i].by, !.life = f[i].life, !.buyer = IF i = 1 THEN Null ELSE "b"] :
     i \in DOMAIN f}

\* Orders by time and outcome, and orders by supplier.
Timed == {Made(f) : f \in
            [1..3 -> [at : {Null, 1, 4, 7}, life : {Null, "refunded"}, by : {Null}]]}
Held  == {Made(f) : f \in
            [1..3 -> [at : {1, Null}, life : {"completed"}, by : {Null, "u", "v"}]]}

\* Orders stored at one moment.
Twins == {{[o EXCEPT !.stored = 1] : o \in r} : r \in Held}

Asks   == {[shop |-> Null, shops |-> {}], [shop |-> 1, shops |-> {}],
           [shop |-> Null, shops |-> {1, 2}]}
Ranges == {Null, [from |-> 1, to |-> 7], [from |-> 6, to |-> 8]}
Days2  == {Null} \cup {[from |-> f, to |-> t] : f \in 2..5, t \in {8, 9}}
Down   == [i \in 1..3 |-> -i]
Tied   == {[k \in 0..3 |-> IF k % 2 = 0 THEN a ELSE z] : a, z \in {[i \in 1..3 |-> i], Down}}
Viewers == {[user |-> "o", role |-> "owner", shops |-> {}],
            [user |-> "u", role |-> "supplier", shops |-> {1}],
            [user |-> "v", role |-> "supplier", shops |-> {}]}

\* Events of the orders, each of its order's shop, and products.
Events(r) ==
  {[id |-> <<o.id, k>>, order |-> o.id, shop |-> o.shop, at |-> o.stored,
    state |-> IF k = 1 THEN "shipped" ELSE "delivered",
    source |-> IF k = 1 THEN "manual" ELSE "etsy_sync",
    shipped |-> IF k = 1 THEN o.stored + o.id ELSE Null] : o \in r, k \in 1..2}
Wares == {[id |-> i, shop |-> IF i = 3 THEN Null ELSE i, listing |-> IF i = 1 THEN 1 ELSE Null,
           created |-> i] : i \in 1..3}

ASSUME SyncedOnOneCard == SyncedCountsOnce(Plain, Etsys \ {Null}, Fulfs)
ASSUME RowsAreCounted == ShownIsCounted(AnyRow)
ASSUME SuppliersApart ==
  \A r \in Held : SuppliersKeepApart(r, {"u", "v"}, {1}, Asks, {Null, 5}, Down)
ASSUME OrderPagesTurn ==
  \A r \in Timed \cup Twins, v \in Viewers, q \in Asks, n \in 1..2, t \in Tied :
    OrderPagesPartition(r, v, q, n, t)
ASSUME DashboardsAgree ==
  \A r \in Held, v \in Viewers, q \in Asks, t \in {Null, 1} : DashboardAgrees(r, v, q, t, 8, Down)
ASSUME WindowsAgree == \A r \in Timed, q \in Asks, g \in Ranges : WindowsNest(r, q, g, 8)
ASSUME ComparisonAgrees == \A r \in Timed : ComparisonAddsUp(r, {1, 2}, 8)
ASSUME EventsAgree == \A r \in Held, q \in Asks : FulfillmentAgrees(r, Events(r), Wares, q)
ASSUME AnalyticsStayOpen == \A r \in Held : OnlyOpenShops(r, Events(r), Wares, {1, 2}, 8)
ASSUME AnalyticsKeysTell == \A r \in Timed : AnalyticsKeysSuffice(r, Asks, Days2)
=============================================================================
