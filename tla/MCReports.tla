------------------------------- MODULE MCReports -------------------------------
(* Reports and Rates over small books: two shops, two days, up to three     *)
(* entries of every kind, and everything else that a book may hold.         *)
EXTENDS Reports

Kinds  == {"sale", "listing", "vat", "ad", "refund", "payout", "new"}
Shops  == {1, 2}
Times  == 0..3
Seed   == [t \in {"sale", "listing", "vat", "ad"} |->
             CASE t = "sale" -> "sales" [] t = "ad" -> "marketing" [] OTHER -> "fees"]
SmallSeed == [t \in {"sale"} |-> "other"]

Registries ==
  UNION {[S -> {Known("sales"), Known("fees"), Unknown}] : S \in SUBSET {"sale", "listing", "new"}}

Full == [t \in Kinds |->
  CASE t = "refund" -> Known("refunds") [] t = "payout" -> Known("adjustments")
    [] t = "new" -> Unknown [] OTHER -> Known(Seed[t])]

\* A breakdown's name of a type; "vat" has none of its own.
FeeName == [t \in Kinds |-> IF t = "listing" THEN "listing_renewal" ELSE "other"]

Entry == [type : Kinds, amount : {-3, 2}, at : {1, 2}]
Numbered(f) ==
  {[id |-> i, shop |-> f[i].at, type |-> f[i].type, amount |-> f[i].amount,
    balance |-> i, currency |-> IF i = 1 THEN "USD" ELSE Null, at |-> f[i].at] : i \in DOMAIN f}

Items == {[id |-> 1, listing |-> "a", quantity |-> 2], [id |-> 2, listing |-> "b", quantity |-> 1],
          [id |-> 3, listing |-> "a", quantity |-> 1]}
Sales == {[id |-> 1, shop |-> 1, at |-> 1, items |-> Items, discount |-> 1],
          [id |-> 2, shop |-> 2, at |-> 2, discount |-> 0,
           items |-> {[id |-> 4, listing |-> "b", quantity |-> 2],
                      [id |-> 5, listing |-> "c", quantity |-> 1]}],
          [id |-> 3, shop |-> 2, at |-> 3, items |-> Null, discount |-> 2]}
Goods == {[id |-> 1, listing |-> "a", cost |-> 5], [id |-> 2, listing |-> "b", cost |-> 7],
          [id |-> 3, listing |-> "c", cost |-> 0]}
Bills == {[id |-> 1, shop |-> 1, status |-> "approved", at |-> 1, amount |-> 4],
          [id |-> 2, shop |-> 2, status |-> "approved", at |-> 2, amount |-> Null],
          [id |-> 3, shop |-> 2, status |-> "pending", at |-> 2, amount |-> 9],
          [id |-> 4, shop |-> 1, status |-> "approved", at |-> Null, amount |-> 9]}
Paid  == {[id |-> i, shop |-> (i % 2) + 1, net |-> i, adjusted |-> IF i = 2 THEN 0 ELSE Null,
           at |-> IF i = 4 THEN Null ELSE i % 2, fees |-> 1] : i \in 1..4}

Book(entries, registry) ==
  [entries |-> entries, registry |-> registry, states |-> [s \in {} |-> 0],
   payments |-> Paid, orders |-> Sales, products |-> Goods, invoices |-> Bills]

Period(f, t) == [from |-> f, to |-> t]
Scopes  == {[shop |-> Null, shops |-> {}], [shop |-> 1, shops |-> {}],
            [shop |-> Null, shops |-> Shops]}
Queries == {[shop |-> s.shop, shops |-> s.shops, from |-> f, to |-> t] :
              s \in Scopes, f \in {0, 2}, t \in {1, 3}}

\* Any moments of two days, and books of one entry whose other rows are between them.
EdgeQueries == {[shop |-> s.shop, shops |-> s.shops, from |-> f, to |-> t] :
                  s \in Scopes, f \in 0..2, t \in 2..5}
Midst == {[Book(Numbered(<<e>>), Full) EXCEPT !.orders = {o \in @ : o.at # 1},
                                              !.invoices = {i \in @ : i.at # 1}] : e \in Entry}

\* The pages with an even number and the others each order the rows of a moment in
\* one of two ways.
Ups  == [i \in 1..4 |-> i]
Ties == {[k \in 0..8 |-> IF k % 2 = 0 THEN a ELSE z] : a, z \in {Ups, [i \in 1..4 |-> -i]}}

Pairs == {Book(Numbered(f), Full) : f \in [1..2 -> Entry]}
Triple == [1..3 -> [type : {"sale", "new"}, amount : {2}, at : {1, 2}]]
Triples == {Book(Numbered(f), Full) : f \in Triple}
Unlisted == {r \in Registries : Consistent(r) /\ "listing" \notin DOMAIN r}
Rich  == {Book(Numbered(f), r) : f \in Triple, r \in Unlisted}
Singles == {Book(Numbered(<<e>>), Full) : e \in Entry}
Empty == Book({}, Full)

ASSUME TypesKeepTheirCategory == RegistryKept(Registries, {Seed, SmallSeed}, {"sale", "new"})
ASSUME MoneyIsStored == NearestCent(-12..12, {0, 1, 3, 7, 8, 100, 1000})
ASSUME ProfitIsWhole == \A b \in Pairs \cup Rich, q \in Queries : NothingUncounted(b, q)
ASSUME BlocksAgree == \A b \in Pairs, q \in Queries : SummaryAgrees(b, q)
ASSUME FeesAgree == \A b \in Pairs, q \in Queries : FeesAddUp(b, q, FeeName)
ASSUME BucketsAgree == \A b \in Pairs, q \in Queries : TimelinesAgree(b, q, {1, DayLength, Month})
ASSUME PagesTurn == \A b \in Triples, q \in Queries : 
  \A n \in 1..2, t \in Ties : PagesPartition(b, q, n, t)
ASSUME CostsAgree == \A q \in Queries : CostsOfItems(Empty, q)
ASSUME KeysSuffice == \A b \in Singles \cup Midst : KeysTellApart(b, EdgeQueries)
ASSUME ShopsAreOpen == \A b \in Pairs : OpenShopsOnly(b, Shops, Ups)
ASSUME ShopsAgree == \A b \in Pairs : ShopsAddUp(b, Shops, Period(0, 2))

Currencies == {"USD", "EUR"}
RatePairs  == Currencies \X Currencies
Services   == [latest : {Null, 3}, daily : {Null, 2}]
Tables     == {[cache |-> [k \in {} |-> 0], rows |-> R] :
                 R \in SUBSET {[pair |-> <<"USD", "EUR">>, rate |-> 1, at |-> 1],
                               [pair |-> <<"USD", "EUR">>, rate |-> 4, at |-> 4]}}
Days       == {Null, 0, 1}
Stores     == Tables \cup Lookups(Tables, RatePairs, Days, {2, 5}, Services, Currencies)

ASSUME CentsAreExact == ConversionIsExact(-9..9, {1, 2, 3, 5, 10})
ASSUME RatesAreTimely ==
  \A S \in {Currencies, {"USD"}} : RatesOfTheirDay(Stores, RatePairs, Days, {2, 3, 6}, Services, S)
=============================================================================
