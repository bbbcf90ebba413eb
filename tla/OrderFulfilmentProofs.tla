------------------------ MODULE OrderFulfilmentProofs ------------------------
(***************************************************************************)
(* Proofs about an order: what was computed from the rows as they are      *)
(* keeps lines, shelf and coins together with the fulfillments.            *)
(***************************************************************************)
EXTENDS OrderFulfilment, SumsProofs, SequenceTheorems

-----------------------------------------------------------------------------
(* Sums over the fulfillments of an order, of what h says of each.         *)
Tally(fs, h) == SumOver([i \in DOMAIN fs |-> h[fs[i]]], DOMAIN fs)

LEMMA TallyIsNat ==
  ASSUME NEW fs \in Seq(Fulfillment), NEW h \in [Fulfillment -> Nat]
  PROVE  Tally(fs, h) \in Nat
<1>1. DOMAIN fs = 1..Len(fs) /\ Len(fs) \in Nat /\ \A i \in DOMAIN fs : fs[i] \in Fulfillment
  BY LenProperties, ElementOfSeq
<1>2. IsFiniteSet(DOMAIN fs)
  BY <1>1, FS_Interval
<1>3. [i \in DOMAIN fs |-> h[fs[i]]] \in [DOMAIN fs -> Nat]
  BY <1>1
<1> QED BY <1>2, <1>3, SumIsNat DEF Tally

LEMMA TallyOfAppend ==
  ASSUME NEW fs \in Seq(Fulfillment), NEW h \in [Fulfillment -> Nat], NEW x \in Fulfillment
  PROVE  /\ Append(fs, x) \in Seq(Fulfillment) /\ Len(Append(fs, x)) = Len(fs) + 1
         /\ Tally(Append(fs, x), h) = Tally(fs, h) + h[x]
<1> DEFINE n == Len(fs)  gs == Append(fs, x)
           f == [i \in DOMAIN fs |-> h[fs[i]]]
           g == [i \in DOMAIN gs |-> h[gs[i]]]
<1>1. DOMAIN fs = 1..n /\ n \in Nat /\ \A i \in 1..n : fs[i] \in Fulfillment
  BY LenProperties, ElementOfSeq
<1>2. gs \in Seq(Fulfillment) /\ Len(gs) = n + 1 /\ gs[n + 1] = x /\ \A i \in 1..n : gs[i] = fs[i]
  BY AppendProperties
<1>3. DOMAIN gs = 1..(n + 1) /\ \A i \in 1..(n + 1) : gs[i] \in Fulfillment
  BY <1>1, <1>2, LenProperties, ElementOfSeq
<1> HIDE DEF gs
<1>4. f \in [1..n -> Nat] /\ g \in [1..(n + 1) -> Nat] /\ (\A i \in 1..n : g[i] = f[i]) /\ g[n + 1] = h[x]
  BY <1>1, <1>2, <1>3
<1>5. Tally(fs, h) = SumOver(f, 1..n) /\ Tally(gs, h) = SumOver(g, 1..(n + 1))
  BY <1>1, <1>3 DEF Tally
<1> HIDE DEF f, g
<1>6. SumOver(g, 1..(n + 1)) = SumOver(f, 1..n) + g[n + 1]
  BY <1>1, <1>4, SumAppended
<1> QED BY <1>2, <1>4, <1>5, <1>6 DEF gs

LEMMA TallyOfChange ==
  ASSUME NEW fs \in Seq(Fulfillment), NEW h \in [Fulfillment -> Nat],
         NEW n \in 1..Len(fs), NEW x \in Fulfillment
  PROVE  /\ [fs EXCEPT ![n] = x] \in Seq(Fulfillment) /\ Len([fs EXCEPT ![n] = x]) = Len(fs)
         /\ fs[n] \in Fulfillment
         /\ Tally([fs EXCEPT ![n] = x], h) = Tally(fs, h) - h[fs[n]] + h[x]
<1> DEFINE S == DOMAIN fs  gs == [fs EXCEPT ![n] = x]
           f == [i \in S |-> h[fs[i]]]
           g == [i \in S |-> h[gs[i]]]
<1>1. S = 1..Len(fs) /\ Len(fs) \in Nat /\ \A i \in S : fs[i] \in Fulfillment
  BY LenProperties, ElementOfSeq
<1>2. gs \in Seq(Fulfillment) /\ Len(gs) = Len(fs) /\ DOMAIN gs = S
      /\ gs[n] = x /\ \A i \in S \ {n} : gs[i] = fs[i]
  BY <1>1, ExceptSeq
<1>3. IsFiniteSet(S) /\ n \in S
  BY <1>1, FS_Interval
<1> HIDE DEF gs, S
<1>a. f[n] = h[fs[n]] /\ g[n] = h[x]
  BY <1>2, <1>3
<1>4. f \in [S -> Nat] /\ g \in [S -> Nat] /\ \A i \in S \ {n} : f[i] = g[i]
  BY <1>1, <1>2, <1>3
<1>5. Tally(fs, h) = SumOver(f, S) /\ Tally(gs, h) = SumOver(g, S)
  <2>1. Tally(fs, h) = SumOver(f, S)
    BY DEF Tally, S
  <2>2. Tally(gs, h) = SumOver(g, S)
    BY <1>2 DEF Tally
  <2> QED BY <2>1, <2>2
<1> HIDE DEF f, g
<1>6. SumOver(g, S) = SumOver(f, S) - f[n] + g[n]
  BY ONLY <1>3, <1>4, SumOneChanged
<1>7. fs[n] \in Fulfillment
  BY <1>1, <1>3
<1> QED BY <1>2, <1>a, <1>5, <1>6, <1>7 DEF gs

(* Fulfillments that change, but not in what is summed.                    *)
LEMMA TallySame ==
  ASSUME NEW fs, NEW gs, NEW h, DOMAIN gs = DOMAIN fs, \A i \in DOMAIN fs : h[gs[i]] = h[fs[i]]
  PROVE  Tally(gs, h) = Tally(fs, h)
BY DEF Tally

-----------------------------------------------------------------------------
(* Fulfillments and their lines.                                           *)
LEMMA PlaceTypes == "stock" \in Places /\ "none" \in Places /\ \A p \in Places : p \in {"stock", "none"}
BY DEF Places

LEMMA FulfillmentTypes ==
  ASSUME NEW x \in Fulfillment
  PROVE  /\ x.status \in FulfillmentStatus /\ x.units \in [Places -> [Lines -> Nat]]
         /\ \A p \in Places, l \in Lines : x.units[p][l] \in Nat
         /\ \A l \in Lines : /\ x.units["stock"][l] \in Nat /\ x.units["none"][l] \in Nat
                             /\ UnitsIn(x, l) \in Nat
BY PlaceTypes DEF Fulfillment, UnitsIn

LEMMA EmptyTypes ==
  ASSUME NEW s \in FulfillmentStatus
  PROVE  /\ Empty(s) \in Fulfillment /\ Empty(s).status = s /\ Empty(s).units = NoUnits
         /\ \A l \in Lines : Empty(s).units["stock"][l] = 0 /\ UnitsIn(Empty(s), l) = 0
<1>1. NoUnits \in [Places -> [Lines -> Nat]]
  BY DEF NoUnits
<1>2. \A l \in Lines : NoUnits["stock"][l] = 0 /\ NoUnits["none"][l] = 0
  BY PlaceTypes DEF NoUnits
<1>3. Empty(s).status = s /\ Empty(s).units = NoUnits /\ Empty(s) = [status |-> s, units |-> NoUnits]
  BY DEF Empty
<1> QED BY <1>1, <1>2, <1>3 DEF Fulfillment, UnitsIn

(* One line of a fulfillment changes.                                      *)
LEMMA CellTypes ==
  ASSUME NEW x \in Fulfillment, NEW p \in Places, NEW l \in Lines, NEW q \in Nat
  PROVE  LET y == [x EXCEPT !.units[p][l] = q] IN
         /\ y \in Fulfillment /\ y.status = x.status
         /\ \A k \in Lines :
              /\ y.units["stock"][k] = IF k = l /\ p = "stock" THEN q ELSE x.units["stock"][k]
              /\ UnitsIn(y, k) = IF k = l THEN UnitsIn(x, k) - x.units[p][k] + q ELSE UnitsIn(x, k)
<1> DEFINE u == [x.units EXCEPT ![p][l] = q]
           y == [x EXCEPT !.units[p][l] = q]
<1>1. x.units \in [Places -> [Lines -> Nat]] /\ x.units[p] \in [Lines -> Nat]
  BY FulfillmentTypes
<1>2. u = [x.units EXCEPT ![p] = [x.units[p] EXCEPT ![l] = q]]
  BY <1>1
<1>3. u \in [Places -> [Lines -> Nat]]
  BY <1>1, <1>2
<1>4. \A r \in Places, k \in Lines : u[r][k] = IF r = p /\ k = l THEN q ELSE x.units[r][k]
  BY <1>1, <1>2
<1>5. y = [x EXCEPT !.units = u]
  OBVIOUS
<1> HIDE DEF u
<1>6. y \in Fulfillment /\ y.status = x.status /\ y.units = u
  BY <1>3, <1>5 DEF Fulfillment
<1> HIDE DEF y
<1>7. \A k \in Lines : y.units["stock"][k] = IF k = l /\ p = "stock" THEN q ELSE x.units["stock"][k]
  BY <1>4, <1>6, PlaceTypes
<1>8. \A k \in Lines : y.units["none"][k] = IF k = l /\ p = "none" THEN q ELSE x.units["none"][k]
  BY <1>4, <1>6, PlaceTypes
<1>9. ASSUME NEW k \in Lines
      PROVE  UnitsIn(y, k) = IF k = l THEN UnitsIn(x, k) - x.units[p][k] + q ELSE UnitsIn(x, k)
  <2>1. x.units["stock"][k] \in Nat /\ x.units["none"][k] \in Nat
    BY FulfillmentTypes
  <2>2. CASE p = "stock"
    BY <1>7, <1>8, <2>1, <2>2 DEF UnitsIn
  <2>3. CASE p = "none"
    BY <1>7, <1>8, <2>1, <2>3 DEF UnitsIn
  <2> QED BY <2>2, <2>3, PlaceTypes
<1> QED BY <1>6, <1>7, <1>9 DEF y

LEMMA HoldingTypes ==
  ASSUME NEW s \in FulfillmentStatus, NEW p \in Places, NEW l \in Lines, NEW q \in Nat
  PROVE  /\ Holding(s, p, l, q) \in Fulfillment /\ Holding(s, p, l, q).status = s
         /\ \A k \in Lines :
              /\ Holding(s, p, l, q).units["stock"][k] = IF k = l /\ p = "stock" THEN q ELSE 0
              /\ UnitsIn(Holding(s, p, l, q), k) = IF k = l THEN q ELSE 0
<1> DEFINE x == Empty(s)
<1>1. x \in Fulfillment /\ x.status = s /\ x.units = NoUnits
      /\ \A k \in Lines : x.units["stock"][k] = 0 /\ UnitsIn(x, k) = 0
  BY EmptyTypes
<1>2. \A r \in Places, k \in Lines : NoUnits[r][k] = 0
  BY DEF NoUnits
<1>3. Holding(s, p, l, q) = [x EXCEPT !.units[p][l] = q]
  BY DEF Holding
<1> HIDE DEF x
<1> QED BY <1>1, <1>2, <1>3, CellTypes

(* The units of a line that a fulfillment counts for.                      *)
UnitsOf(S, l) == [x \in Fulfillment |-> IF x.status \in S THEN UnitsIn(x, l) ELSE 0]
StockOf(l) ==
  [x \in Fulfillment |->
     IF x.status \in {"fulfilled", "refunded", "replaced"} THEN x.units["stock"][l] ELSE 0]

LEMMA CountTypes ==
  ASSUME NEW l \in Lines
  PROVE  StockOf(l) \in [Fulfillment -> Nat] /\ \A S : UnitsOf(S, l) \in [Fulfillment -> Nat]
BY FulfillmentTypes DEF StockOf, UnitsOf

LEMMA HeldIsTally ==
  ASSUME NEW fs \in Seq(Fulfillment), NEW l \in Lines
  PROVE  /\ Shipped(fs, l) = Tally(fs, StockOf(l)) /\ Shipped(fs, l) \in Nat
         /\ \A S : Held(fs, S, l) = Tally(fs, UnitsOf(S, l)) /\ Held(fs, S, l) \in Nat
<1>1. \A i \in DOMAIN fs : fs[i] \in Fulfillment
  BY LenProperties, ElementOfSeq
<1>2. Shipped(fs, l) = Tally(fs, StockOf(l))
  BY <1>1 DEF Shipped, Tally, StockOf
<1>3. ASSUME NEW S PROVE Held(fs, S, l) = Tally(fs, UnitsOf(S, l))
  BY <1>1 DEF Held, Count, Tally, UnitsOf
<1> QED BY <1>2, <1>3, CountTypes, TallyIsNat

LEMMA AppendMoves ==
  ASSUME NEW fs \in Seq(Fulfillment), NEW x \in Fulfillment, NEW l \in Lines
  PROVE  /\ Append(fs, x) \in Seq(Fulfillment) /\ Len(Append(fs, x)) = Len(fs) + 1
         /\ Shipped(Append(fs, x), l) = Shipped(fs, l) + StockOf(l)[x]
         /\ \A S : Held(Append(fs, x), S, l) = Held(fs, S, l) + UnitsOf(S, l)[x]
<1>1. Append(fs, x) \in Seq(Fulfillment) /\ Len(Append(fs, x)) = Len(fs) + 1
  BY AppendProperties
<1>2. Tally(Append(fs, x), StockOf(l)) = Tally(fs, StockOf(l)) + StockOf(l)[x]
  BY CountTypes, TallyOfAppend
<1>3. ASSUME NEW S
      PROVE  Tally(Append(fs, x), UnitsOf(S, l)) = Tally(fs, UnitsOf(S, l)) + UnitsOf(S, l)[x]
  BY CountTypes, TallyOfAppend
<1> QED BY <1>1, <1>2, <1>3, HeldIsTally

LEMMA ChangeMoves ==
  ASSUME NEW fs \in Seq(Fulfillment), NEW n \in 1..Len(fs), NEW x \in Fulfillment, NEW l \in Lines
  PROVE  LET gs == [fs EXCEPT ![n] = x] IN
         /\ gs \in Seq(Fulfillment) /\ Len(gs) = Len(fs) /\ fs[n] \in Fulfillment
         /\ Shipped(gs, l) = Shipped(fs, l) - StockOf(l)[fs[n]] + StockOf(l)[x]
         /\ \A S : Held(gs, S, l) = Held(fs, S, l) - UnitsOf(S, l)[fs[n]] + UnitsOf(S, l)[x]
<1> DEFINE gs == [fs EXCEPT ![n] = x]
<1>1. gs \in Seq(Fulfillment) /\ Len(gs) = Len(fs)
  BY ExceptSeq
<1>2. fs[n] \in Fulfillment
  BY ElementOfSeq
<1>3. Tally(gs, StockOf(l)) = Tally(fs, StockOf(l)) - StockOf(l)[fs[n]] + StockOf(l)[x]
  BY CountTypes, TallyOfChange
<1>4. ASSUME NEW S
      PROVE  Tally(gs, UnitsOf(S, l)) = Tally(fs, UnitsOf(S, l)) - UnitsOf(S, l)[fs[n]] + UnitsOf(S, l)[x]
  BY CountTypes, TallyOfChange
<1> HIDE DEF gs
<1> QED BY <1>1, <1>2, <1>3, <1>4, HeldIsTally DEF gs

(* One cell of a fulfillment changes: units leave it, or it gets more.     *)
CellSet(fs, n, p, l, q) == [fs EXCEPT ![n].units[p][l] = q]
CellLoss(fs, n, p, l, q, k) == IF k = l THEN fs[n].units[p][l] - q ELSE 0

LEMMA CellMoves ==
  ASSUME NEW fs \in Seq(Fulfillment), NEW n \in 1..Len(fs), NEW p \in Places, NEW l \in Lines,
         NEW q \in Nat, NEW k \in Lines
  PROVE  /\ CellSet(fs, n, p, l, q) \in Seq(Fulfillment) /\ Len(CellSet(fs, n, p, l, q)) = Len(fs)
         /\ Shipped(CellSet(fs, n, p, l, q), k) = Shipped(fs, k)
              - (IF p = "stock" /\ fs[n].status \in {"fulfilled", "refunded", "replaced"}
                 THEN CellLoss(fs, n, p, l, q, k) ELSE 0)
         /\ \A S : Held(CellSet(fs, n, p, l, q), S, k) = Held(fs, S, k)
              - (IF fs[n].status \in S THEN CellLoss(fs, n, p, l, q, k) ELSE 0)
<1> DEFINE x == fs[n]  y == [x EXCEPT !.units[p][l] = q]
           gs == [fs EXCEPT ![n] = y]
           less == IF k = l THEN x.units[p][l] - q ELSE 0
<1>1. x \in Fulfillment /\ fs \in [1..Len(fs) -> Fulfillment]
  BY ElementOfSeq, LenProperties
<1>2. CellSet(fs, n, p, l, q) = gs /\ CellLoss(fs, n, p, l, q, k) = less
  BY <1>1 DEF CellSet, CellLoss
<1>3. /\ y \in Fulfillment /\ y.status = x.status
      /\ y.units["stock"][k] = IF k = l /\ p = "stock" THEN q ELSE x.units["stock"][k]
      /\ UnitsIn(y, k) = IF k = l THEN UnitsIn(x, k) - x.units[p][k] + q ELSE UnitsIn(x, k)
  <2> HIDE DEF x
  <2> QED BY ONLY <1>1, CellTypes, p \in Places, l \in Lines, q \in Nat, k \in Lines
<1>4. /\ x.units[p][l] \in Nat /\ x.units["stock"][k] \in Nat /\ UnitsIn(x, k) \in Nat
  BY <1>1, FulfillmentTypes
<1>5. StockOf(k) \in [Fulfillment -> Nat] /\ Shipped(fs, k) \in Nat /\ \A S : Held(fs, S, k) \in Nat
  BY CountTypes, HeldIsTally
<1> HIDE DEF x, y
<1>6. /\ gs \in Seq(Fulfillment) /\ Len(gs) = Len(fs)
      /\ Shipped(gs, k) = Shipped(fs, k) - StockOf(k)[x] + StockOf(k)[y]
      /\ \A S : Held(gs, S, k) = Held(fs, S, k) - UnitsOf(S, k)[x] + UnitsOf(S, k)[y]
  <2>1. gs = [fs EXCEPT ![n] = y] /\ x = fs[n]
    BY DEF x
  <2> HIDE DEF gs
  <2> QED BY <1>3, <2>1, ChangeMoves, Zenon
<1> HIDE DEF gs
<1>7. Shipped(gs, k) = Shipped(fs, k)
        - (IF p = "stock" /\ x.status \in {"fulfilled", "refunded", "replaced"} THEN less ELSE 0)
  <2>1. StockOf(k)[x] = (IF x.status \in {"fulfilled", "refunded", "replaced"} THEN x.units["stock"][k] ELSE 0)
        /\ StockOf(k)[y] = (IF x.status \in {"fulfilled", "refunded", "replaced"} THEN y.units["stock"][k] ELSE 0)
    BY <1>1, <1>3 DEF StockOf, x
  <2>2. CASE x.status \in {"fulfilled", "refunded", "replaced"}
    <3>1. Shipped(gs, k) = Shipped(fs, k) - x.units["stock"][k] + y.units["stock"][k]
      BY <1>6, <2>1, <2>2
    <3>2. CASE k = l /\ p = "stock"
      BY <1>3, <1>4, <1>5, <2>2, <3>1, <3>2
    <3>3. CASE ~(k = l /\ p = "stock")
      BY <1>3, <1>4, <1>5, <2>2, <3>1, <3>3
    <3> QED BY <3>2, <3>3
  <2>3. CASE x.status \notin {"fulfilled", "refunded", "replaced"}
    BY <1>5, <1>6, <2>1, <2>3
  <2> QED BY <2>2, <2>3
<1>8. ASSUME NEW S PROVE Held(gs, S, k) = Held(fs, S, k) - (IF x.status \in S THEN less ELSE 0)
  <2>1. UnitsOf(S, k)[x] = (IF x.status \in S THEN UnitsIn(x, k) ELSE 0)
        /\ UnitsOf(S, k)[y] = (IF x.status \in S THEN UnitsIn(y, k) ELSE 0)
    BY <1>1, <1>3 DEF UnitsOf, x
  <2>a. Held(gs, S, k) = Held(fs, S, k) - UnitsOf(S, k)[x] + UnitsOf(S, k)[y] /\ Held(fs, S, k) \in Nat
    BY <1>5, <1>6
  <2>2. CASE x.status \in S
    <3>1. Held(gs, S, k) = Held(fs, S, k) - UnitsIn(x, k) + UnitsIn(y, k)
      BY <2>1, <2>2, <2>a
    <3>2. CASE k = l
      BY <1>3, <1>4, <2>a, <2>2, <3>1, <3>2
    <3>3. CASE k # l
      BY <1>3, <1>4, <2>a, <2>2, <3>1, <3>3
    <3> QED BY <3>2, <3>3
  <2>3. CASE x.status \notin S
    BY <2>a, <2>1, <2>3
  <2> QED BY <2>2, <2>3
<1> QED BY <1>2, <1>6, <1>7, <1>8 DEF x

(* Fulfillments left without lines are deleted: nobody counts less.        *)
Cleaned(all) ==
  [i \in DOMAIN all |->
     IF all[i].status \in {"fulfilled", "waiting"} /\ all[i].units = NoUnits
     THEN Empty("deleted") ELSE all[i]]

LEMMA CleanedMoves ==
  ASSUME NEW fs \in Seq(Fulfillment)
  PROVE  /\ Cleaned(fs) \in Seq(Fulfillment) /\ Len(Cleaned(fs)) = Len(fs)
         /\ \A l \in Lines : /\ Shipped(Cleaned(fs), l) = Shipped(fs, l)
                             /\ \A S : Held(Cleaned(fs), S, l) = Held(fs, S, l)
<1> DEFINE n == Len(fs)  gs == Cleaned(fs)
<1>1. DOMAIN fs = 1..n /\ n \in Nat /\ \A i \in 1..n : fs[i] \in Fulfillment
  BY LenProperties, ElementOfSeq
<1>2. Empty("deleted") \in Fulfillment /\ Empty("deleted").units = NoUnits
      /\ Empty("deleted").status = "deleted"
      /\ \A l \in Lines : Empty("deleted").units["stock"][l] = 0 /\ UnitsIn(Empty("deleted"), l) = 0
  BY EmptyTypes DEF FulfillmentStatus
<1>3. gs \in [1..n -> Fulfillment]
  BY <1>1, <1>2 DEF Cleaned
<1>4. gs \in Seq(Fulfillment)
  BY <1>1, <1>3, SeqDef
<1>5. Len(gs) = n /\ DOMAIN gs = DOMAIN fs
  BY <1>1, <1>3, <1>4, LenProperties
<1>6. \A x \in Fulfillment, l \in Lines : x.units = NoUnits => x.units["stock"][l] = 0 /\ UnitsIn(x, l) = 0
  BY <1>2 DEF UnitsIn
<1>7. \A i \in 1..n : \/ gs[i] = fs[i]
                      \/ gs[i] = Empty("deleted") /\ fs[i].units = NoUnits
  BY <1>1 DEF Cleaned
<1> HIDE DEF gs
<1>8. ASSUME NEW l \in Lines
      PROVE  Shipped(gs, l) = Shipped(fs, l) /\ \A S : Held(gs, S, l) = Held(fs, S, l)
  <2>1. \A i \in DOMAIN fs : StockOf(l)[gs[i]] = StockOf(l)[fs[i]]
    BY <1>1, <1>2, <1>6, <1>7 DEF StockOf
  <2>2. \A S : \A i \in DOMAIN fs : UnitsOf(S, l)[gs[i]] = UnitsOf(S, l)[fs[i]]
    BY <1>1, <1>2, <1>6, <1>7 DEF UnitsOf
  <2>3. Tally(gs, StockOf(l)) = Tally(fs, StockOf(l))
    BY <1>5, <2>1, TallySame
  <2>4. \A S : Tally(gs, UnitsOf(S, l)) = Tally(fs, UnitsOf(S, l))
    BY <1>5, <2>2, TallySame
  <2> QED BY <1>4, <2>3, <2>4, HeldIsTally
<1> QED BY <1>4, <1>5, <1>8 DEF gs

(***************************************************************************)
(* What a move takes from the row it has read, and what it adds.           *)
(***************************************************************************)
Taken(j) ==
  IF RowExists(j) THEN CellSet(fulfillments, j.from, j.place, j.line, j.copy - j.amount)
                  ELSE fulfillments

LEMMA AddedAtTheEnd ==
  ASSUME NEW fs \in Seq(Fulfillment), NEW x \in Fulfillment, NEW y \in Fulfillment
  PROVE  /\ fs \o <<x>> = Append(fs, x) /\ fs \o <<>> = fs
         /\ fs \o <<x, y>> = Append(Append(fs, x), y)
<1>1. fs \o <<x>> = Append(fs, x) /\ fs \o <<>> = fs
  BY AppendIsConcat, ConcatEmptySeq
<1>2. <<x>> \in Seq(Fulfillment) /\ <<y>> \in Seq(Fulfillment) /\ <<x>> \o <<y>> = <<x, y>>
  <2>1. <<x>> \in Seq(Fulfillment) /\ <<y>> \in Seq(Fulfillment)
    OBVIOUS
  <2>2. Append(<<x>>, y) = <<x>> \o <<y>>
    BY <2>1, AppendIsConcat
  <2>3. Append(<<x>>, y) = <<x, y>>
    <3> DEFINE a == Append(<<x>>, y)  b == <<x, y>>
    <3>1. a \in Seq(Fulfillment) /\ Len(a) = Len(<<x>>) + 1 /\ a[Len(<<x>>) + 1] = y
          /\ \A i \in 1..Len(<<x>>) : a[i] = <<x>>[i]
      BY <2>1, AppendProperties
    <3>2. Len(<<x>>) = 1 /\ <<x>>[1] = x
      OBVIOUS
    <3>3. b \in Seq(Fulfillment) /\ Len(b) = 2 /\ b[1] = x /\ b[2] = y
      OBVIOUS
    <3> HIDE DEF a, b
    <3>4. Len(a) = 2 /\ a[1] = x /\ a[2] = y
      BY ONLY <3>1, <3>2
    <3>5. a = b
      BY <3>1, <3>3, <3>4, SeqEqual
    <3> QED BY <3>5 DEF a, b
  <2> QED BY <2>1, <2>2, <2>3
<1>3. (fs \o <<x>>) \o <<y>> = fs \o (<<x>> \o <<y>>)
  BY <1>2, ConcatAssociative
<1>4. Append(fs, x) \in Seq(Fulfillment)
  BY AppendProperties
<1>5. Append(Append(fs, x), y) = Append(fs, x) \o <<y>>
  BY <1>4, AppendIsConcat
<1> QED BY <1>1, <1>2, <1>3, <1>5

LEMMA MovedIsCleaned ==
  ASSUME NEW j, NEW x \in Fulfillment, NEW y \in Fulfillment, Taken(j) \in Seq(Fulfillment)
  PROVE  /\ Moved(j, <<x>>) = Cleaned(Append(Taken(j), x))
         /\ Moved(j, <<x, y>>) = Cleaned(Append(Append(Taken(j), x), y))
<1>1. \A targets : Moved(j, targets) = Cleaned(Taken(j) \o targets)
  BY DEF Moved, Cleaned, Taken, CellSet
<1>2. /\ Taken(j) \o <<x>> = Append(Taken(j), x)
      /\ Taken(j) \o <<x, y>> = Append(Append(Taken(j), x), y)
  BY AddedAtTheEnd
<1> QED BY ONLY <1>1, <1>2

LEMMA MovedOne ==
  ASSUME NEW j, NEW x \in Fulfillment, Taken(j) \in Seq(Fulfillment)
  PROVE  LET gs == Moved(j, <<x>>) IN
         /\ gs \in Seq(Fulfillment) /\ Len(gs) = Len(Taken(j)) + 1
         /\ \A l \in Lines :
              /\ Shipped(gs, l) = Shipped(Taken(j), l) + StockOf(l)[x]
              /\ \A S : Held(gs, S, l) = Held(Taken(j), S, l) + UnitsOf(S, l)[x]
<1> DEFINE as == Append(Taken(j), x)
<1>1. Moved(j, <<x>>) = Cleaned(as)
  BY MovedIsCleaned
<1>2. as \in Seq(Fulfillment) /\ Len(as) = Len(Taken(j)) + 1
  BY AppendProperties
<1>3. \A l \in Lines :
        /\ Shipped(as, l) = Shipped(Taken(j), l) + StockOf(l)[x]
        /\ \A S : Held(as, S, l) = Held(Taken(j), S, l) + UnitsOf(S, l)[x]
  BY AppendMoves
<1> HIDE DEF as
<1>4. /\ Cleaned(as) \in Seq(Fulfillment) /\ Len(Cleaned(as)) = Len(as)
      /\ \A l \in Lines : /\ Shipped(Cleaned(as), l) = Shipped(as, l)
                         /\ \A S : Held(Cleaned(as), S, l) = Held(as, S, l)
  BY <1>2, CleanedMoves
<1> QED BY ONLY <1>1, <1>2, <1>3, <1>4

LEMMA MovedTwo ==
  ASSUME NEW j, NEW x \in Fulfillment, NEW y \in Fulfillment, Taken(j) \in Seq(Fulfillment)
  PROVE  LET gs == Moved(j, <<x, y>>) IN
         /\ gs \in Seq(Fulfillment) /\ Len(gs) = Len(Taken(j)) + 2
         /\ \A l \in Lines :
              /\ Shipped(gs, l) = Shipped(Taken(j), l) + StockOf(l)[x] + StockOf(l)[y]
              /\ \A S : Held(gs, S, l) = Held(Taken(j), S, l) + UnitsOf(S, l)[x] + UnitsOf(S, l)[y]
<1> DEFINE as == Append(Taken(j), x)  bs == Append(as, y)
<1>1. Moved(j, <<x, y>>) = Cleaned(bs)
  BY MovedIsCleaned
<1>2. as \in Seq(Fulfillment) /\ Len(as) = Len(Taken(j)) + 1
  BY AppendProperties
<1>3. \A l \in Lines :
        /\ Shipped(as, l) = Shipped(Taken(j), l) + StockOf(l)[x]
        /\ \A S : Held(as, S, l) = Held(Taken(j), S, l) + UnitsOf(S, l)[x]
  BY AppendMoves
<1>4. Len(Taken(j)) \in Nat
  BY LenProperties
<1> HIDE DEF as
<1>5. bs \in Seq(Fulfillment) /\ Len(bs) = Len(Taken(j)) + 2
  <2>1. bs \in Seq(Fulfillment) /\ Len(bs) = Len(as) + 1
    BY <1>2, AppendProperties
  <2> HIDE DEF bs
  <2> QED BY ONLY <1>2, <1>4, <2>1
<1>6. \A l \in Lines :
        /\ Shipped(bs, l) = Shipped(as, l) + StockOf(l)[y]
        /\ \A S : Held(bs, S, l) = Held(as, S, l) + UnitsOf(S, l)[y]
  BY <1>2, AppendMoves
<1> HIDE DEF bs
<1>7. /\ Cleaned(bs) \in Seq(Fulfillment) /\ Len(Cleaned(bs)) = Len(bs)
      /\ \A l \in Lines : /\ Shipped(Cleaned(bs), l) = Shipped(bs, l)
                         /\ \A S : Held(Cleaned(bs), S, l) = Held(bs, S, l)
  BY <1>5, CleanedMoves
<1> QED BY ONLY <1>1, <1>3, <1>5, <1>6, <1>7

LEMMA TakenTypes ==
  ASSUME TypeOK, NEW r \in Requests, step[r] = "read", job[r].kind \in Movers
  PROVE  Taken(job[r]) \in Seq(Fulfillment) /\ Len(Taken(job[r])) = Len(fulfillments)
<1> DEFINE j == job[r]
<1>1. /\ fulfillments \in Seq(Fulfillment) /\ j \in Job /\ j.from \in 0..Len(fulfillments)
      /\ Validated(j)
  BY DEF TypeOK
<1> HIDE DEF j
<1>2. /\ j.place \in Places /\ j.line \in Lines /\ j.line # "none" /\ j.copy \in Int /\ j.amount \in Nat
      /\ j.from # 0 => j.copy - j.amount \in Nat
  <2>1. j.kind \in Movers
    BY DEF j
  <2>2. j.line \in Lines /\ j.line # "none"
    BY <1>1, <2>1, OrderModel DEF Validated
  <2> QED BY <1>1, <2>2 DEF Validated, Job
<1>3. CASE RowExists(j)
  <2>1. j.from \in 1..Len(fulfillments)
    BY <1>1, <1>3, LenProperties DEF RowExists
  <2> DEFINE q == j.copy - j.amount  n == j.from  p == j.place  l == j.line
             gs == CellSet(fulfillments, n, p, l, q)
  <2>2. q \in Nat
    BY <1>2, <1>3 DEF RowExists
  <2>a. n \in 1..Len(fulfillments) /\ p \in Places /\ l \in Lines
    BY <1>2, <2>1
  <2> HIDE DEF q, n, p, l
  <2>3. gs \in Seq(Fulfillment) /\ Len(gs) = Len(fulfillments)
    BY <1>1, <2>a, <2>2, CellMoves
  <2>4. Taken(j) = gs
    BY <1>3 DEF Taken, q, n, p, l
  <2> HIDE DEF gs
  <2>5. Taken(j) \in Seq(Fulfillment) /\ Len(Taken(j)) = Len(fulfillments)
    BY <2>3, <2>4
  <2> QED BY <2>5 DEF j
<1>4. CASE ~RowExists(j)
  BY <1>1, <1>4 DEF Taken, j
<1> QED BY <1>3, <1>4

LEMMA TakenMoves ==
  ASSUME TypeOK, NEW r \in Requests, step[r] = "read", job[r].kind \in Movers, ~Stale(r),
         NEW k \in Lines
  PROVE  LET j == job[r]
             less == IF j.from # 0 /\ k = j.line THEN j.amount ELSE 0 IN
         /\ Shipped(Taken(j), k) = Shipped(fulfillments, k)
              - (IF j.place = "stock" /\ j.was \in {"fulfilled", "refunded", "replaced"} THEN less ELSE 0)
         /\ \A S : Held(Taken(j), S, k) = Held(fulfillments, S, k) - (IF j.was \in S THEN less ELSE 0)
<1> DEFINE j == job[r]
           less == IF j.from # 0 /\ k = j.line THEN j.amount ELSE 0
<1>1. /\ fulfillments \in Seq(Fulfillment) /\ j \in Job /\ j.from \in 0..Len(fulfillments)
      /\ Validated(j) /\ j.kind \in Movers
  BY DEF TypeOK
<1>2. /\ j.from # 0 /\ j.line # "none" => CellOf(j.from, j.place, j.line) = j.copy
      /\ j.from # 0 => fulfillments[j.from].status = j.was
  BY DEF Stale
<1>0. Shipped(fulfillments, k) \in Nat /\ \A S : Held(fulfillments, S, k) \in Nat
  BY <1>1, HeldIsTally
<1> HIDE DEF j
<1>3. /\ j.place \in Places /\ j.line \in Lines /\ j.line # "none" /\ j.copy \in Int /\ j.amount \in Nat
      /\ j.amount > 0
      /\ j.from # 0 => j.copy - j.amount \in Nat /\ j.copy > 0
  <2>2. j.line \in Lines /\ j.line # "none" /\ j.amount > 0
    BY <1>1, OrderModel DEF Validated
  <2> QED BY <1>1, <2>2 DEF Validated, Job
<1>4. CASE j.from # 0
  <2>1. j.from \in 1..Len(fulfillments) /\ RowExists(j)
    BY <1>1, <1>2, <1>3, <1>4, LenProperties DEF RowExists
  <2> DEFINE q == j.copy - j.amount  n == j.from  p == j.place  l == j.line
             gs == CellSet(fulfillments, n, p, l, q)
             left == CellLoss(fulfillments, n, p, l, q, k)
  <2>a. q \in Nat /\ n \in 1..Len(fulfillments) /\ p \in Places /\ l \in Lines
    BY <1>3, <1>4, <2>1
  <2> HIDE DEF q, n, p, l
  <2>2. /\ Shipped(gs, k) = Shipped(fulfillments, k)
             - (IF p = "stock" /\ fulfillments[n].status \in {"fulfilled", "refunded", "replaced"}
                THEN left ELSE 0)
        /\ \A S : Held(gs, S, k) = Held(fulfillments, S, k)
             - (IF fulfillments[n].status \in S THEN left ELSE 0)
    BY <1>1, <2>a, CellMoves
  <2>3. left = less
    BY <1>2, <1>3, <1>4 DEF CellOf, CellLoss, q, n, p, l
  <2>4. Taken(j) = gs
    BY <2>1 DEF Taken, q, n, p, l
  <2> HIDE DEF gs, left, less
  <2>5. /\ Shipped(Taken(j), k) = Shipped(fulfillments, k)
             - (IF j.place = "stock" /\ j.was \in {"fulfilled", "refunded", "replaced"} THEN less ELSE 0)
        /\ \A S : Held(Taken(j), S, k) = Held(fulfillments, S, k) - (IF j.was \in S THEN less ELSE 0)
    BY <1>2, <1>4, <2>2, <2>3, <2>4 DEF n, p
  <2> QED BY <2>5 DEF less, j
<1>5. CASE j.from = 0
  <2>1. Taken(j) = fulfillments /\ less = 0
    BY <1>5 DEF Taken, RowExists
  <2> HIDE DEF less
  <2>2. /\ Shipped(Taken(j), k) = Shipped(fulfillments, k)
             - (IF j.place = "stock" /\ j.was \in {"fulfilled", "refunded", "replaced"} THEN less ELSE 0)
        /\ \A S : Held(Taken(j), S, k) = Held(fulfillments, S, k) - (IF j.was \in S THEN less ELSE 0)
    BY <1>0, <2>1
  <2> QED BY <2>2 DEF less, j
<1> QED BY <1>4, <1>5

-----------------------------------------------------------------------------
(* The types of the rows, and of what the calls have read.                 *)
RowTypes ==
  /\ status \in OrderStatus /\ captured \in 0..Price
  /\ fulfilled \in [Lines -> Int] /\ \A l \in Lines : fulfilled[l] <= Quantity[l]
  /\ gone \in [Lines -> Int]
  /\ fulfillments \in Seq(Fulfillment)

Steps == {"idle", "read", "payable", "committed"}

CallTypes(s, j) ==
  /\ j.from \in 0..Len(fulfillments)
  /\ s = "read" => Validated(j)
  /\ s = "committed" =>
       \/ j.kind = "orderRefund"
       \/ j = [NoJob EXCEPT !.kind = j.kind, !.memory = j.memory] /\ j.memory \in OrderStatus

JobTypes ==
  /\ step \in [Requests -> Steps] /\ job \in [Requests -> Job]
  /\ \A r \in Requests : CallTypes(step[r], job[r])

LEMMA TypesInParts ==
  /\ TypeOK <=> RowTypes /\ JobTypes /\ task \in Expiry /\ astray \in BOOLEAN
  /\ TypeOK' <=> RowTypes' /\ JobTypes' /\ task' \in Expiry /\ astray' \in BOOLEAN
BY DEF TypeOK, RowTypes, JobTypes, CallTypes, Steps

LEMMA QuantityTypes ==
  /\ IsFiniteSet(Lines) /\ Price \in Nat /\ Ordered \in Nat
  /\ \A l \in Lines : Quantity[l] \in Nat /\ Quantity[l] > 0 /\ l # "none"
<1>1. IsFiniteSet(Lines) /\ Quantity \in [Lines -> Nat] /\ Shipping \in Nat
      /\ \A l \in Lines : Quantity[l] \in Nat /\ Quantity[l] > 0 /\ l # "none"
  BY OrderModel
<1>2. Ordered \in Nat
  BY <1>1, SumIsNat DEF Ordered
<1> QED BY <1>1, <1>2 DEF Price

LEMMA RestTypes ==
  ASSUME RowTypes
  PROVE  /\ \A l \in Lines : /\ Rest(l) \in Nat /\ Rest(l) <= Quantity[l] - fulfilled[l]
                             /\ Rest(l) <= Quantity[l] /\ fulfilled[l] \in Int
         /\ Remaining \in Nat
<1>1. \A l \in Lines : /\ Rest(l) \in Nat /\ Rest(l) <= Quantity[l] - fulfilled[l]
                       /\ Rest(l) <= Quantity[l] /\ fulfilled[l] \in Int
  BY QuantityTypes DEF RowTypes, Rest, Min2
<1>2. [l \in Lines |-> Rest(l)] \in [Lines -> Nat]
  BY <1>1
<1> QED BY <1>1, <1>2, QuantityTypes, SumIsNat DEF Remaining

LEMMA NoJobTypes ==
  /\ NoJob \in Job /\ NoJob.from = 0 /\ NoJob.line = "none" /\ NoJob.kind = "none"
  /\ NoJob.was = "none" /\ NoJob.memory = "none"
BY PlaceTypes DEF NoJob, Job

LEMMA StatusOfTypes ==
  ASSUME NEW fs, NEW done, NEW old \in OrderStatus
  PROVE  StatusOf(fs, done, old) \in OrderStatus
BY DEF StatusOf, OrderStatus, Open

(* One call goes on and the others stay where they are.                    *)
LEMMA OneCallGoesOn ==
  ASSUME JobTypes, NEW r \in Requests, NEW s \in Steps, NEW j \in Job,
         step' = [step EXCEPT ![r] = s], job' = [job EXCEPT ![r] = j],
         Len(fulfillments) \in Nat, Len(fulfillments') \in Nat, Len(fulfillments) <= Len(fulfillments'),
         CallTypes(s, j)'
  PROVE  JobTypes'
<1>1. step' \in [Requests -> Steps] /\ job' \in [Requests -> Job]
      /\ step'[r] = s /\ job'[r] = j
      /\ \A u \in Requests \ {r} : step'[u] = step[u] /\ job'[u] = job[u]
  BY DEF JobTypes
<1>2. ASSUME NEW u \in Requests \ {r} PROVE CallTypes(step[u], job[u])'
  <2>1. CallTypes(step[u], job[u]) /\ step'[u] = step[u] /\ job'[u] = job[u]
    BY <1>1 DEF JobTypes
  <2> QED BY <2>1 DEF CallTypes, Validated
<1>3. CallTypes(step[r], job[r])'
  BY <1>1 DEF CallTypes, Validated
<1> QED BY <1>1, <1>2, <1>3 DEF JobTypes

LEMMA FinishKeepsTypes ==
  ASSUME JobTypes, NEW r \in Requests, Finish(r), fulfillments \in Seq(Fulfillment),
         fulfillments' \in Seq(Fulfillment), Len(fulfillments) <= Len(fulfillments')
  PROVE  JobTypes'
<1>1. Len(fulfillments) \in Nat /\ Len(fulfillments') \in Nat
  BY LenProperties
<1>2. CallTypes("idle", NoJob)'
  BY <1>1, NoJobTypes DEF CallTypes
<1>3. "idle" \in Steps
  BY DEF Steps
<1> QED BY <1>1, <1>2, <1>3, NoJobTypes, OneCallGoesOn DEF Finish

LEMMA ThenUpdateKeepsTypes ==
  ASSUME JobTypes, NEW r \in Requests, NEW m \in OrderStatus, ThenUpdate(r, m),
         fulfillments \in Seq(Fulfillment), fulfillments' \in Seq(Fulfillment),
         Len(fulfillments) <= Len(fulfillments')
  PROVE  JobTypes'
<1>0. PICK j : j = [NoJob EXCEPT !.kind = job[r].kind, !.memory = m]
  OBVIOUS
<1>1. Len(fulfillments) \in Nat /\ Len(fulfillments') \in Nat
  BY LenProperties
<1>2. job[r].kind \in AllKinds \cup {"none"}
  BY DEF JobTypes, Job
<1>3. j.from = 0 /\ j.memory = m /\ j.kind = job[r].kind
  BY <1>0 DEF NoJob
<1>a. j \in Job
  BY <1>0, <1>2, NoJobTypes DEF Job
<1>4. j = [NoJob EXCEPT !.kind = j.kind, !.memory = j.memory]
  BY <1>0, <1>3
<1>5. CallTypes("committed", j)'
  BY <1>1, <1>3, <1>4 DEF CallTypes
<1>6. "committed" \in Steps
  BY DEF Steps
<1>7. step' = [step EXCEPT ![r] = "committed"] /\ job' = [job EXCEPT ![r] = j]
  BY <1>0 DEF ThenUpdate
<1> QED BY <1>1, <1>a, <1>5, <1>6, <1>7, OneCallGoesOn

(***************************************************************************)
(* Every step keeps the types.  First the calls that begin.                *)
(***************************************************************************)
LEMMA AskKeepsTypes ==
  ASSUME TypeOK, NEW r \in Requests, NEW j \in Job, Ask(r, j), Validated(j),
         j.from \in 0..Len(fulfillments)
  PROVE  TypeOK'
<1>1. RowTypes /\ JobTypes /\ task \in Expiry /\ astray \in BOOLEAN
  BY TypesInParts
<1>2. UNCHANGED <<status, captured, fulfilled, fulfillments, gone, astray, task>>
  BY DEF Ask, order
<1>3. RowTypes' /\ task' \in Expiry /\ astray' \in BOOLEAN
  BY <1>1, <1>2 DEF RowTypes
<1>4. Len(fulfillments) \in Nat /\ Len(fulfillments') = Len(fulfillments)
  BY <1>1, <1>2, LenProperties DEF RowTypes
<1>5. CallTypes("read", j)'
  BY <1>2 DEF CallTypes, Validated
<1>6. "read" \in Steps
  BY DEF Steps
<1>7. JobTypes'
  <2>1. step' = [step EXCEPT ![r] = "read"] /\ job' = [job EXCEPT ![r] = j]
    BY DEF Ask
  <2>2. Len(fulfillments') \in Nat /\ Len(fulfillments) <= Len(fulfillments')
    BY <1>4
  <2> QED BY <1>1, <1>4, <1>5, <1>6, <2>1, <2>2, OneCallGoesOn
<1> QED BY <1>3, <1>7, TypesInParts

Recalling(j, m) == [j EXCEPT !.memory = m]
ExtraSource(kind) == IF kind = "refundProducts" THEN {"returned"} ELSE {"refunded"}

LEMMA MoveJobIs ==
  ASSUME NEW kind, NEW n, NEW p, NEW l, NEW q, NEW refund, NEW m,
         NEW place, place = IF n = 0 THEN "none" ELSE p,
         NEW was, was = IF n = 0 THEN "none" ELSE fulfillments[n].status,
         NEW copy, copy = IF n = 0 THEN fulfilled[l] ELSE CellOf(n, p, l),
         NEW had, had = IF refund THEN captured ELSE 0
  PROVE  /\ MoveJob(kind, n, p, l, q, refund) =
              [kind |-> kind, from |-> n, place |-> place, line |-> l, amount |-> q,
               refund |-> refund, was |-> was, copy |-> copy, captured |-> had, memory |-> "none"]
         /\ Recalling(MoveJob(kind, n, p, l, q, refund), m) =
              [kind |-> kind, from |-> n, place |-> place, line |-> l, amount |-> q,
               refund |-> refund, was |-> was, copy |-> copy, captured |-> had, memory |-> m]
<1>1. MoveJob(kind, n, p, l, q, refund) =
        [NoJob EXCEPT !.kind = kind, !.from = n, !.place = place, !.line = l, !.amount = q,
           !.refund = refund, !.was = was, !.copy = copy, !.captured = had]
  BY DEF MoveJob
<1>2. MoveJob(kind, n, p, l, q, refund) =
        [kind |-> kind, from |-> n, place |-> place, line |-> l, amount |-> q,
         refund |-> refund, was |-> was, copy |-> copy, captured |-> had, memory |-> "none"]
  BY ONLY <1>1 DEF NoJob
<1> QED BY ONLY <1>2 DEF Recalling

LEMMA MoveJobRecallsNothing ==
  ASSUME NEW kind, NEW n, NEW p, NEW l, NEW q, NEW refund
  PROVE  Recalling(MoveJob(kind, n, p, l, q, refund), "none") = MoveJob(kind, n, p, l, q, refund)
<1>1. PICK place, was, copy, had :
        /\ place = IF n = 0 THEN "none" ELSE p
        /\ was = IF n = 0 THEN "none" ELSE fulfillments[n].status
        /\ copy = IF n = 0 THEN fulfilled[l] ELSE CellOf(n, p, l)
        /\ had = IF refund THEN captured ELSE 0
  OBVIOUS
<1> QED BY <1>1, MoveJobIs

LEMMA MoveJobIsValid ==
  ASSUME TypeOK, NEW kind \in Movers, NEW n \in Sources, NEW p \in Places, NEW l \in Lines,
         NEW q \in 1..Quantity[l], NEW refund \in BOOLEAN, MayMove(n, p, l, q, ExtraSource(kind)),
         NEW m \in OrderStatus \cup {"none"}, NEW j,
         j = Recalling(MoveJob(kind, n, p, l, q, refund), m),
         kind = "return" => (n # 0 => p = "stock") /\ m \in OrderStatus
  PROVE  j \in Job /\ Validated(j) /\ j.from \in 0..Len(fulfillments)
<1>1. RowTypes /\ fulfillments \in Seq(Fulfillment) /\ captured \in 0..Price
  BY TypesInParts DEF RowTypes
<1>0. PICK place, was, copy, had :
        /\ place = IF n = 0 THEN "none" ELSE p
        /\ was = IF n = 0 THEN "none" ELSE fulfillments[n].status
        /\ copy = IF n = 0 THEN fulfilled[l] ELSE CellOf(n, p, l)
        /\ had = IF refund THEN captured ELSE 0
  OBVIOUS
<1>2. j = [kind |-> kind, from |-> n, place |-> place, line |-> l, amount |-> q,
           refund |-> refund, was |-> was, copy |-> copy, captured |-> had, memory |-> m]
  BY <1>0, MoveJobIs
<1>3. n \in 0..Len(fulfillments) /\ (n # 0 => n \in 1..Len(fulfillments))
  BY <1>1, LenProperties DEF Sources
<1>4. q \in Nat /\ q > 0 /\ fulfilled[l] \in Int /\ l # "none"
      /\ captured \in Nat
  BY <1>1, QuantityTypes, RestTypes
<1>5. n # 0 => CellOf(n, p, l) \in Nat /\ fulfillments[n].status \in FulfillmentStatus
  BY <1>1, <1>3, ElementOfSeq, FulfillmentTypes DEF CellOf
<1>6. j \in Job
  <2>1. kind \in AllKinds
    BY DEF Movers, AllKinds
  <2>2. place \in Places /\ was \in FulfillmentStatus \cup {"none"} /\ copy \in Int /\ had \in Nat
    BY <1>0, <1>4, <1>5, PlaceTypes
  <2>3. n \in Nat
    BY <1>1, <1>3, LenProperties
  <2> QED BY ONLY <1>2, <1>4, <2>1, <2>2, <2>3, l \in Lines, refund \in BOOLEAN, m \in OrderStatus \cup {"none"} DEF Job
<1>7. n = 0 => fulfilled[l] + q <= Quantity[l]
  BY <1>1, <1>4, RestTypes, QuantityTypes DEF MayMove
<1>8. n # 0 => q <= CellOf(n, p, l) /\ fulfillments[n].status \in {"fulfilled", "waiting"} \cup ExtraSource(kind)
  BY DEF MayMove
<1>9. Validated(j)
  <2>0. j.kind = kind /\ j.from = n /\ j.place = place /\ j.line = l /\ j.amount = q /\ j.was = was
        /\ j.copy = copy /\ j.memory = m
    BY ONLY <1>2
  <2>1. n # 0 => was \in {"fulfilled", "waiting"} \cup ExtraSource(kind)
    BY <1>0, <1>8
  <2>2. n # 0 => was \in {"fulfilled", "waiting", "refunded", "returned"}
    BY <2>1 DEF ExtraSource
  <2>3. kind \in {"return", "replace"} => was # "returned"
    BY <1>0, <2>1 DEF ExtraSource
  <2>4. kind = "refundProducts" => was # "refunded"
    BY <1>0, <2>1 DEF ExtraSource
  <2>5. n = 0 => place = "none" /\ was = "none" /\ copy + q <= Quantity[l]
    BY <1>0, <1>7
  <2>6. n # 0 => q <= copy /\ (kind = "return" => place = "stock")
    BY <1>0, <1>8
  <2>7. kind = "return" => m \in OrderStatus
    OBVIOUS
  <2>8. kind \in {"return", "replace", "refundProducts"}
    BY DEF Movers
  <2> QED BY ONLY <1>4, <2>0, <2>2, <2>3, <2>4, <2>5, <2>6, <2>7, <2>8, l \in Lines DEF Validated, Movers
<1> QED BY <1>2, <1>3, <1>6, <1>9

LEMMA BeginKeepsTypes ==
  ASSUME TypeOK, NEW r \in Requests, Begin(r)
  PROVE  TypeOK'
<1>1. RowTypes /\ fulfillments \in Seq(Fulfillment) /\ captured \in 0..Price /\ status \in OrderStatus
      /\ Len(fulfillments) \in Nat /\ DOMAIN fulfillments = 1..Len(fulfillments)
  BY TypesInParts, LenProperties DEF RowTypes
<1>2. \A l \in Lines : fulfilled[l] \in Int /\ Quantity[l] \in Nat /\ l # "none"
  BY <1>1, QuantityTypes, RestTypes
<1>3. CASE OrderConfirm(r)
  <2>1. PICK j : j = [NoJob EXCEPT !.kind = "confirm"]
    OBVIOUS
  <2>2. j.from = 0 /\ j.kind = "confirm" /\ j.line = "none"
    BY <2>1 DEF NoJob
  <2>a. j \in Job
    BY <2>1, NoJobTypes DEF Job, AllKinds
  <2>3. Validated(j)
    BY <2>2 DEF Validated, Movers
  <2>b. Ask(r, j)
    BY <1>3, <2>1 DEF OrderConfirm
  <2>c. j.from \in 0..Len(fulfillments)
    BY <1>1, <2>2
  <2> QED BY <2>b, <2>c, <2>2, <2>3, <2>a, AskKeepsTypes
<1>4. CASE OrderCancel(r)
  <2>1. PICK j : j = [NoJob EXCEPT !.kind = "cancelOrder"]
    OBVIOUS
  <2>2. j.from = 0 /\ j.kind = "cancelOrder" /\ j.line = "none"
    BY <2>1 DEF NoJob
  <2>a. j \in Job
    BY <2>1, NoJobTypes DEF Job, AllKinds
  <2>3. Validated(j)
    BY <2>2 DEF Validated, Movers
  <2>b. Ask(r, j)
    BY <1>4, <2>1 DEF OrderCancel
  <2>c. j.from \in 0..Len(fulfillments)
    BY <1>1, <2>2
  <2> QED BY <2>b, <2>c, <2>2, <2>3, <2>a, AskKeepsTypes
<1>5. ASSUME NEW l \in Lines, NEW q \in 1..Quantity[l], OrderFulfill(r, l, q)
      PROVE  TypeOK'
  <2>1. PICK j : j = [NoJob EXCEPT !.kind = "fulfill", !.line = l, !.amount = q, !.copy = fulfilled[l]]
    OBVIOUS
  <2>2. j.from = 0 /\ j.kind = "fulfill" /\ j.line = l /\ j.amount = q /\ j.copy = fulfilled[l]
        /\ j.place = "none" /\ j.was = "none"
    BY <2>1 DEF NoJob
  <2>3. q \in Nat /\ q > 0
    BY <1>2
  <2>4. j \in Job
    BY <1>2, <2>1, <2>3, NoJobTypes DEF Job, AllKinds
  <2>5. Validated(j)
    BY <1>2, <2>2, <2>3, <1>5 DEF Validated, Movers, OrderFulfill
  <2>b. Ask(r, j)
    BY <1>5, <2>1 DEF OrderFulfill
  <2>c. j.from \in 0..Len(fulfillments)
    BY <1>1, <2>2
  <2> QED BY <2>b, <2>c, <2>2, <2>4, <2>5, AskKeepsTypes
<1>6. ASSUME NEW n \in DOMAIN fulfillments, FulfillmentApprove(r, n)
      PROVE  TypeOK'
  <2>1. PICK j : j = [NoJob EXCEPT !.kind = "approve", !.from = n, !.was = "waiting"]
    OBVIOUS
  <2>2. j.from = n /\ j.kind = "approve" /\ j.line = "none" /\ j.was = "waiting" /\ n \in Nat /\ n # 0
    BY <1>1, <2>1 DEF NoJob
  <2>3. j \in Job
    BY <2>1, <2>2, NoJobTypes DEF Job, AllKinds, FulfillmentStatus
  <2>4. Validated(j)
    BY <2>2 DEF Validated, Movers
  <2>b. Ask(r, j)
    BY <1>6, <2>1 DEF FulfillmentApprove
  <2>c. j.from \in 0..Len(fulfillments)
    BY <1>1, <2>2
  <2> QED BY <2>b, <2>c, <2>2, <2>3, <2>4, AskKeepsTypes
<1>7. ASSUME NEW n \in DOMAIN fulfillments, FulfillmentCancel(r, n)
      PROVE  TypeOK'
  <2>1. PICK j : j = [NoJob EXCEPT !.kind = "cancelFulfillment", !.from = n, !.was = fulfillments[n].status]
    OBVIOUS
  <2>2. j.from = n /\ j.kind = "cancelFulfillment" /\ j.line = "none" /\ j.was = fulfillments[n].status
        /\ n \in Nat /\ n # 0
    BY <1>1, <2>1 DEF NoJob
  <2>a. j.was \in FulfillmentStatus
    BY <1>1, <2>2, ElementOfSeq, FulfillmentTypes
  <2>3. j \in Job
    BY <2>1, <2>2, <2>a, NoJobTypes DEF Job, AllKinds
  <2>4. Validated(j)
    <3>1. j.was \notin {"none", "canceled", "closed", "deleted"}
      BY <1>7, <2>2, <2>a DEF FulfillmentCancel, FulfillmentStatus
    <3> QED BY <2>2, <3>1 DEF Validated, Movers
  <2>b. Ask(r, j)
    BY <1>7, <2>1 DEF FulfillmentCancel
  <2>c. j.from \in 0..Len(fulfillments)
    BY <1>1, <2>2
  <2> QED BY <2>b, <2>c, <2>2, <2>3, <2>4, AskKeepsTypes
<1>8. ASSUME NEW n \in Sources, NEW p \in Places, NEW l \in Lines, NEW q \in 1..Quantity[l],
             NEW refund \in BOOLEAN, ReturnProducts(r, n, p, l, q, refund)
      PROVE  TypeOK'
  <2>0. PICK m : m = status
    OBVIOUS
  <2>1. PICK j : j = Recalling(MoveJob("return", n, p, l, q, refund), m)
    OBVIOUS
  <2>2. j \in Job /\ Validated(j) /\ j.from \in 0..Len(fulfillments)
    <3>1. "return" \in Movers
      BY DEF Movers
    <3>2. MayMove(n, p, l, q, ExtraSource("return")) /\ (n # 0 => p = "stock") /\ m \in OrderStatus
      BY <1>1, <1>8, <2>0 DEF ReturnProducts, ExtraSource
    <3> QED BY <2>1, <3>1, <3>2, MoveJobIsValid
  <2>3. Ask(r, j)
    BY <1>8, <2>0, <2>1 DEF ReturnProducts, Recalling
  <2> QED BY <2>2, <2>3, AskKeepsTypes
<1>9. ASSUME NEW n \in Sources, NEW p \in Places, NEW l \in Lines, NEW q \in 1..Quantity[l],
             ReplaceProducts(r, n, p, l, q)
      PROVE  TypeOK'
  <2>1. PICK j : j = Recalling(MoveJob("replace", n, p, l, q, FALSE), "none")
    OBVIOUS
  <2>2. j \in Job /\ Validated(j) /\ j.from \in 0..Len(fulfillments)
    <3>1. "replace" \in Movers /\ MayMove(n, p, l, q, ExtraSource("replace"))
      BY <1>9 DEF Movers, ReplaceProducts, ExtraSource
    <3> QED BY <2>1, <3>1, MoveJobIsValid
  <2>3. j = MoveJob("replace", n, p, l, q, FALSE)
    BY <2>1, MoveJobRecallsNothing
  <2>4. Ask(r, j)
    BY <1>9, <2>3 DEF ReplaceProducts
  <2> QED BY <2>2, <2>4, AskKeepsTypes
<1>10. ASSUME NEW n \in Sources, NEW p \in Places, NEW l \in Lines, NEW q \in 1..Quantity[l],
              RefundProducts(r, n, p, l, q)
       PROVE  TypeOK'
  <2>1. PICK j : j = Recalling(MoveJob("refundProducts", n, p, l, q, TRUE), "none")
    OBVIOUS
  <2>2. j \in Job /\ Validated(j) /\ j.from \in 0..Len(fulfillments)
    <3>1. "refundProducts" \in Movers /\ MayMove(n, p, l, q, ExtraSource("refundProducts"))
      BY <1>10 DEF Movers, RefundProducts, ExtraSource
    <3> QED BY <2>1, <3>1, MoveJobIsValid
  <2>3. j = MoveJob("refundProducts", n, p, l, q, TRUE)
    BY <2>1, MoveJobRecallsNothing
  <2>4. Ask(r, j)
    BY <1>10, <2>3 DEF RefundProducts
  <2> QED BY <2>2, <2>4, AskKeepsTypes
<1>11. ASSUME NEW amount \in 1..Price, OrderRefund(r, amount)
       PROVE  TypeOK'
  <2>1. PICK j : j = [NoJob EXCEPT !.kind = "orderRefund", !.amount = amount]
    OBVIOUS
  <2>2. j.from = 0 /\ j.kind = "orderRefund" /\ j.line = "none" /\ amount \in Nat
    BY <2>1, QuantityTypes DEF NoJob
  <2>3. j \in Job
    BY <2>1, <2>2, NoJobTypes DEF Job, AllKinds
  <2>4. Validated(j)
    BY <2>2 DEF Validated, Movers
  <2>b. Ask(r, j)
    BY <1>11, <2>1 DEF OrderRefund
  <2>c. j.from \in 0..Len(fulfillments)
    BY <1>1, <2>2
  <2> QED BY <2>b, <2>c, <2>2, <2>3, <2>4, AskKeepsTypes
<1> QED BY <1>3, <1>4, <1>5, <1>6, <1>7, <1>8, <1>9, <1>10, <1>11 DEF Begin

(***************************************************************************)
(* The writes: the status of a fulfillment, the units of its lines, and a  *)
(* new fulfillment at the end.                                             *)
(***************************************************************************)
WithStatus(x, s) == [x EXCEPT !.status = s]
StatusSet(fs, n, s) == [fs EXCEPT ![n].status = s]

LEMMA StatusMoves ==
  ASSUME NEW fs \in Seq(Fulfillment), NEW n \in 1..Len(fs), NEW s \in FulfillmentStatus
  PROVE  /\ StatusSet(fs, n, s) \in Seq(Fulfillment) /\ Len(StatusSet(fs, n, s)) = Len(fs)
         /\ fs[n] \in Fulfillment /\ WithStatus(fs[n], s) \in Fulfillment
         /\ WithStatus(fs[n], s).status = s /\ WithStatus(fs[n], s).units = fs[n].units
         /\ \A l \in Lines :
              /\ Shipped(StatusSet(fs, n, s), l) =
                   Shipped(fs, l) - StockOf(l)[fs[n]] + StockOf(l)[WithStatus(fs[n], s)]
              /\ \A S : Held(StatusSet(fs, n, s), S, l) =
                   Held(fs, S, l) - UnitsOf(S, l)[fs[n]] + UnitsOf(S, l)[WithStatus(fs[n], s)]
<1>1. fs[n] \in Fulfillment /\ fs \in [1..Len(fs) -> Fulfillment]
  BY ElementOfSeq, LenProperties
<1>2. PICK x : x = WithStatus(fs[n], s)
  OBVIOUS
<1>3. x \in Fulfillment /\ x.status = s /\ x.units = fs[n].units
  BY <1>1, <1>2 DEF WithStatus, Fulfillment
<1>4. StatusSet(fs, n, s) = [fs EXCEPT ![n] = x]
  BY <1>1, <1>2 DEF StatusSet, WithStatus
<1>5. [fs EXCEPT ![n] = x] \in Seq(Fulfillment) /\ Len([fs EXCEPT ![n] = x]) = Len(fs)
  BY <1>3, ExceptSeq
<1>6. ASSUME NEW l \in Lines
      PROVE  /\ Shipped([fs EXCEPT ![n] = x], l) = Shipped(fs, l) - StockOf(l)[fs[n]] + StockOf(l)[x]
             /\ \A S : Held([fs EXCEPT ![n] = x], S, l) = Held(fs, S, l) - UnitsOf(S, l)[fs[n]] + UnitsOf(S, l)[x]
  BY <1>3, ChangeMoves, Zenon
<1> QED BY ONLY <1>1, <1>2, <1>3, <1>4, <1>5, <1>6

Closing == [status |-> "closed", units |-> [NoUnits EXCEPT !["none"] = [l \in Lines |-> Rest(l)]]]

LEMMA ClosingTypes ==
  ASSUME RowTypes
  PROVE  /\ Closing \in Fulfillment /\ Closing.status = "closed"
         /\ \A l \in Lines : Closing.units["stock"][l] = 0 /\ UnitsIn(Closing, l) = Rest(l)
<1>1. PICK u : u = [NoUnits EXCEPT !["none"] = [l \in Lines |-> Rest(l)]]
  OBVIOUS
<1>2. [l \in Lines |-> Rest(l)] \in [Lines -> Nat]
  BY RestTypes
<1>3. u \in [Places -> [Lines -> Nat]] /\ u["none"] = [l \in Lines |-> Rest(l)]
      /\ u["stock"] = [l \in Lines |-> 0]
  BY <1>1, <1>2, PlaceTypes DEF NoUnits
<1>4. Closing = [status |-> "closed", units |-> u]
  BY <1>1 DEF Closing
<1>5. "closed" \in FulfillmentStatus
  BY DEF FulfillmentStatus
<1>6. Closing \in Fulfillment /\ Closing.status = "closed" /\ Closing.units = u
  BY ONLY <1>3, <1>4, <1>5 DEF Fulfillment
<1> QED BY <1>3, <1>6, RestTypes DEF UnitsIn

LEMMA CloseMoves ==
  ASSUME RowTypes, Close
  PROVE  /\ fulfillments' \in Seq(Fulfillment) /\ Len(fulfillments) <= Len(fulfillments')
         /\ fulfilled' \in [Lines -> Int] /\ \A l \in Lines : fulfilled'[l] <= Quantity[l]
         /\ \A l \in Lines :
              /\ fulfilled'[l] = fulfilled[l] + Rest(l)
              /\ Shipped(fulfillments', l) = Shipped(fulfillments, l)
              /\ \A S : Held(fulfillments', S, l) = Held(fulfillments, S, l)
                                                      + (IF "closed" \in S THEN Rest(l) ELSE 0)
<1>1. /\ fulfillments \in Seq(Fulfillment) /\ Len(fulfillments) \in Nat
      /\ Closing \in Fulfillment /\ Closing.status = "closed"
      /\ \A l \in Lines : Closing.units["stock"][l] = 0 /\ UnitsIn(Closing, l) = Rest(l)
  BY ClosingTypes, LenProperties DEF RowTypes
<1>2. \A l \in Lines : fulfilled'[l] = fulfilled[l] + Rest(l)
  BY DEF Close
<1>3. fulfilled' \in [Lines -> Int] /\ \A l \in Lines : fulfilled'[l] <= Quantity[l]
  BY RestTypes, QuantityTypes DEF Close
<1>4. \A l \in Lines : /\ Shipped(fulfillments, l) \in Nat /\ Rest(l) \in Nat
                       /\ \A S : Held(fulfillments, S, l) \in Nat
  BY <1>1, HeldIsTally, RestTypes
<1>5. CASE Remaining = 0
  <2>1. fulfillments' = fulfillments
    BY <1>1, <1>5, AddedAtTheEnd DEF Close
  <2>2. ASSUME NEW l \in Lines PROVE Rest(l) = 0
    <3>1. [k \in Lines |-> Rest(k)] \in [Lines -> Nat]
      BY RestTypes
    <3>2. [k \in Lines |-> Rest(k)][l] = 0
      BY <1>5, <3>1, QuantityTypes, SumIsZero DEF Remaining
    <3> QED BY <3>2
  <2>3. \A l \in Lines :
          /\ Shipped(fulfillments', l) = Shipped(fulfillments, l)
          /\ \A S : Held(fulfillments', S, l) = Held(fulfillments, S, l)
                                                  + (IF "closed" \in S THEN Rest(l) ELSE 0)
    BY <1>4, <2>1, <2>2
  <2> QED BY <1>1, <1>2, <1>3, <2>1, <2>3
<1>6. CASE Remaining # 0
  <2>1. fulfillments' = Append(fulfillments, Closing)
    <3>1. fulfillments \o <<Closing>> = Append(fulfillments, Closing)
      BY <1>1, AddedAtTheEnd
    <3>2. fulfillments' = fulfillments \o <<Closing>>
      BY <1>6 DEF Close, Closing
    <3> QED BY <3>1, <3>2
  <2>2. ASSUME NEW l \in Lines
        PROVE  /\ fulfillments' \in Seq(Fulfillment) /\ Len(fulfillments') = Len(fulfillments) + 1
               /\ Shipped(fulfillments', l) = Shipped(fulfillments, l) + StockOf(l)[Closing]
               /\ \A S : Held(fulfillments', S, l) = Held(fulfillments, S, l) + UnitsOf(S, l)[Closing]
    BY <1>1, <2>1, AppendMoves
  <2>3. fulfillments' \in Seq(Fulfillment) /\ Len(fulfillments') = Len(fulfillments) + 1
    BY <1>1, <2>1, AppendProperties
  <2>4. \A l \in Lines : /\ StockOf(l)[Closing] = 0
                         /\ \A S : UnitsOf(S, l)[Closing] = IF "closed" \in S THEN Rest(l) ELSE 0
    BY <1>1 DEF StockOf, UnitsOf
  <2>5. ASSUME NEW l \in Lines
        PROVE  /\ Shipped(fulfillments', l) = Shipped(fulfillments, l)
               /\ \A S : Held(fulfillments', S, l) = Held(fulfillments, S, l)
                                                       + (IF "closed" \in S THEN Rest(l) ELSE 0)
    BY <1>4, <2>2, <2>4
  <2> QED BY <1>1, <1>2, <1>3, <2>3, <2>5
<1> QED BY <1>5, <1>6

LEMMA MoveTypes ==
  ASSUME TypeOK, NEW r \in Requests, step[r] = "read", job[r].kind \in Movers,
         NEW x \in Fulfillment, NEW y \in Fulfillment, Move(r, <<x>>) \/ Move(r, <<x, y>>)
  PROVE  /\ fulfillments \in Seq(Fulfillment)
         /\ fulfillments' \in Seq(Fulfillment) /\ Len(fulfillments) <= Len(fulfillments')
         /\ fulfilled' \in [Lines -> Int] /\ \A l \in Lines : fulfilled'[l] <= Quantity[l]
<1>1. RowTypes /\ JobTypes /\ fulfillments \in Seq(Fulfillment) /\ Len(fulfillments) \in Nat
  BY TypesInParts, LenProperties DEF RowTypes
<1>2. Taken(job[r]) \in Seq(Fulfillment) /\ Len(Taken(job[r])) = Len(fulfillments)
  BY TakenTypes
<1>3. fulfillments' \in Seq(Fulfillment) /\ Len(fulfillments) <= Len(fulfillments')
  <2>1. CASE Move(r, <<x>>)
    <3>1. fulfillments' = Moved(job[r], <<x>>)
      BY <2>1 DEF Move
    <3>2. fulfillments' \in Seq(Fulfillment) /\ Len(fulfillments') = Len(Taken(job[r])) + 1
      BY <1>2, <3>1, MovedOne
    <3> QED BY <1>1, <1>2, <3>2
  <2>2. CASE Move(r, <<x, y>>)
    <3>1. fulfillments' = Moved(job[r], <<x, y>>)
      BY <2>2 DEF Move
    <3>2. fulfillments' \in Seq(Fulfillment) /\ Len(fulfillments') = Len(Taken(job[r])) + 2
      BY <1>2, <3>1, MovedTwo
    <3> QED BY <1>1, <1>2, <3>2
  <2> QED BY <2>1, <2>2
<1>4. /\ job[r].line \in Lines /\ job[r].copy \in Int /\ job[r].amount \in Nat
      /\ job[r].from = 0 => job[r].copy + job[r].amount <= Quantity[job[r].line]
  <2>1. Validated(job[r]) /\ job[r] \in Job
    BY <1>1 DEF JobTypes, CallTypes
  <2>2. job[r].line \in Lines /\ job[r].line # "none"
    BY <2>1, QuantityTypes DEF Validated
  <2> QED BY <2>1, <2>2 DEF Validated, Job
<1>5. fulfilled' = IF job[r].from = 0
                   THEN [fulfilled EXCEPT ![job[r].line] = job[r].copy + job[r].amount] ELSE fulfilled
  BY DEF Move
<1>6. fulfilled \in [Lines -> Int] /\ \A l \in Lines : fulfilled[l] <= Quantity[l]
  BY <1>1 DEF RowTypes
<1>7. fulfilled' \in [Lines -> Int] /\ \A l \in Lines : fulfilled'[l] <= Quantity[l]
  <2>1. CASE job[r].from = 0
    BY <1>4, <1>5, <1>6, <2>1
  <2>2. CASE job[r].from # 0
    BY <1>5, <1>6, <2>2
  <2> QED BY <2>1, <2>2
<1> QED BY <1>1, <1>3, <1>7

LEMMA RefundTypes ==
  ASSUME TypeOK, NEW r \in Requests, PayBack(RefundAmount(job[r]))
  PROVE  /\ captured' \in 0..Price /\ captured \in Nat
         /\ captured' = captured - RefundAmount(job[r]) /\ RefundAmount(job[r]) \in Nat
         /\ RefundAmount(job[r]) <= job[r].amount
         /\ ~job[r].refund \/ job[r].was = "refunded" => RefundAmount(job[r]) = 0
<1>1. captured \in 0..Price /\ job[r].captured \in Nat /\ job[r].amount \in Nat
  BY DEF TypeOK, Job
<1>2. RefundAmount(job[r]) \in Nat /\ RefundAmount(job[r]) <= job[r].amount
      /\ (~job[r].refund \/ job[r].was = "refunded" => RefundAmount(job[r]) = 0)
  BY <1>1 DEF RefundAmount, Min2
<1> QED BY <1>1, <1>2, QuantityTypes DEF PayBack

LEMMA TargetTypes ==
  ASSUME TypeOK, NEW r \in Requests, step[r] = "read", job[r].kind \in Movers,
         NEW s \in FulfillmentStatus
  PROVE  /\ Target(job[r], s) \in Fulfillment /\ Target(job[r], s).status = s
         /\ \A k \in Lines :
              /\ Target(job[r], s).units["stock"][k] =
                   IF k = job[r].line /\ job[r].place = "stock" THEN job[r].amount ELSE 0
              /\ UnitsIn(Target(job[r], s), k) = IF k = job[r].line THEN job[r].amount ELSE 0
<1>1. job[r] \in Job /\ Validated(job[r])
  BY DEF TypeOK
<1>2. job[r].line \in Lines /\ job[r].place \in Places /\ job[r].amount \in Nat
  BY <1>1, QuantityTypes DEF Job, Validated
<1> QED BY <1>2, HoldingTypes DEF Target

LEMMA StatusNames ==
  {"fulfilled", "waiting", "returned", "refunded", "refunded_and_returned", "replaced",
   "canceled", "closed", "deleted"} = FulfillmentStatus
BY DEF FulfillmentStatus

(* What a return, a replacement and a refund add.                          *)
ReturnStatus(r) == IF job[r].refund THEN "refunded_and_returned" ELSE "returned"

LEMMA ReturnMoves ==
  ASSUME NEW r \in Requests, CreateReturnFulfillment(r)
  PROVE  \/ /\ RowExists(job[r]) /\ fulfillments[job[r].from].status = "refunded" /\ ~job[r].refund
            /\ Move(r, <<Empty("returned"), Target(job[r], "refunded_and_returned")>>)
         \/ /\ ~(RowExists(job[r]) /\ fulfillments[job[r].from].status = "refunded" /\ ~job[r].refund)
            /\ Move(r, <<Target(job[r], ReturnStatus(r))>>)
BY DEF CreateReturnFulfillment, ReturnStatus

LEMMA ProceedKeepsTypes ==
  ASSUME TypeOK, NEW r \in Requests, Proceed(r)
  PROVE  TypeOK'
<1>1. /\ RowTypes /\ JobTypes /\ task \in Expiry /\ astray \in BOOLEAN
      /\ fulfillments \in Seq(Fulfillment) /\ Len(fulfillments) \in Nat /\ captured \in 0..Price
      /\ status \in OrderStatus /\ fulfilled \in [Lines -> Int] /\ gone \in [Lines -> Int]
      /\ \A l \in Lines : fulfilled[l] <= Quantity[l]
  BY TypesInParts, LenProperties DEF RowTypes
<1>2. /\ job[r] \in Job /\ job[r].from \in 0..Len(fulfillments)
      /\ step[r] = "read" => Validated(job[r])
      /\ CallTypes(step[r], job[r])
  BY <1>1 DEF JobTypes, CallTypes
<1>3. CASE SaveUnconfirmed(r)
  <2>1. "payable" \in Steps /\ step' = [step EXCEPT ![r] = "payable"] /\ job' = [job EXCEPT ![r] = job[r]]
        /\ fulfillments' = fulfillments
    BY <1>1, <1>3 DEF SaveUnconfirmed, Steps, JobTypes
  <2>2. PICK j \in Job : j = job[r]
    BY <1>2
  <2>3. CallTypes("payable", j)'
    BY <1>2, <2>1, <2>2 DEF CallTypes
  <2>a. job' = [job EXCEPT ![r] = j] /\ Len(fulfillments') \in Nat /\ Len(fulfillments) <= Len(fulfillments')
    BY <1>1, <2>1, <2>2
  <2>4. JobTypes'
    BY <1>1, <2>1, <2>3, <2>a, OneCallGoesOn
  <2>5. RowTypes' /\ task' \in Expiry /\ astray' \in BOOLEAN
    BY <1>1, <1>3 DEF SaveUnconfirmed, RowTypes, OrderStatus, Open
  <2> QED BY <2>4, <2>5, TypesInParts
<1>4. CASE Pay(r)
  <2>1. Finish(r) /\ fulfillments' = fulfillments
    BY <1>4 DEF Pay
  <2>2. JobTypes'
    BY <1>1, <2>1, FinishKeepsTypes
  <2>3. RowTypes' /\ task' \in Expiry /\ astray' \in BOOLEAN
    BY <1>1, <1>4, QuantityTypes DEF Pay, RowTypes, OrderStatus, Open
  <2> QED BY <2>2, <2>3, TypesInParts
<1>5. CASE CreateFulfillments(r)
  <2>1. /\ job[r].line \in Lines /\ job[r].copy \in Int /\ job[r].amount \in Nat
        /\ job[r].copy + job[r].amount <= Quantity[job[r].line]
    <3>1. job[r].kind = "fulfill" /\ Validated(job[r])
      BY <1>2, <1>5 DEF CreateFulfillments, At
    <3>2. job[r].line \in Lines /\ job[r].line # "none" /\ job[r].from = 0
      BY <3>1, QuantityTypes DEF Validated
    <3> QED BY <1>2, <3>1, <3>2 DEF Validated, Job
  <2>2. PICK x : x = Holding(IF AutoApprove THEN "fulfilled" ELSE "waiting", "stock", job[r].line, job[r].amount)
    OBVIOUS
  <2>3. x \in Fulfillment
    BY <2>1, <2>2, PlaceTypes, StatusNames, HoldingTypes
  <2>4. fulfillments' = Append(fulfillments, x)
    BY <1>5, <2>2 DEF CreateFulfillments
  <2>5. fulfillments' \in Seq(Fulfillment) /\ Len(fulfillments) <= Len(fulfillments')
    BY <1>1, <2>3, <2>4, AppendProperties
  <2>6. ThenUpdate(r, status) \/ Finish(r)
    BY <1>5 DEF CreateFulfillments
  <2>7. JobTypes'
    BY <1>1, <2>5, <2>6, FinishKeepsTypes, ThenUpdateKeepsTypes
  <2>8. fulfilled' \in [Lines -> Int] /\ \A l \in Lines : fulfilled'[l] <= Quantity[l]
    BY <1>1, <1>5, <2>1 DEF CreateFulfillments
  <2>9. gone' \in [Lines -> Int]
    BY <1>1, <1>5, <2>1 DEF CreateFulfillments
  <2>10. RowTypes' /\ task' \in Expiry /\ astray' \in BOOLEAN
    BY <1>1, <1>5, <2>5, <2>8, <2>9 DEF CreateFulfillments, RowTypes
  <2> QED BY <2>7, <2>10, TypesInParts
<1>6. CASE ApproveFulfillment(r)
  <2>1. PICK n : n = job[r].from
    OBVIOUS
  <2>2. n \in 1..Len(fulfillments)
    BY <1>1, <1>2, <1>6, <2>1 DEF ApproveFulfillment, At, Validated
  <2>3. fulfillments' = StatusSet(fulfillments, n, "fulfilled") /\ Finish(r)
    BY <1>6, <2>1 DEF ApproveFulfillment, StatusSet
  <2>4. fulfillments' \in Seq(Fulfillment) /\ Len(fulfillments') = Len(fulfillments)
    BY <1>1, <2>2, <2>3, StatusNames, StatusMoves
  <2>5. JobTypes'
    BY <1>1, <2>3, <2>4, FinishKeepsTypes
  <2>6. fulfillments[n] \in Fulfillment
    BY <1>1, <2>2, ElementOfSeq
  <2>7. \A l \in Lines : fulfillments[n].units["stock"][l] \in Nat
    BY <2>6, FulfillmentTypes
  <2>8. gone' = [l \in Lines |-> gone[l] + fulfillments[n].units["stock"][l]]
    BY <1>6, <2>1 DEF ApproveFulfillment, DecreaseStock
  <2>9. gone' \in [Lines -> Int]
    BY <1>1, <2>7, <2>8
  <2>10. status' \in OrderStatus
    BY <1>1, <1>6, StatusOfTypes DEF ApproveFulfillment
  <2>11. RowTypes' /\ task' \in Expiry /\ astray' \in BOOLEAN
    BY <1>1, <1>6, <2>4, <2>9, <2>10 DEF ApproveFulfillment, RowTypes
  <2> QED BY <2>5, <2>11, TypesInParts
<1>7. CASE UpdateOrderStatus(r)
  <2>1. Finish(r) /\ fulfillments' = fulfillments
    BY <1>7 DEF UpdateOrderStatus
  <2>2. JobTypes'
    BY <1>1, <2>1, FinishKeepsTypes
  <2>3. job[r].memory \in OrderStatus
    BY <1>2, <1>7 DEF UpdateOrderStatus, CallTypes
  <2>4. StatusOf(fulfillments, fulfilled, job[r].memory) \in OrderStatus
    BY <2>3, StatusOfTypes
  <2>5. status' \in OrderStatus
    BY <1>1, <1>7, <2>4 DEF UpdateOrderStatus, Updated
  <2>6. RowTypes' /\ task' \in Expiry /\ astray' \in BOOLEAN
    BY <1>1, <1>7, <2>5 DEF UpdateOrderStatus, RowTypes
  <2> QED BY <2>2, <2>6, TypesInParts
<1>8. CASE CancelWaitingFulfillment(r)
  <2>1. PICK n : n = job[r].from
    OBVIOUS
  <2>2. n \in 1..Len(fulfillments)
    BY <1>1, <1>2, <1>8, <2>1 DEF CancelWaitingFulfillment, At, Validated
  <2>3. fulfillments' = [fulfillments EXCEPT ![n] = Empty("deleted")] /\ Finish(r)
    BY <1>8, <2>1 DEF CancelWaitingFulfillment
  <2>4. fulfillments' \in Seq(Fulfillment) /\ Len(fulfillments') = Len(fulfillments)
    <3>1. Empty("deleted") \in Fulfillment
      BY StatusNames, EmptyTypes
    <3> QED BY <1>1, <2>2, <2>3, <3>1, ExceptSeq
  <2>5. JobTypes'
    BY <1>1, <2>3, <2>4, FinishKeepsTypes
  <2>6. \A l \in Lines : UnitsIn(fulfillments[n], l) \in Nat
    BY <1>1, <2>2, ElementOfSeq, FulfillmentTypes
  <2>7. fulfilled' = [l \in Lines |-> fulfilled[l] - UnitsIn(fulfillments[n], l)]
    BY <1>8, <2>1 DEF CancelWaitingFulfillment, Unfulfill
  <2>8. fulfilled' \in [Lines -> Int] /\ \A l \in Lines : fulfilled'[l] <= Quantity[l]
    BY <1>1, <2>6, <2>7, QuantityTypes
  <2>9. status' \in OrderStatus
    BY <1>1, <1>8, StatusOfTypes DEF CancelWaitingFulfillment
  <2>10. RowTypes' /\ task' \in Expiry /\ astray' \in BOOLEAN
    BY <1>1, <1>8, <2>4, <2>8, <2>9 DEF CancelWaitingFulfillment, RowTypes
  <2> QED BY <2>5, <2>10, TypesInParts
<1>9. CASE CancelFulfillment(r)
  <2>1. PICK n : n = job[r].from
    OBVIOUS
  <2>2. n \in 1..Len(fulfillments)
    BY <1>1, <1>2, <1>9, <2>1 DEF CancelFulfillment, At, Validated
  <2>3. fulfillments' = StatusSet(fulfillments, n, "canceled") /\ Finish(r)
    BY <1>9, <2>1 DEF CancelFulfillment, StatusSet
  <2>4. fulfillments' \in Seq(Fulfillment) /\ Len(fulfillments') = Len(fulfillments)
    BY <1>1, <2>2, <2>3, StatusNames, StatusMoves
  <2>5. JobTypes'
    BY <1>1, <2>3, <2>4, FinishKeepsTypes
  <2>6. \A l \in Lines : UnitsIn(fulfillments[n], l) \in Nat
    BY <1>1, <2>2, ElementOfSeq, FulfillmentTypes
  <2>7. /\ fulfilled' = [l \in Lines |-> fulfilled[l] - UnitsIn(fulfillments[n], l)]
        /\ gone' = [l \in Lines |-> gone[l] - UnitsIn(fulfillments[n], l)]
    BY <1>9, <2>1 DEF CancelFulfillment, Unfulfill
  <2>8. /\ fulfilled' \in [Lines -> Int] /\ gone' \in [Lines -> Int]
        /\ \A l \in Lines : fulfilled'[l] <= Quantity[l]
    BY <1>1, <2>6, <2>7, QuantityTypes
  <2>9. status' \in OrderStatus
    BY <1>1, <1>9, StatusOfTypes DEF CancelFulfillment
  <2>10. RowTypes' /\ task' \in Expiry /\ astray' \in BOOLEAN
    BY <1>1, <1>9, <2>4, <2>8, <2>9 DEF CancelFulfillment, RowTypes
  <2> QED BY <2>5, <2>10, TypesInParts
<1>10. CASE CreateReturnFulfillment(r)
  <2>1. step[r] = "read" /\ job[r].kind \in Movers /\ PayBack(RefundAmount(job[r]))
        /\ ThenUpdate(r, job[r].memory) /\ job[r].memory \in OrderStatus
    BY <1>2, <1>10 DEF CreateReturnFulfillment, At, Movers, Validated
  <2>2. /\ Empty("returned") \in Fulfillment /\ Target(job[r], "refunded_and_returned") \in Fulfillment
        /\ Target(job[r], ReturnStatus(r)) \in Fulfillment
    BY <2>1, EmptyTypes, TargetTypes, StatusNames DEF ReturnStatus
  <2>3. /\ fulfillments' \in Seq(Fulfillment) /\ Len(fulfillments) <= Len(fulfillments')
        /\ fulfilled' \in [Lines -> Int] /\ \A l \in Lines : fulfilled'[l] <= Quantity[l]
    BY <1>10, <2>1, <2>2, MoveTypes, ReturnMoves
  <2>4. JobTypes'
    BY <1>1, <2>1, <2>3, ThenUpdateKeepsTypes
  <2>5. captured' \in 0..Price
    BY <2>1, RefundTypes
  <2>6. job[r].amount \in Nat /\ job[r].line \in Lines
    BY <1>2, <2>1, QuantityTypes DEF Job, Validated
  <2>7. gone' \in [Lines -> Int]
    <3>1. gone' = IF job[r].from = 0 THEN gone ELSE [gone EXCEPT ![job[r].line] = @ - job[r].amount]
      BY <1>10 DEF CreateReturnFulfillment
    <3> QED BY <1>1, <2>6, <3>1
  <2>8. RowTypes' /\ task' \in Expiry /\ astray' \in BOOLEAN
    BY <1>1, <1>10, <2>3, <2>5, <2>7 DEF CreateReturnFulfillment, RowTypes
  <2> QED BY <2>4, <2>8, TypesInParts
<1>11. CASE ProcessReplace(r)
  <2>1. step[r] = "read" /\ job[r].kind \in Movers /\ ThenUpdate(r, status)
        /\ Move(r, <<Target(job[r], "replaced"), Empty("returned")>>)
    BY <1>11 DEF ProcessReplace, At, Movers
  <2>2. Empty("returned") \in Fulfillment /\ Target(job[r], "replaced") \in Fulfillment
    BY <2>1, EmptyTypes, TargetTypes, StatusNames
  <2>3. /\ fulfillments' \in Seq(Fulfillment) /\ Len(fulfillments) <= Len(fulfillments')
        /\ fulfilled' \in [Lines -> Int] /\ \A l \in Lines : fulfilled'[l] <= Quantity[l]
    BY <2>1, <2>2, MoveTypes
  <2>4. JobTypes'
    BY <1>1, <2>1, <2>3, ThenUpdateKeepsTypes
  <2>5. RowTypes' /\ task' \in Expiry /\ astray' \in BOOLEAN
    BY <1>1, <1>11, <2>3 DEF ProcessReplace, RowTypes
  <2> QED BY <2>4, <2>5, TypesInParts
<1>12. CASE CreateRefundFulfillment(r)
  <2>1. step[r] = "read" /\ job[r].kind \in Movers /\ Finish(r) /\ PayBack(RefundAmount(job[r]))
        /\ Move(r, <<Target(job[r], "refunded")>>)
    BY <1>12 DEF CreateRefundFulfillment, At, Movers
  <2>2. Target(job[r], "refunded") \in Fulfillment
    BY <2>1, TargetTypes, StatusNames
  <2>3. /\ fulfillments' \in Seq(Fulfillment) /\ Len(fulfillments) <= Len(fulfillments')
        /\ fulfilled' \in [Lines -> Int] /\ \A l \in Lines : fulfilled'[l] <= Quantity[l]
    BY <2>1, <2>2, MoveTypes
  <2>4. JobTypes'
    BY <1>1, <2>1, <2>3, FinishKeepsTypes
  <2>5. captured' \in 0..Price
    BY <2>1, RefundTypes
  <2>6. RowTypes' /\ task' \in Expiry /\ astray' \in BOOLEAN
    BY <1>1, <1>12, <2>3, <2>5 DEF CreateRefundFulfillment, RowTypes
  <2> QED BY <2>4, <2>6, TypesInParts
<1>13. CASE CancelOrder(r)
  <2>1. Close /\ Finish(r)
    BY <1>13 DEF CancelOrder
  <2>2. /\ fulfillments' \in Seq(Fulfillment) /\ Len(fulfillments) <= Len(fulfillments')
        /\ fulfilled' \in [Lines -> Int] /\ \A l \in Lines : fulfilled'[l] <= Quantity[l]
    BY <1>1, <2>1, CloseMoves
  <2>3. JobTypes'
    BY <1>1, <2>1, <2>2, FinishKeepsTypes
  <2>4. RowTypes' /\ task' \in Expiry /\ astray' \in BOOLEAN
    BY <1>1, <1>13, <2>2 DEF CancelOrder, RowTypes, OrderStatus
  <2> QED BY <2>3, <2>4, TypesInParts
<1>14. CASE GatewayRefund(r)
  <2>1. "committed" \in Steps /\ step' = [step EXCEPT ![r] = "committed"] /\ job' = [job EXCEPT ![r] = job[r]]
        /\ fulfillments' = fulfillments /\ job[r].kind = "orderRefund"
    BY <1>1, <1>14 DEF GatewayRefund, At, Steps, JobTypes
  <2>2. PICK j \in Job : j = job[r]
    BY <1>2
  <2>3. CallTypes("committed", j)'
    BY <1>2, <2>1, <2>2 DEF CallTypes
  <2>a. job' = [job EXCEPT ![r] = j] /\ Len(fulfillments') \in Nat /\ Len(fulfillments) <= Len(fulfillments')
    BY <1>1, <2>1, <2>2
  <2>4. JobTypes'
    BY <1>1, <2>1, <2>3, <2>a, OneCallGoesOn
  <2>5. job[r].amount \in Nat
    BY <1>2 DEF Job
  <2>6. RowTypes' /\ task' \in Expiry /\ astray' \in BOOLEAN
    BY <1>1, <1>14, <2>5, QuantityTypes DEF GatewayRefund, PayBack, RowTypes
  <2> QED BY <2>4, <2>6, TypesInParts
<1>15. CASE CreateRefunded(r)
  <2>1. fulfillments' = Append(fulfillments, Empty("refunded")) /\ Finish(r)
    BY <1>15 DEF CreateRefunded
  <2>2. Empty("refunded") \in Fulfillment
    BY StatusNames, EmptyTypes
  <2>3. fulfillments' \in Seq(Fulfillment) /\ Len(fulfillments) <= Len(fulfillments')
    BY <1>1, <2>1, <2>2, AppendProperties
  <2>4. JobTypes'
    BY <1>1, <2>1, <2>3, FinishKeepsTypes
  <2>5. RowTypes' /\ task' \in Expiry /\ astray' \in BOOLEAN
    BY <1>1, <1>15, <2>3 DEF CreateRefunded, RowTypes
  <2> QED BY <2>4, <2>5, TypesInParts
<1> QED
  BY <1>3, <1>4, <1>5, <1>6, <1>7, <1>8, <1>9, <1>10, <1>11, <1>12, <1>13, <1>14, <1>15 DEF Proceed

LEMMA ExpireKeepsTypes ==
  ASSUME TypeOK, ExpireOrders
  PROVE  TypeOK'
<1>1. /\ RowTypes /\ JobTypes /\ task \in Expiry /\ astray \in BOOLEAN
      /\ fulfillments \in Seq(Fulfillment) /\ Len(fulfillments) \in Nat /\ captured \in 0..Price
  BY TypesInParts, LenProperties DEF RowTypes
<1>2. step' = step /\ job' = job /\ astray' = astray
  BY DEF ExpireOrders, SelectUnpaid, ExpireUnpaid, SelectOpen, ExpireOpen, order, requests
<1>3. ASSUME fulfillments' = fulfillments PROVE JobTypes'
  BY <1>1, <1>2, <1>3 DEF JobTypes, CallTypes, Validated
<1>4. CASE SelectUnpaid
  <2>1. RowTypes' /\ fulfillments' = fulfillments
    BY <1>1, <1>4 DEF SelectUnpaid, order, RowTypes
  <2>2. task' \in Expiry
    BY <1>1, <1>4 DEF SelectUnpaid, Expiry
  <2> QED BY <1>1, <1>2, <1>3, <2>1, <2>2, TypesInParts
<1>5. CASE ExpireUnpaid
  <2>1. RowTypes' /\ fulfillments' = fulfillments
    BY <1>1, <1>5 DEF ExpireUnpaid, RowTypes, OrderStatus
  <2>2. task' \in Expiry
    BY <1>1, <1>5 DEF ExpireUnpaid, Expiry
  <2> QED BY <1>1, <1>2, <1>3, <2>1, <2>2, TypesInParts
<1>6. CASE SelectOpen
  <2>1. RowTypes' /\ fulfillments' = fulfillments
    BY <1>1, <1>6 DEF SelectOpen, order, RowTypes
  <2>2. task' \in Expiry
    <3>1. MayExpire(status) \in BOOLEAN
      BY DEF MayExpire
    <3> QED BY <1>1, <1>6, <3>1 DEF SelectOpen, Expiry
  <2> QED BY <1>1, <1>2, <1>3, <2>1, <2>2, TypesInParts
<1>7. CASE ExpireOpen
  <2>0. task' \in Expiry
    BY <1>7 DEF ExpireOpen, Idle, Expiry
  <2>1. CASE fulfillments' = fulfillments /\ UNCHANGED <<status, captured, fulfilled>>
    <3>1. RowTypes'
      BY <1>1, <1>7, <2>1 DEF ExpireOpen, RowTypes
    <3> QED BY <1>1, <1>2, <1>3, <2>0, <2>1, <3>1, TypesInParts
  <2>2. CASE Remaining <= captured /\ captured' = captured - Remaining /\ Close /\ status' = "EXPIRED"
    <3>1. /\ fulfillments' \in Seq(Fulfillment) /\ Len(fulfillments) <= Len(fulfillments')
          /\ fulfilled' \in [Lines -> Int] /\ \A l \in Lines : fulfilled'[l] <= Quantity[l]
      BY <1>1, <2>2, CloseMoves
    <3>2. captured' \in 0..Price
      BY <1>1, <2>2, RestTypes, QuantityTypes
    <3>3. RowTypes'
      BY <1>1, <1>7, <2>2, <3>1, <3>2 DEF ExpireOpen, RowTypes, OrderStatus
    <3>4. Len(fulfillments') \in Nat
      BY <3>1, LenProperties
    <3>5. JobTypes'
      <4>1. ASSUME NEW r \in Requests PROVE CallTypes(step[r], job[r])'
        <5>1. CallTypes(step[r], job[r]) /\ job[r] \in Job
          BY <1>1 DEF JobTypes
        <5>2. job[r].from \in 0..Len(fulfillments')
          BY <1>1, <3>1, <3>4, <5>1 DEF CallTypes
        <5> QED BY <1>2, <5>1, <5>2 DEF CallTypes, Validated
      <4> QED BY <1>1, <1>2, <4>1 DEF JobTypes
    <3> QED BY <1>1, <1>2, <2>0, <3>3, <3>5, TypesInParts
  <2> QED BY <1>7, <2>1, <2>2 DEF ExpireOpen, AmountTotal
<1> QED BY <1>4, <1>5, <1>6, <1>7 DEF ExpireOrders

LEMMA NextKeepsTypes ==
  ASSUME TypeOK, [Next]_vars
  PROVE  TypeOK'
<1>1. ASSUME NEW r \in Requests, Fail(r) PROVE TypeOK'
  <2>1. RowTypes /\ JobTypes /\ task \in Expiry /\ astray \in BOOLEAN /\ fulfillments \in Seq(Fulfillment)
    BY TypesInParts DEF RowTypes
  <2>2. fulfillments' = fulfillments /\ Finish(r) /\ Len(fulfillments) \in Nat
    BY <1>1, <2>1, LenProperties DEF Fail
  <2>3. JobTypes'
    BY <2>1, <2>2, FinishKeepsTypes
  <2>4. RowTypes' /\ task' \in Expiry /\ astray' \in BOOLEAN
    BY <1>1, <2>1 DEF Fail, RowTypes
  <2> QED BY <2>3, <2>4, TypesInParts
<1>2. CASE UNCHANGED vars
  <2>1. RowTypes /\ JobTypes /\ task \in Expiry /\ astray \in BOOLEAN
    BY TypesInParts
  <2>2. UNCHANGED <<status, captured, fulfilled, fulfillments, gone, astray, step, job, task>>
    BY <1>2 DEF vars, order, requests
  <2>3. RowTypes' /\ task' \in Expiry /\ astray' \in BOOLEAN
    BY <2>1, <2>2 DEF RowTypes
  <2>4. JobTypes'
    BY <2>1, <2>2 DEF JobTypes, CallTypes, Validated
  <2> QED BY <2>3, <2>4, TypesInParts
<1> QED BY <1>1, <1>2, BeginKeepsTypes, ProceedKeepsTypes, ExpireKeepsTypes DEF Next

LEMMA InitTypes ==
  ASSUME Init
  PROVE  TypeOK
<1>1. <<>> \in Seq(Fulfillment) /\ Len(<<>>) = 0
  BY EmptySeq
<1>2. RowTypes
  <2>1. status \in OrderStatus /\ captured \in 0..Price
    BY QuantityTypes DEF Init, OrderStatus, Open
  <2>2. fulfilled = [l \in Lines |-> 0] /\ gone = [l \in Lines |-> 0] /\ fulfillments = <<>>
    BY DEF Init
  <2> QED BY <1>1, <2>1, <2>2, QuantityTypes DEF RowTypes
<1>3. JobTypes
  <2>1. step \in [Requests -> Steps] /\ job \in [Requests -> Job]
    BY NoJobTypes DEF Init, Steps
  <2>2. \A r \in Requests : step[r] = "idle" /\ job[r] = NoJob
    BY DEF Init
  <2>3. Len(fulfillments) = 0
    BY <1>1 DEF Init
  <2>4. CallTypes("idle", NoJob)
    BY <2>3, NoJobTypes DEF CallTypes
  <2>5. \A r \in Requests : CallTypes(step[r], job[r])
    BY ONLY <2>2, <2>4
  <2> QED BY <2>1, <2>5 DEF JobTypes
<1>4. task \in Expiry /\ astray \in BOOLEAN
  BY DEF Init, Idle, Expiry
<1> QED BY <1>2, <1>3, <1>4, TypesInParts

(* Columns keep their types: no fulfillment line gets a negative quantity, *)
(* and no order line is fulfilled beyond what was ordered, whatever the    *)
(* calls have read before they write (order/actions.py).                   *)
THEOREM TypesAreKept == Spec => []TypeOK
<1>1. Init => TypeOK
  BY InitTypes
<1>2. TypeOK /\ [Next]_vars => TypeOK'
  BY NextKeepsTypes
<1> QED BY <1>1, <1>2, PTL DEF Spec

-----------------------------------------------------------------------------
(* What a call does to the sums, if nothing that it has read changed since.*)
UnitsMoved(r, l) == IF l = job[r].line THEN job[r].amount ELSE 0
Shippable == {"fulfilled", "refunded", "replaced"}

LEMMA MoveEffect ==
  ASSUME TypeOK, NEW r \in Requests, step[r] = "read", job[r].kind \in Movers, ~Stale(r),
         NEW s \in FulfillmentStatus, NEW e \in FulfillmentStatus,
         \/ Move(r, <<Target(job[r], s)>>)
         \/ Move(r, <<Empty(e), Target(job[r], s)>>)
         \/ Move(r, <<Target(job[r], s), Empty(e)>>),
         NEW l \in Lines
  PROVE  /\ \A S : Held(fulfillments', S, l) = Held(fulfillments, S, l)
                     - (IF job[r].from # 0 /\ job[r].was \in S THEN UnitsMoved(r, l) ELSE 0)
                     + (IF s \in S THEN UnitsMoved(r, l) ELSE 0)
         /\ Shipped(fulfillments', l) = Shipped(fulfillments, l)
              - (IF job[r].from # 0 /\ job[r].place = "stock" /\ job[r].was \in Shippable
                 THEN UnitsMoved(r, l) ELSE 0)
              + (IF job[r].place = "stock" /\ s \in Shippable THEN UnitsMoved(r, l) ELSE 0)
         /\ fulfilled'[l] = fulfilled[l] + (IF job[r].from = 0 THEN UnitsMoved(r, l) ELSE 0)
         /\ UnitsMoved(r, l) \in Nat
<1> DEFINE j == job[r]  u == UnitsMoved(r, l)
           x == Target(j, s)  y == Empty(e)
           less == IF j.from # 0 /\ l = j.line THEN j.amount ELSE 0
<1>1. /\ fulfillments \in Seq(Fulfillment) /\ j \in Job /\ Validated(j) /\ fulfilled \in [Lines -> Int]
      /\ Shipped(fulfillments, l) \in Nat /\ \A S : Held(fulfillments, S, l) \in Nat
  BY HeldIsTally DEF TypeOK
<1>2. j.line \in Lines /\ j.line # "none" /\ j.amount \in Nat /\ u \in Nat
      /\ less = IF j.from # 0 THEN u ELSE 0
  BY <1>1, QuantityTypes DEF Job, Validated, UnitsMoved
<1>3. /\ x \in Fulfillment /\ y \in Fulfillment
      /\ StockOf(l)[x] = IF j.place = "stock" /\ s \in Shippable THEN u ELSE 0
      /\ StockOf(l)[y] = 0
      /\ \A S : /\ UnitsOf(S, l)[x] = IF s \in S THEN u ELSE 0
                /\ UnitsOf(S, l)[y] = 0
  <2>1. /\ x \in Fulfillment /\ x.status = s
        /\ x.units["stock"][l] = IF l = j.line /\ j.place = "stock" THEN j.amount ELSE 0
        /\ UnitsIn(x, l) = u
    BY TargetTypes DEF UnitsMoved
  <2>2. y \in Fulfillment /\ y.status = e /\ y.units["stock"][l] = 0 /\ UnitsIn(y, l) = 0
    BY EmptyTypes
  <2> HIDE DEF x, y
  <2>3. StockOf(l)[x] = IF j.place = "stock" /\ s \in Shippable THEN u ELSE 0
    BY <2>1 DEF StockOf, Shippable, UnitsMoved
  <2>4. StockOf(l)[y] = 0
    BY <2>2 DEF StockOf
  <2>5. ASSUME NEW S PROVE UnitsOf(S, l)[x] = (IF s \in S THEN u ELSE 0) /\ UnitsOf(S, l)[y] = 0
    BY <2>1, <2>2 DEF UnitsOf
  <2> QED BY <2>1, <2>2, <2>3, <2>4, <2>5
<1>4. Taken(j) \in Seq(Fulfillment)
  BY TakenTypes
<1>5. /\ Shipped(Taken(j), l) = Shipped(fulfillments, l)
            - (IF j.place = "stock" /\ j.was \in Shippable THEN less ELSE 0)
      /\ \A S : Held(Taken(j), S, l) = Held(fulfillments, S, l) - (IF j.was \in S THEN less ELSE 0)
  BY TakenMoves DEF Shippable
<1> HIDE DEF x, y, less, u
<1>6. /\ Shipped(fulfillments', l) = Shipped(Taken(j), l)
            + (IF j.place = "stock" /\ s \in Shippable THEN u ELSE 0)
      /\ \A S : Held(fulfillments', S, l) = Held(Taken(j), S, l) + (IF s \in S THEN u ELSE 0)
  <2>0. Shipped(Taken(j), l) \in Nat /\ \A S : Held(Taken(j), S, l) \in Nat
    BY <1>4, HeldIsTally
  <2>1. CASE Move(r, <<x>>)
    <3>1. fulfillments' = Moved(j, <<x>>)
      BY <2>1 DEF Move
    <3>2. /\ Shipped(fulfillments', l) = Shipped(Taken(j), l) + StockOf(l)[x]
          /\ \A S : Held(fulfillments', S, l) = Held(Taken(j), S, l) + UnitsOf(S, l)[x]
      BY <1>3, <1>4, <3>1, MovedOne
    <3> QED BY <1>3, <3>2
  <2>2. CASE Move(r, <<y, x>>)
    <3>1. fulfillments' = Moved(j, <<y, x>>)
      BY <2>2 DEF Move
    <3>2. /\ Shipped(fulfillments', l) = Shipped(Taken(j), l) + StockOf(l)[y] + StockOf(l)[x]
          /\ \A S : Held(fulfillments', S, l) = Held(Taken(j), S, l) + UnitsOf(S, l)[y] + UnitsOf(S, l)[x]
      BY <1>3, <1>4, <3>1, MovedTwo
    <3> QED BY <1>3, <2>0, <3>2
  <2>3. CASE Move(r, <<x, y>>)
    <3>1. fulfillments' = Moved(j, <<x, y>>)
      BY <2>3 DEF Move
    <3>2. /\ Shipped(fulfillments', l) = Shipped(Taken(j), l) + StockOf(l)[x] + StockOf(l)[y]
          /\ \A S : Held(fulfillments', S, l) = Held(Taken(j), S, l) + UnitsOf(S, l)[x] + UnitsOf(S, l)[y]
      BY <1>3, <1>4, <3>1, MovedTwo
    <3> QED BY <1>2, <1>3, <2>0, <3>2
  <2> QED BY <2>1, <2>2, <2>3 DEF x, y
<1>7. fulfilled'[l] = fulfilled[l] + (IF j.from = 0 THEN u ELSE 0)
  <2>1. fulfilled' = IF j.from = 0 THEN [fulfilled EXCEPT ![j.line] = j.copy + j.amount] ELSE fulfilled
    BY DEF Move
  <2>2. j.from = 0 => fulfilled[j.line] = j.copy
    BY <1>2 DEF Stale
  <2>3. j.copy \in Int /\ fulfilled[l] \in Int
    BY <1>1 DEF Job
  <2> QED BY <1>1, <1>2, <2>1, <2>2, <2>3 DEF u, UnitsMoved
<1>8. /\ \A S : Held(fulfillments', S, l) = Held(fulfillments, S, l)
                  - (IF j.from # 0 /\ j.was \in S THEN u ELSE 0) + (IF s \in S THEN u ELSE 0)
      /\ Shipped(fulfillments', l) = Shipped(fulfillments, l)
           - (IF j.from # 0 /\ j.place = "stock" /\ j.was \in Shippable THEN u ELSE 0)
           + (IF j.place = "stock" /\ s \in Shippable THEN u ELSE 0)
  <2>1. ASSUME NEW S
        PROVE  Held(fulfillments', S, l) = Held(fulfillments, S, l)
                 - (IF j.from # 0 /\ j.was \in S THEN u ELSE 0) + (IF s \in S THEN u ELSE 0)
    BY <1>2, <1>5, <1>6
  <2>2. Shipped(fulfillments', l) = Shipped(fulfillments, l)
           - (IF j.from # 0 /\ j.place = "stock" /\ j.was \in Shippable THEN u ELSE 0)
           + (IF j.place = "stock" /\ s \in Shippable THEN u ELSE 0)
    BY <1>2, <1>5, <1>6
  <2> QED BY <2>1, <2>2
<1> QED BY <1>2, <1>7, <1>8 DEF u

LEMMA CreateEffect ==
  ASSUME TypeOK, NEW r \in Requests, CreateFulfillments(r), ~Stale(r), NEW l \in Lines
  PROVE  /\ Held(fulfillments', Live, l) = Held(fulfillments, Live, l) + UnitsMoved(r, l)
         /\ Shipped(fulfillments', l) = Shipped(fulfillments, l) + (IF AutoApprove THEN UnitsMoved(r, l) ELSE 0)
         /\ fulfilled'[l] = fulfilled[l] + UnitsMoved(r, l)
         /\ gone'[l] = gone[l] + (IF AutoApprove THEN UnitsMoved(r, l) ELSE 0)
         /\ UnitsMoved(r, l) \in Nat
<1> DEFINE j == job[r]  u == UnitsMoved(r, l)  s == IF AutoApprove THEN "fulfilled" ELSE "waiting"
           x == Holding(s, "stock", j.line, j.amount)
<1>1. /\ fulfillments \in Seq(Fulfillment) /\ j \in Job /\ Validated(j) /\ fulfilled \in [Lines -> Int]
      /\ gone \in [Lines -> Int] /\ j.kind = "fulfill"
      /\ Shipped(fulfillments, l) \in Nat /\ \A S : Held(fulfillments, S, l) \in Nat
  BY HeldIsTally DEF TypeOK, CreateFulfillments, At
<1>2. j.line \in Lines /\ j.line # "none" /\ j.amount \in Nat /\ j.copy \in Int /\ u \in Nat
      /\ fulfilled[j.line] = j.copy
  <2>1. j.line \in Lines /\ j.line # "none" /\ j.amount \in Nat /\ j.copy \in Int /\ j.from = 0
    BY <1>1, QuantityTypes DEF Job, Validated
  <2> QED BY <2>1 DEF UnitsMoved, Stale
<1>3. s \in Live /\ s \in FulfillmentStatus /\ (s \in {"fulfilled", "refunded", "replaced"} <=> AutoApprove)
  BY DEF Live, FulfillmentStatus
<1> HIDE DEF s
<1>4. /\ x \in Fulfillment /\ x.status = s
      /\ x.units["stock"][l] = u /\ UnitsIn(x, l) = u
  BY <1>2, <1>3, HoldingTypes, PlaceTypes DEF UnitsMoved
<1>5. fulfillments' = Append(fulfillments, x)
  BY DEF CreateFulfillments, s
<1> HIDE DEF x, u
<1>6. /\ Shipped(fulfillments', l) = Shipped(fulfillments, l) + StockOf(l)[x]
      /\ Held(fulfillments', Live, l) = Held(fulfillments, Live, l) + UnitsOf(Live, l)[x]
  BY <1>1, <1>4, <1>5, AppendMoves
<1>7. UnitsOf(Live, l)[x] = u /\ StockOf(l)[x] = IF AutoApprove THEN u ELSE 0
  BY <1>3, <1>4 DEF UnitsOf, StockOf
<1>8. fulfilled'[l] = fulfilled[l] + u
  BY <1>1, <1>2 DEF CreateFulfillments, u, UnitsMoved
<1>9. gone'[l] = gone[l] + (IF AutoApprove THEN u ELSE 0)
  BY <1>1, <1>2 DEF CreateFulfillments, u, UnitsMoved
<1> QED BY <1>2, <1>6, <1>7, <1>8, <1>9 DEF u

(* The fulfillment that an approval or a cancellation is about.            *)
LEMMA TheFulfillment ==
  ASSUME TypeOK, NEW r \in Requests, step[r] = "read",
         job[r].kind \in {"approve", "cancelFulfillment"}, NEW l \in Lines
  PROVE  /\ fulfillments \in Seq(Fulfillment) /\ job[r].from \in 1..Len(fulfillments)
         /\ fulfillments[job[r].from] \in Fulfillment
         /\ job[r].was \notin {"none", "canceled", "closed", "deleted"}
         /\ job[r].kind = "approve" => job[r].was = "waiting"
         /\ ~Stale(r) => fulfillments[job[r].from].status = job[r].was
         /\ fulfilled[l] \in Int /\ gone[l] \in Int
         /\ Shipped(fulfillments, l) \in Nat /\ Held(fulfillments, Live, l) \in Nat
         /\ fulfillments[job[r].from].units["stock"][l] \in Nat
         /\ fulfillments[job[r].from].units["none"][l] \in Nat
         /\ UnitsIn(fulfillments[job[r].from], l) \in Nat
<1>1. /\ fulfillments \in Seq(Fulfillment) /\ job[r] \in Job /\ Validated(job[r])
      /\ job[r].from \in 0..Len(fulfillments) /\ fulfilled[l] \in Int /\ gone[l] \in Int
  BY DEF TypeOK
<1>2. Shipped(fulfillments, l) \in Nat /\ Held(fulfillments, Live, l) \in Nat
  BY <1>1, HeldIsTally
<1>3. /\ job[r].from # 0 /\ job[r].was \notin {"none", "canceled", "closed", "deleted"}
      /\ job[r].kind = "approve" => job[r].was = "waiting"
  BY <1>1 DEF Validated
<1>4. job[r].from \in 1..Len(fulfillments)
  BY <1>1, <1>3, LenProperties
<1>5. fulfillments[job[r].from] \in Fulfillment
  BY <1>1, <1>4, ElementOfSeq
<1>6. ~Stale(r) => fulfillments[job[r].from].status = job[r].was
  BY <1>3 DEF Stale
<1> QED BY <1>1, <1>2, <1>3, <1>4, <1>5, <1>6, FulfillmentTypes

LEMMA ApproveEffect ==
  ASSUME TypeOK, NEW r \in Requests, ApproveFulfillment(r), ~Stale(r), NEW l \in Lines
  PROVE  /\ fulfilled'[l] - fulfilled[l] = Held(fulfillments', Live, l) - Held(fulfillments, Live, l)
         /\ gone'[l] - gone[l] = Shipped(fulfillments', l) - Shipped(fulfillments, l)
<1>1. PICK n : n = job[r].from
  OBVIOUS
<1>2. PICK f : f = fulfillments[n]
  OBVIOUS
<1>3. /\ fulfillments \in Seq(Fulfillment) /\ n \in 1..Len(fulfillments) /\ f \in Fulfillment
      /\ f.status = "waiting" /\ fulfilled[l] \in Int /\ gone[l] \in Int
      /\ Shipped(fulfillments, l) \in Nat /\ Held(fulfillments, Live, l) \in Nat
      /\ f.units["stock"][l] \in Nat /\ UnitsIn(f, l) \in Nat
  <2>1. step[r] = "read" /\ job[r].kind = "approve"
    BY DEF ApproveFulfillment, At
  <2> QED BY <1>1, <1>2, <2>1, TheFulfillment
<1>4. fulfillments' = StatusSet(fulfillments, n, "fulfilled") /\ fulfilled' = fulfilled
  BY <1>1 DEF ApproveFulfillment, StatusSet
<1>5. gone'[l] = gone[l] + f.units["stock"][l]
  BY <1>1, <1>2 DEF ApproveFulfillment, DecreaseStock
<1>6. PICK x : x = WithStatus(f, "fulfilled")
  OBVIOUS
<1>7. /\ x \in Fulfillment /\ x.status = "fulfilled" /\ x.units = f.units
      /\ Shipped(fulfillments', l) = Shipped(fulfillments, l) - StockOf(l)[f] + StockOf(l)[x]
      /\ Held(fulfillments', Live, l) = Held(fulfillments, Live, l) - UnitsOf(Live, l)[f] + UnitsOf(Live, l)[x]
  BY <1>2, <1>3, <1>4, <1>6, StatusMoves, StatusNames
<1>8. StockOf(l)[f] = 0 /\ StockOf(l)[x] = f.units["stock"][l]
  BY <1>3, <1>7 DEF StockOf
<1>9. UnitsOf(Live, l)[f] = UnitsIn(f, l) /\ UnitsOf(Live, l)[x] = UnitsIn(f, l)
  <2>1. "waiting" \in Live /\ "fulfilled" \in Live /\ UnitsIn(x, l) = UnitsIn(f, l)
    BY <1>7 DEF Live, FulfillmentStatus, UnitsIn
  <2> QED BY <1>3, <1>7, <2>1 DEF UnitsOf
<1> QED BY <1>3, <1>4, <1>5, <1>7, <1>8, <1>9

LEMMA CancelWaitingEffect ==
  ASSUME TypeOK, NEW r \in Requests, CancelWaitingFulfillment(r), ~Stale(r), NEW l \in Lines
  PROVE  /\ fulfilled'[l] - fulfilled[l] = Held(fulfillments', Live, l) - Held(fulfillments, Live, l)
         /\ gone'[l] - gone[l] = Shipped(fulfillments', l) - Shipped(fulfillments, l)
<1>1. PICK n : n = job[r].from
  OBVIOUS
<1>2. PICK f : f = fulfillments[n]
  OBVIOUS
<1>3. /\ fulfillments \in Seq(Fulfillment) /\ n \in 1..Len(fulfillments) /\ f \in Fulfillment
      /\ f.status = "waiting" /\ fulfilled[l] \in Int /\ gone[l] \in Int
      /\ Shipped(fulfillments, l) \in Nat /\ Held(fulfillments, Live, l) \in Nat
      /\ UnitsIn(f, l) \in Nat
  <2>1. step[r] = "read" /\ job[r].kind = "cancelFulfillment" /\ job[r].was = "waiting"
    BY DEF CancelWaitingFulfillment, At
  <2> QED BY <1>1, <1>2, <2>1, TheFulfillment
<1>4. PICK x : x = Empty("deleted")
  OBVIOUS
<1>5. x \in Fulfillment /\ x.status = "deleted"
  BY <1>4, EmptyTypes, StatusNames
<1>6. fulfillments' = [fulfillments EXCEPT ![n] = x] /\ gone' = gone
      /\ fulfilled'[l] = fulfilled[l] - UnitsIn(f, l)
  BY <1>1, <1>2, <1>4 DEF CancelWaitingFulfillment, Unfulfill
<1>7. /\ Shipped(fulfillments', l) = Shipped(fulfillments, l) - StockOf(l)[f] + StockOf(l)[x]
      /\ Held(fulfillments', Live, l) = Held(fulfillments, Live, l) - UnitsOf(Live, l)[f] + UnitsOf(Live, l)[x]
  <2>1. /\ Shipped([fulfillments EXCEPT ![n] = x], l) = Shipped(fulfillments, l) - StockOf(l)[f] + StockOf(l)[x]
        /\ Held([fulfillments EXCEPT ![n] = x], Live, l) =
             Held(fulfillments, Live, l) - UnitsOf(Live, l)[f] + UnitsOf(Live, l)[x]
    BY <1>2, <1>3, <1>5, ChangeMoves
  <2> QED BY <1>6, <2>1
<1>8. StockOf(l)[f] = 0 /\ StockOf(l)[x] = 0
  BY <1>3, <1>5 DEF StockOf
<1>9. UnitsOf(Live, l)[f] = UnitsIn(f, l) /\ UnitsOf(Live, l)[x] = 0
  BY <1>3, <1>5 DEF UnitsOf, Live, FulfillmentStatus
<1> QED BY <1>3, <1>6, <1>7, <1>8, <1>9

LEMMA CancelEffect ==
  ASSUME TypeOK, NEW r \in Requests, CancelFulfillment(r), ~Stale(r), NEW l \in Lines
  PROVE  /\ fulfilled'[l] - fulfilled[l] = Held(fulfillments', Live, l) - Held(fulfillments, Live, l)
         /\ ~Misplaced(r) => gone'[l] - gone[l] = Shipped(fulfillments', l) - Shipped(fulfillments, l)
<1>1. PICK n : n = job[r].from
  OBVIOUS
<1>2. PICK f : f = fulfillments[n]
  OBVIOUS
<1>0. step[r] = "read" /\ job[r].kind = "cancelFulfillment" /\ job[r].was # "waiting"
  BY DEF CancelFulfillment, At
<1>3. /\ fulfillments \in Seq(Fulfillment) /\ n \in 1..Len(fulfillments) /\ f \in Fulfillment
      /\ f.status = job[r].was /\ fulfilled[l] \in Int /\ gone[l] \in Int
      /\ f.status \notin {"none", "canceled", "closed", "deleted", "waiting"}
      /\ Shipped(fulfillments, l) \in Nat /\ Held(fulfillments, Live, l) \in Nat
      /\ f.units["stock"][l] \in Nat /\ f.units["none"][l] \in Nat /\ UnitsIn(f, l) \in Nat
  BY <1>0, <1>1, <1>2, TheFulfillment
<1>4. fulfillments' = StatusSet(fulfillments, n, "canceled")
      /\ fulfilled'[l] = fulfilled[l] - UnitsIn(f, l) /\ gone'[l] = gone[l] - UnitsIn(f, l)
  BY <1>1, <1>2 DEF CancelFulfillment, StatusSet, Unfulfill
<1>5. f.status \in FulfillmentStatus
  BY <1>3, FulfillmentTypes
<1>6. PICK x : x = WithStatus(f, "canceled")
  OBVIOUS
<1>7. /\ x \in Fulfillment /\ x.status = "canceled"
      /\ Shipped(fulfillments', l) = Shipped(fulfillments, l) - StockOf(l)[f] + StockOf(l)[x]
      /\ Held(fulfillments', Live, l) = Held(fulfillments, Live, l) - UnitsOf(Live, l)[f] + UnitsOf(Live, l)[x]
  <2>1. "canceled" \in FulfillmentStatus
    BY DEF FulfillmentStatus
  <2> QED BY <1>2, <1>3, <1>4, <1>6, <2>1, StatusMoves
<1>8. UnitsOf(Live, l)[f] = UnitsIn(f, l) /\ UnitsOf(Live, l)[x] = 0 /\ StockOf(l)[x] = 0
  <2>1. f.status \in Live /\ "canceled" \notin Live
    BY <1>3, <1>5 DEF Live
  <2> QED BY <1>3, <1>7, <2>1 DEF UnitsOf, StockOf
<1>9. ~Misplaced(r) => StockOf(l)[f] = UnitsIn(f, l)
  <2>1. HAVE ~Misplaced(r)
  <2>2. f.status \notin {"returned", "refunded_and_returned"} /\ f.units["none"] = NoUnits["none"]
    BY <1>0, <1>1, <1>2, <1>3, <2>1 DEF Misplaced
  <2>3. f.status \in {"fulfilled", "refunded", "replaced"}
    BY <1>3, <1>5, <2>2 DEF FulfillmentStatus
  <2>4. f.units["none"][l] = 0
    BY <2>2, PlaceTypes DEF NoUnits
  <2> QED BY <1>3, <2>3, <2>4 DEF StockOf, UnitsIn
<1> QED BY <1>3, <1>4, <1>7, <1>8, <1>9

LEMMA MoversEffect ==
  ASSUME TypeOK, NEW r \in Requests, ~Stale(r), NEW l \in Lines,
         CreateReturnFulfillment(r) \/ ProcessReplace(r) \/ CreateRefundFulfillment(r)
  PROVE  /\ fulfilled'[l] - fulfilled[l] = Held(fulfillments', Live, l) - Held(fulfillments, Live, l)
         /\ ~Misplaced(r) => gone'[l] - gone[l] = Shipped(fulfillments', l) - Shipped(fulfillments, l)
<1> DEFINE j == job[r]  u == UnitsMoved(r, l)
<1>1. /\ fulfillments \in Seq(Fulfillment) /\ j \in Job /\ j.from \in 0..Len(fulfillments)
      /\ fulfilled[l] \in Int /\ gone \in [Lines -> Int] /\ step[r] = "read" /\ Validated(j)
      /\ j.kind \in Movers
      /\ Shipped(fulfillments, l) \in Nat /\ \A S : Held(fulfillments, S, l) \in Nat
  BY HeldIsTally DEF TypeOK, CreateReturnFulfillment, ProcessReplace, CreateRefundFulfillment, At, Movers
<1>2. j.line \in Lines /\ j.line # "none" /\ j.amount \in Nat
  BY <1>1, QuantityTypes DEF Job, Validated
<1>3. /\ j.from = 0 => j.place = "none" /\ j.was = "none"
      /\ j.from # 0 => j.was \in {"fulfilled", "waiting", "refunded", "returned"} /\ fulfillments[j.from].status = j.was
  BY <1>1, <1>2 DEF Validated, Stale
<1>4. ~Misplaced(r) => (j.from # 0 => j.was \notin {"waiting", "returned"})
  <2>1. j.kind # "cancelFulfillment"
    BY <1>1 DEF Movers
  <2> QED BY <1>3, <2>1 DEF Misplaced
<1>5. ASSUME NEW s \in Live, NEW e \in FulfillmentStatus,
             \/ Move(r, <<Target(j, s)>>)
             \/ Move(r, <<Empty(e), Target(j, s)>>)
             \/ Move(r, <<Target(j, s), Empty(e)>>)
      PROVE  /\ fulfilled'[l] - fulfilled[l] = Held(fulfillments', Live, l) - Held(fulfillments, Live, l)
             /\ Shipped(fulfillments', l) = Shipped(fulfillments, l)
                  - (IF j.from # 0 /\ j.place = "stock" /\ j.was \in Shippable THEN u ELSE 0)
                  + (IF j.place = "stock" /\ s \in Shippable THEN u ELSE 0)
             /\ u \in Nat
  <2>1. s \in FulfillmentStatus
    BY DEF Live
  <2>2. /\ Held(fulfillments', Live, l) = Held(fulfillments, Live, l)
             - (IF j.from # 0 /\ j.was \in Live THEN u ELSE 0) + (IF s \in Live THEN u ELSE 0)
        /\ Shipped(fulfillments', l) = Shipped(fulfillments, l)
             - (IF j.from # 0 /\ j.place = "stock" /\ j.was \in Shippable THEN u ELSE 0)
             + (IF j.place = "stock" /\ s \in Shippable THEN u ELSE 0)
        /\ fulfilled'[l] = fulfilled[l] + (IF j.from = 0 THEN u ELSE 0)
        /\ u \in Nat
    BY <1>1, <1>5, <2>1, MoveEffect
  <2>3. j.from # 0 => j.was \in Live
    BY <1>3 DEF Live, FulfillmentStatus
  <2>4. Held(fulfillments, Live, l) \in Nat
    BY <1>1
  <2> HIDE DEF u, j
  <2>5. fulfilled[l] \in Int /\ s \in Live
    BY <1>1
  <2> QED BY ONLY <2>2, <2>3, <2>4, <2>5
<1>6. {"returned", "refunded_and_returned", "replaced", "refunded"} \subseteq Live
      /\ "returned" \in FulfillmentStatus
      /\ {"returned", "refunded_and_returned"} \cap Shippable = {}
      /\ "replaced" \in Shippable /\ "refunded" \in Shippable /\ "fulfilled" \in Shippable
  BY DEF Live, FulfillmentStatus, Shippable
<1>7. CASE CreateReturnFulfillment(r)
  <2>1. j.kind = "return" /\ (j.from # 0 => j.place = "stock" /\ j.was # "returned")
    BY <1>1, <1>7 DEF CreateReturnFulfillment, At, Validated
  <2>2. PICK s \in {"returned", "refunded_and_returned"} :
          \/ Move(r, <<Target(j, s)>>)
          \/ Move(r, <<Empty("returned"), Target(j, s)>>)
    BY <1>7, ReturnMoves DEF ReturnStatus
  <2>3. /\ fulfilled'[l] - fulfilled[l] = Held(fulfillments', Live, l) - Held(fulfillments, Live, l)
        /\ Shipped(fulfillments', l) = Shipped(fulfillments, l)
             - (IF j.from # 0 /\ j.place = "stock" /\ j.was \in Shippable THEN u ELSE 0)
             + (IF j.place = "stock" /\ s \in Shippable THEN u ELSE 0)
        /\ u \in Nat
    BY <1>5, <1>6, <2>2
  <2>4. gone'[l] = gone[l] - (IF j.from = 0 THEN 0 ELSE u)
    <3>1. gone' = IF j.from = 0 THEN gone ELSE [gone EXCEPT ![j.line] = @ - j.amount]
      BY <1>7 DEF CreateReturnFulfillment
    <3> QED BY <1>1, <1>2, <3>1 DEF UnitsMoved
  <2>5. ~Misplaced(r) => (j.from # 0 => j.place = "stock" /\ j.was \in Shippable)
    BY <1>3, <1>4, <2>1 DEF Shippable
  <2>6. s \notin Shippable /\ gone[l] \in Int
    BY <1>1, <1>6
  <2> HIDE DEF u, j
  <2> QED BY <1>1, <2>3, <2>4, <2>5, <2>6
<1>8. CASE ProcessReplace(r)
  <2>1. j.kind = "replace" /\ j.was # "returned" /\ gone' = gone
    BY <1>1, <1>8 DEF ProcessReplace, At, Validated
  <2>2. Move(r, <<Target(j, "replaced"), Empty("returned")>>)
    BY <1>8 DEF ProcessReplace
  <2>3. /\ fulfilled'[l] - fulfilled[l] = Held(fulfillments', Live, l) - Held(fulfillments, Live, l)
        /\ Shipped(fulfillments', l) = Shipped(fulfillments, l)
             - (IF j.from # 0 /\ j.place = "stock" /\ j.was \in Shippable THEN u ELSE 0)
             + (IF j.place = "stock" /\ "replaced" \in Shippable THEN u ELSE 0)
        /\ u \in Nat
    BY <1>5, <1>6, <2>2
  <2>5. ~Misplaced(r) => (j.from # 0 => j.was \in Shippable)
    BY <1>3, <1>4, <2>1 DEF Shippable
  <2>6. gone[l] \in Int
    BY <1>1
  <2> HIDE DEF u, j
  <2> QED BY <1>1, <1>3, <1>6, <2>1, <2>3, <2>5, <2>6
<1>9. CASE CreateRefundFulfillment(r)
  <2>1. j.kind = "refundProducts" /\ j.was # "refunded" /\ gone' = gone
    BY <1>1, <1>9 DEF CreateRefundFulfillment, At, Validated
  <2>2. Move(r, <<Target(j, "refunded")>>)
    BY <1>9 DEF CreateRefundFulfillment
  <2>3. /\ fulfilled'[l] - fulfilled[l] = Held(fulfillments', Live, l) - Held(fulfillments, Live, l)
        /\ Shipped(fulfillments', l) = Shipped(fulfillments, l)
             - (IF j.from # 0 /\ j.place = "stock" /\ j.was \in Shippable THEN u ELSE 0)
             + (IF j.place = "stock" /\ "refunded" \in Shippable THEN u ELSE 0)
        /\ u \in Nat
    BY <1>5, <1>6, <2>2
  <2>5. ~Misplaced(r) => (j.from # 0 => j.was \in Shippable)
    BY <1>3, <1>4, <2>1 DEF Shippable
  <2>6. gone[l] \in Int
    BY <1>1
  <2> HIDE DEF u, j
  <2> QED BY <1>1, <1>3, <1>6, <2>1, <2>3, <2>5, <2>6
<1> QED BY <1>7, <1>8, <1>9

(* What a step does to the units of one line.                              *)
LinesInStep(l) == fulfilled'[l] - fulfilled[l] = Held(fulfillments', Live, l) - Held(fulfillments, Live, l)
ShelfInStep(l) == gone'[l] - gone[l] = Shipped(fulfillments', l) - Shipped(fulfillments, l)

LEMMA WritersMove ==
  ASSUME TypeOK, NEW r \in Requests,
         \/ CreateFulfillments(r) \/ ApproveFulfillment(r)
         \/ CancelWaitingFulfillment(r) \/ CancelFulfillment(r)
         \/ CreateReturnFulfillment(r) \/ ProcessReplace(r) \/ CreateRefundFulfillment(r)
  PROVE  Moves(r)
<1>1. step[r] = "read"
  BY DEF CreateFulfillments, ApproveFulfillment, CancelWaitingFulfillment, CancelFulfillment,
         CreateReturnFulfillment, ProcessReplace, CreateRefundFulfillment, At
<1>2. step' = [step EXCEPT ![r] = "idle"] \/ step' = [step EXCEPT ![r] = "committed"]
  BY DEF CreateFulfillments, ApproveFulfillment, CancelWaitingFulfillment, CancelFulfillment,
         CreateReturnFulfillment, ProcessReplace, CreateRefundFulfillment, Finish, ThenUpdate
<1>3. step \in [Requests -> Steps]
  BY DEF TypeOK, Steps
<1> QED BY <1>1, <1>2, <1>3 DEF Moves

LEMMA BeginOnlyReads ==
  ASSUME NEW r \in Requests, Begin(r)
  PROVE  UNCHANGED <<status, captured, fulfilled, fulfillments, gone, astray, task>>
<1> DEFINE Same == UNCHANGED <<status, captured, fulfilled, fulfillments, gone, astray, task>>
<1>1. \A j : Ask(r, j) => Same
  BY DEF Ask, order
<1> HIDE DEF Same
<1>2. OrderConfirm(r) \/ OrderCancel(r) => Same
  BY <1>1 DEF OrderConfirm, OrderCancel
<1>3. ASSUME NEW l, NEW q, OrderFulfill(r, l, q) PROVE Same
  BY <1>1, <1>3 DEF OrderFulfill
<1>4. ASSUME NEW n, FulfillmentApprove(r, n) \/ FulfillmentCancel(r, n) PROVE Same
  BY <1>1, <1>4 DEF FulfillmentApprove, FulfillmentCancel
<1>5. ASSUME NEW n, NEW p, NEW l, NEW q, NEW refund, ReturnProducts(r, n, p, l, q, refund) PROVE Same
  BY <1>1, <1>5 DEF ReturnProducts
<1>6. ASSUME NEW n, NEW p, NEW l, NEW q, ReplaceProducts(r, n, p, l, q) PROVE Same
  BY <1>1, <1>6 DEF ReplaceProducts
<1>7. ASSUME NEW n, NEW p, NEW l, NEW q, RefundProducts(r, n, p, l, q) PROVE Same
  BY <1>1, <1>7 DEF RefundProducts
<1>8. ASSUME NEW amount, OrderRefund(r, amount) PROVE Same
  BY <1>1, <1>8 DEF OrderRefund
<1>9. Same
  BY <1>2, <1>3, <1>4, <1>5, <1>6, <1>7, <1>8 DEF Begin
<1> QED BY <1>9 DEF Same

LEMMA UnitsInStep ==
  ASSUME TypeOK, [Next]_vars, NEW l \in Lines
  PROVE  \/ LinesInStep(l) /\ ShelfInStep(l)
         \/ \E r \in Requests : Moves(r) /\ Stale(r)
         \/ LinesInStep(l) /\ \E r \in Requests : Moves(r) /\ job[r].kind # "approve" /\ Misplaced(r)
<1>1. /\ RowTypes /\ fulfillments \in Seq(Fulfillment) /\ fulfilled[l] \in Int /\ gone[l] \in Int
      /\ Shipped(fulfillments, l) \in Nat /\ Held(fulfillments, Live, l) \in Nat
  BY TypesInParts, HeldIsTally DEF RowTypes
<1>2. ASSUME UNCHANGED <<fulfilled, fulfillments, gone>>
      PROVE  LinesInStep(l) /\ ShelfInStep(l)
  BY <1>1, <1>2 DEF LinesInStep, ShelfInStep
<1>3. ASSUME Close, gone' = gone
      PROVE  LinesInStep(l) /\ ShelfInStep(l)
  <2>1. /\ fulfilled'[l] = fulfilled[l] + Rest(l)
        /\ Shipped(fulfillments', l) = Shipped(fulfillments, l)
        /\ Held(fulfillments', Live, l) = Held(fulfillments, Live, l) + (IF "closed" \in Live THEN Rest(l) ELSE 0)
    BY <1>1, <1>3, CloseMoves
  <2>2. "closed" \in Live /\ Rest(l) \in Nat
    BY <1>1, RestTypes DEF Live, FulfillmentStatus
  <2> QED BY <1>1, <1>3, <2>1, <2>2 DEF LinesInStep, ShelfInStep
<1>4. ASSUME NEW r \in Requests, CreateRefunded(r)
      PROVE  LinesInStep(l) /\ ShelfInStep(l)
  <2>1. PICK x : x = Empty("refunded")
    OBVIOUS
  <2>2. x \in Fulfillment /\ x.units["stock"][l] = 0 /\ UnitsIn(x, l) = 0
    BY <2>1, StatusNames, EmptyTypes
  <2>3. fulfillments' = Append(fulfillments, x) /\ fulfilled' = fulfilled /\ gone' = gone
    BY <1>4, <2>1 DEF CreateRefunded
  <2>4. /\ Shipped(fulfillments', l) = Shipped(fulfillments, l) + StockOf(l)[x]
        /\ Held(fulfillments', Live, l) = Held(fulfillments, Live, l) + UnitsOf(Live, l)[x]
    BY <1>1, <2>2, <2>3, AppendMoves
  <2>5. StockOf(l)[x] = 0 /\ UnitsOf(Live, l)[x] = 0
    BY <2>2 DEF StockOf, UnitsOf
  <2> QED BY <1>1, <2>3, <2>4, <2>5 DEF LinesInStep, ShelfInStep
<1>5. ASSUME NEW r \in Requests, ~Stale(r), CreateFulfillments(r)
      PROVE  LinesInStep(l) /\ ShelfInStep(l)
  BY <1>1, <1>5, CreateEffect DEF LinesInStep, ShelfInStep
<1>6. ASSUME NEW r \in Requests, ~Stale(r), ApproveFulfillment(r) \/ CancelWaitingFulfillment(r)
      PROVE  LinesInStep(l) /\ ShelfInStep(l)
  BY <1>6, ApproveEffect, CancelWaitingEffect DEF LinesInStep, ShelfInStep
<1>7. ASSUME NEW r \in Requests, ~Stale(r),
             CancelFulfillment(r) \/ CreateReturnFulfillment(r) \/ ProcessReplace(r) \/ CreateRefundFulfillment(r)
      PROVE  LinesInStep(l) /\ (ShelfInStep(l) \/ (Misplaced(r) /\ job[r].kind # "approve"))
  <2>1. job[r].kind # "approve"
    BY <1>7 DEF CancelFulfillment, CreateReturnFulfillment, ProcessReplace, CreateRefundFulfillment, At
  <2>2. CASE CancelFulfillment(r)
    BY <1>7, <2>1, <2>2, CancelEffect DEF LinesInStep, ShelfInStep
  <2>3. CASE CreateReturnFulfillment(r) \/ ProcessReplace(r) \/ CreateRefundFulfillment(r)
    BY <1>7, <2>1, <2>3, MoversEffect DEF LinesInStep, ShelfInStep
  <2> QED BY <1>7, <2>2, <2>3
<1>8. ASSUME NEW r \in Requests, Begin(r) PROVE UNCHANGED <<fulfilled, fulfillments, gone>>
  BY <1>8, BeginOnlyReads
<1>9. ASSUME NEW r \in Requests,
             Fail(r) \/ SaveUnconfirmed(r) \/ Pay(r) \/ UpdateOrderStatus(r) \/ GatewayRefund(r)
      PROVE  UNCHANGED <<fulfilled, fulfillments, gone>>
  BY <1>9 DEF Fail, SaveUnconfirmed, Pay, UpdateOrderStatus, GatewayRefund
<1>10. CASE ExpireOrders
  <2>1. UNCHANGED <<fulfilled, fulfillments, gone>> \/ (Close /\ gone' = gone)
    BY <1>10 DEF ExpireOrders, SelectUnpaid, ExpireUnpaid, SelectOpen, ExpireOpen, order
  <2> QED BY <1>2, <1>3, <2>1
<1>11. CASE UNCHANGED vars
  BY <1>2, <1>11 DEF vars, order
<1>12. ASSUME NEW r \in Requests, Proceed(r)
       PROVE  \/ LinesInStep(l) /\ ShelfInStep(l)
              \/ Moves(r) /\ Stale(r)
              \/ LinesInStep(l) /\ Moves(r) /\ job[r].kind # "approve" /\ Misplaced(r)
  <2>1. CASE SaveUnconfirmed(r) \/ Pay(r) \/ UpdateOrderStatus(r) \/ GatewayRefund(r)
    BY <1>2, <1>9, <2>1
  <2>2. CASE CancelOrder(r)
    BY <1>3, <2>2 DEF CancelOrder
  <2>3. CASE CreateRefunded(r)
    BY <1>4, <2>3
  <2>4. CASE CreateFulfillments(r) \/ ApproveFulfillment(r) \/ CancelWaitingFulfillment(r)
    BY <1>5, <1>6, <2>4, WritersMove
  <2>5. CASE CancelFulfillment(r) \/ CreateReturnFulfillment(r) \/ ProcessReplace(r) \/ CreateRefundFulfillment(r)
    BY <1>7, <2>5, WritersMove
  <2> QED BY <1>12, <2>1, <2>2, <2>3, <2>4, <2>5 DEF Proceed
<1> QED BY <1>2, <1>8, <1>9, <1>10, <1>11, <1>12 DEF Next

(* quantity_fulfilled of a line moves with the units that its fulfillments *)
(* hold, whatever the calls do in between (order/actions.py): only a step  *)
(* that computes from a row which changed after it was read can part them. *)
THEOREM LinesFollow == Spec => LinesFollowFulfillments
<1>1. ASSUME TypeOK, [Next]_vars, NEW l \in Lines
      PROVE  \/ fulfilled'[l] - fulfilled[l] = Held(fulfillments', Live, l) - Held(fulfillments, Live, l)
             \/ \E r \in Requests : Moves(r) /\ Stale(r)
  BY <1>1, UnitsInStep DEF LinesInStep
<1>2. TypeOK /\ [Next]_vars =>
        [\A l \in Lines :
           \/ fulfilled'[l] - fulfilled[l] = Held(fulfillments', Live, l) - Held(fulfillments, Live, l)
           \/ \E r \in Requests : Moves(r) /\ Stale(r)]_vars
  BY <1>1
<1> QED BY <1>2, TypesAreKept, PTL DEF Spec, LinesFollowFulfillments

(* The shelf loses the units that are shipped and gets those that come     *)
(* back (warehouse/management.py: _decrease_stocks, increase_stock), unless*)
(* a call computes from a stale row or is one of the calls of Misplaced.   *)
THEOREM ShelfFollows == Spec => ShelfFollowsFulfillments
<1>1. ASSUME TypeOK, [Next]_vars, NEW l \in Lines
      PROVE  \/ gone'[l] - gone[l] = Shipped(fulfillments', l) - Shipped(fulfillments, l)
             \/ \E r \in Requests : Moves(r) /\ job[r].kind # "approve" /\ (Stale(r) \/ Misplaced(r))
             \/ \E r \in Requests : Moves(r) /\ job[r].kind = "approve" /\ Stale(r)
  BY <1>1, UnitsInStep DEF ShelfInStep
<1>2. TypeOK /\ [Next]_vars =>
        [\A l \in Lines :
           \/ gone'[l] - gone[l] = Shipped(fulfillments', l) - Shipped(fulfillments, l)
           \/ \E r \in Requests : Moves(r) /\ job[r].kind # "approve" /\ (Stale(r) \/ Misplaced(r))
           \/ \E r \in Requests : Moves(r) /\ job[r].kind = "approve" /\ Stale(r)]_vars
  BY <1>1
<1> QED BY <1>2, TypesAreKept, PTL DEF Spec, ShelfFollowsFulfillments

-----------------------------------------------------------------------------
(* Coins.                                                                  *)
BackStates == {"refunded", "refunded_and_returned", "closed"}

LEMMA HeldTypes ==
  ASSUME NEW fs \in Seq(Fulfillment), NEW S
  PROVE  /\ [l \in Lines |-> Held(fs, S, l)] \in [Lines -> Nat]
         /\ HeldAll(fs, S) \in Nat
<1>1. [l \in Lines |-> Held(fs, S, l)] \in [Lines -> Nat]
  BY HeldIsTally
<1> QED BY <1>1, QuantityTypes, SumIsNat DEF HeldAll

(* The units of a refund are held as refunded once its coins are back.     *)
LEMMA RefundIsHeld ==
  ASSUME TypeOK, TypeOK', NEW r \in Requests, ~Stale(r),
         CreateReturnFulfillment(r) \/ CreateRefundFulfillment(r)
  PROVE  captured - captured' <= IF captured' < captured
                                 THEN PaidBack(fulfillments') - PaidBack(fulfillments) ELSE 0
<1> DEFINE j == job[r]  amount == RefundAmount(job[r])
<1>1. /\ fulfillments \in Seq(Fulfillment) /\ fulfillments' \in Seq(Fulfillment)
      /\ j \in Job /\ step[r] = "read" /\ Validated(j)
      /\ j.kind \in Movers /\ PayBack(amount)
  BY DEF TypeOK, CreateReturnFulfillment, CreateRefundFulfillment, At, Movers
<1>2. /\ captured \in Nat /\ captured' = captured - amount /\ amount \in Nat /\ amount <= j.amount
      /\ ~j.refund \/ j.was = "refunded" => amount = 0
  BY <1>1, RefundTypes
<1>3. j.line \in Lines /\ j.line # "none" /\ j.amount \in Nat
  BY <1>1, QuantityTypes DEF Job, Validated
<1>4. CASE amount = 0
  BY <1>2, <1>4
<1>5. CASE amount # 0
  <2>1. j.refund /\ j.was # "refunded"
    BY <1>2, <1>5
  <2>2. j.from # 0 => j.was \in {"fulfilled", "waiting", "returned"}
    BY <1>1, <1>3, <2>1 DEF Validated
  <2>3. PICK s \in {"refunded", "refunded_and_returned"} : Move(r, <<Target(j, s)>>)
    BY <2>1, ReturnMoves DEF CreateRefundFulfillment, ReturnStatus
  <2>4. s \in FulfillmentStatus /\ s \in BackStates
    BY StatusNames DEF BackStates
  <2>5. j.from # 0 => j.was \notin BackStates
    BY <2>2 DEF BackStates
  <2>6. ASSUME NEW l \in Lines
        PROVE  Held(fulfillments', BackStates, l) = Held(fulfillments, BackStates, l) + UnitsMoved(r, l)
    <3>1. /\ Held(fulfillments', BackStates, l) = Held(fulfillments, BackStates, l)
               - (IF j.from # 0 /\ j.was \in BackStates THEN UnitsMoved(r, l) ELSE 0)
               + (IF s \in BackStates THEN UnitsMoved(r, l) ELSE 0)
          /\ UnitsMoved(r, l) \in Nat
      <4>1. /\ \A S : Held(fulfillments', S, l) = Held(fulfillments, S, l)
                 - (IF job[r].from # 0 /\ job[r].was \in S THEN UnitsMoved(r, l) ELSE 0)
                 + (IF s \in S THEN UnitsMoved(r, l) ELSE 0)
            /\ UnitsMoved(r, l) \in Nat
        <5>1. step[r] = "read" /\ job[r].kind \in Movers /\ Move(r, <<Target(job[r], s)>>)
          BY <1>1, <2>3
        <5>2. s \in FulfillmentStatus
          BY <2>4
        <5> QED
          BY ONLY TypeOK, ~Stale(r), r \in Requests, l \in Lines, <5>1, <5>2, MoveEffect, ZenonT(60)
      <4> QED BY <4>1
    <3>2. Held(fulfillments, BackStates, l) \in Nat
      BY <1>1, HeldIsTally
    <3> QED BY <2>4, <2>5, <3>1, <3>2
  <2> DEFINE f == [l \in Lines |-> Held(fulfillments, BackStates, l)]
             g == [l \in Lines |-> Held(fulfillments', BackStates, l)]
  <2>7. f \in [Lines -> Nat] /\ g \in [Lines -> Nat] /\ HeldAll(fulfillments, BackStates) \in Nat
    BY <1>1, HeldTypes
  <2>8. /\ \A l \in Lines \ {j.line} : f[l] = g[l]
        /\ g[j.line] = f[j.line] + j.amount
    <3>1. \A l \in Lines : f[l] \in Nat
      BY <2>7
    <3> QED BY <1>3, <2>6, <3>1 DEF UnitsMoved
  <2>9. PaidBack(fulfillments) = SumOver(f, Lines) /\ PaidBack(fulfillments') = SumOver(g, Lines)
        /\ SumOver(f, Lines) \in Nat
    BY <2>7 DEF PaidBack, HeldAll, BackStates
  <2>a. f[j.line] \in Nat
    BY <1>3, <2>7
  <2> HIDE DEF f, g, j, amount
  <2>10. SumOver(g, Lines) = SumOver(f, Lines) - f[j.line] + g[j.line]
    BY <1>3, <2>7, <2>8, QuantityTypes, SumOneChanged
  <2> QED BY <1>2, <1>3, <2>8, <2>9, <2>a, <2>10
<1> QED BY <1>4, <1>5

LEMMA ExpiryIsHeld ==
  ASSUME TypeOK, ExpireOrders
  PROVE  captured - captured' <= IF captured' < captured
                                 THEN PaidBack(fulfillments') - PaidBack(fulfillments) ELSE 0
<1>1. RowTypes /\ captured \in Nat /\ fulfillments \in Seq(Fulfillment) /\ Remaining \in Nat
  BY TypesInParts, RestTypes, QuantityTypes DEF RowTypes
<1>2. CASE captured' = captured
  BY <1>1, <1>2
<1>3. CASE Close /\ captured' = captured - Remaining
  <2> DEFINE f == [l \in Lines |-> Held(fulfillments, BackStates, l)]
             d == [l \in Lines |-> Rest(l)]
             h == [l \in Lines |-> Held(fulfillments', BackStates, l)]
  <2>1. fulfillments' \in Seq(Fulfillment)
    BY <1>1, <1>3, CloseMoves
  <2>2. f \in [Lines -> Nat] /\ h \in [Lines -> Nat] /\ d \in [Lines -> Nat]
    BY <1>1, <2>1, HeldTypes, RestTypes
  <2>3. ASSUME NEW l \in Lines PROVE h[l] = f[l] + d[l]
    <3>1. Held(fulfillments', BackStates, l) = Held(fulfillments, BackStates, l)
                                                 + (IF "closed" \in BackStates THEN Rest(l) ELSE 0)
      BY <1>1, <1>3, CloseMoves
    <3> QED BY <3>1 DEF BackStates
  <2>4. PaidBack(fulfillments) = SumOver(f, Lines) /\ PaidBack(fulfillments') = SumOver(h, Lines)
        /\ Remaining = SumOver(d, Lines)
    BY DEF PaidBack, HeldAll, BackStates, Remaining
  <2> HIDE DEF f, d, h
  <2>5. SumOver(h, Lines) = SumOver(f, Lines) + SumOver(d, Lines) /\ SumOver(f, Lines) \in Nat
    BY <2>2, <2>3, QuantityTypes, SumOfTwo, SumIsNat
  <2> QED BY <1>1, <1>3, <2>4, <2>5
<1> QED BY <1>2, <1>3
     DEF ExpireOrders, SelectUnpaid, ExpireUnpaid, SelectOpen, ExpireOpen, order, AmountTotal

(* Coins are paid back for units at most once (_calculate_refund_amount,   *)
(* _expire_orders): what a refund takes from the payment shows up as units *)
(* of a refunded or closed fulfillment.                                    *)
THEOREM CoinsGoBack == Spec => CoinsGoBackOnce
<1>1. ASSUME TypeOK, TypeOK', [Next]_vars
      PROVE  \/ captured - captured' <= IF captured' < captured
                                        THEN PaidBack(fulfillments') - PaidBack(fulfillments) ELSE 0
             \/ \E r \in Requests : Moves(r) /\ (Stale(r) \/ job[r].kind = "orderRefund")
  <2>1. captured \in Nat /\ Price \in Nat /\ captured <= Price /\ step \in [Requests -> Steps]
    <3>1. RowTypes /\ JobTypes
      BY <1>1, TypesInParts
    <3> QED BY <3>1, QuantityTypes DEF RowTypes, JobTypes
  <2>2. ASSUME captured' = captured
        PROVE  captured - captured' <= IF captured' < captured
                                       THEN PaidBack(fulfillments') - PaidBack(fulfillments) ELSE 0
    BY <2>1, <2>2
  <2>3. ASSUME NEW r \in Requests, Begin(r) PROVE captured' = captured
    BY <2>3, BeginOnlyReads
  <2>4. ASSUME NEW r \in Requests,
               \/ Fail(r) \/ SaveUnconfirmed(r) \/ UpdateOrderStatus(r) \/ CreateFulfillments(r)
               \/ ApproveFulfillment(r) \/ CancelWaitingFulfillment(r) \/ CancelFulfillment(r)
               \/ ProcessReplace(r) \/ CancelOrder(r) \/ CreateRefunded(r)
        PROVE  captured' = captured
    BY <2>4 DEF Fail, SaveUnconfirmed, UpdateOrderStatus, CreateFulfillments, ApproveFulfillment,
                CancelWaitingFulfillment, CancelFulfillment, ProcessReplace, CancelOrder, CreateRefunded
  <2>5. ASSUME NEW r \in Requests, Pay(r)
        PROVE  captured - captured' <= IF captured' < captured
                                       THEN PaidBack(fulfillments') - PaidBack(fulfillments) ELSE 0
    BY <2>1, <2>5 DEF Pay
  <2>6. ASSUME NEW r \in Requests, GatewayRefund(r)
        PROVE  Moves(r) /\ job[r].kind = "orderRefund"
    BY <2>1, <2>6 DEF GatewayRefund, At, Moves
  <2>7. ASSUME NEW r \in Requests, CreateReturnFulfillment(r) \/ CreateRefundFulfillment(r)
        PROVE  \/ captured - captured' <= IF captured' < captured
                                          THEN PaidBack(fulfillments') - PaidBack(fulfillments) ELSE 0
               \/ Moves(r) /\ Stale(r)
    BY <1>1, <2>7, RefundIsHeld, WritersMove
  <2>8. ASSUME NEW r \in Requests, Proceed(r)
        PROVE  \/ captured - captured' <= IF captured' < captured
                                          THEN PaidBack(fulfillments') - PaidBack(fulfillments) ELSE 0
               \/ Moves(r) /\ (Stale(r) \/ job[r].kind = "orderRefund")
    BY <2>2, <2>4, <2>5, <2>6, <2>7, <2>8 DEF Proceed
  <2>9. CASE ExpireOrders
    BY <1>1, <2>9, ExpiryIsHeld
  <2>10. CASE UNCHANGED vars
    BY <2>2, <2>10 DEF vars, order
  <2> QED BY <1>1, <2>2, <2>3, <2>4, <2>8, <2>9, <2>10 DEF Next
<1>2. TypeOK /\ TypeOK' /\ [Next]_vars =>
        [\/ captured - captured' <= IF captured' < captured
                                    THEN PaidBack(fulfillments') - PaidBack(fulfillments) ELSE 0
         \/ \E r \in Requests : Moves(r) /\ (Stale(r) \/ job[r].kind = "orderRefund")]_vars
  BY <1>1
<1> QED BY <1>2, TypesAreKept, PTL DEF Spec, CoinsGoBackOnce
-----------------------------------------------------------------------------
(***************************************************************************)
(* The status of an order, when fulfillments do not wait for approval and  *)
(* no products are returned, replaced or refunded.                         *)
(***************************************************************************)

(* Which fulfillments there are then, and which calls.                     *)
PlainFulfillment(x) ==
  /\ x.status \in {"fulfilled", "canceled", "closed", "refunded"}
  /\ x.status = "refunded" => x.units = NoUnits

PlainRows == \A i \in DOMAIN fulfillments : PlainFulfillment(fulfillments[i])

PlainCall(j) == j.kind \in Kinds \ {"approve"} /\ j.was # "waiting"

PlainCalls == \A r \in Requests : step[r] # "idle" => PlainCall(job[r])

(* An update that is still to come, from an order whose status is the one  *)
(* in the column: if that is not right, it will not be right in memory.    *)
Due(r) == step[r] = "committed" /\ job[r].kind # "orderRefund" /\ job[r].memory = status

StatusIsDue ==
  ~astray /\ status \notin {"UNCONFIRMED", "CANCELED", "EXPIRED"} =>
    status = StatusOf(fulfillments, fulfilled, status) \/ \E r \in Requests : Due(r)

(* Nothing is fulfilled or paid before the order is confirmed.             *)
Untouched ==
  ~astray /\ status = "UNCONFIRMED" /\ Ordered > 0 =>
    /\ captured = 0 /\ fulfillments = <<>> /\ \A l \in Lines : fulfilled[l] = 0
    /\ \A r \in Requests : step[r] # "idle" => job[r].kind \in {"confirm", "cancelOrder"}

PlainInvariant == PlainRows /\ PlainCalls /\ StatusIsDue /\ Untouched

(* The status only depends on what is fulfilled of the lines.              *)
PlainStatus(done, old) ==
  IF Ordered = 0 THEN old
  ELSE IF NetSum(done, Lines) <= 0 THEN "UNFULFILLED"
  ELSE IF NetSum(done, Lines) < Ordered THEN "PARTIALLY_FULFILLED"
  ELSE "FULFILLED"

LEMMA HoldsNothing ==
  ASSUME NEW fs, NEW S, \A i \in DOMAIN fs : fs[i].status \notin S
  PROVE  HeldAll(fs, S) = 0
<1>1. ASSUME NEW l \in Lines PROVE Held(fs, S, l) = 0
  <2>1. \A i \in DOMAIN fs : Count(fs, S, l)[i] = 0
    BY DEF Count
  <2> QED BY <2>1, SumZero DEF Held
<1>2. \A l \in Lines : [k \in Lines |-> Held(fs, S, k)][l] = 0
  BY <1>1
<1> QED BY <1>2, SumZero DEF HeldAll

LEMMA StatusIsPlain ==
  ASSUME NEW fs, NEW done \in [Lines -> Int], NEW old,
         \A i \in DOMAIN fs : PlainFulfillment(fs[i])
  PROVE  StatusOf(fs, done, old) = PlainStatus(done, old)
<1>1. HeldAll(fs, {"replaced"}) = 0 /\ HeldAll(fs, {"returned", "refunded_and_returned"}) = 0
  <2>1. \A i \in DOMAIN fs : fs[i].status \notin {"replaced"}
                             /\ fs[i].status \notin {"returned", "refunded_and_returned"}
    BY DEF PlainFulfillment
  <2> QED BY <2>1, HoldsNothing
<1>2. ~\E i \in DOMAIN fs : fs[i].status = "waiting"
  BY DEF PlainFulfillment
<1>3. Ordered \in Nat /\ NetSum(done, Lines) \in Int
  BY QuantityTypes, NetSumIsInt
<1>4. Ordered - 0 = Ordered /\ NetSum(done, Lines) - 0 = NetSum(done, Lines) /\ ~(0 < 0)
  BY <1>3
<1>5. StatusOf(fs, done, old) =
        IF Ordered = 0 THEN old
        ELSE IF NetSum(done, Lines) <= 0 THEN "UNFULFILLED"
        ELSE IF 0 = Ordered THEN "RETURNED"
        ELSE IF NetSum(done, Lines) < Ordered THEN "PARTIALLY_FULFILLED"
        ELSE "FULFILLED"
  BY <1>1, <1>2, <1>4 DEF StatusOf
<1> QED BY <1>3, <1>5 DEF PlainStatus

LEMMA PlainStatusIsWritten ==
  ASSUME NEW done, NEW old
  PROVE  /\ Ordered > 0 => /\ PlainStatus(done, old) \in {"UNFULFILLED", "PARTIALLY_FULFILLED", "FULFILLED"}
                           /\ \A new : PlainStatus(done, new) = PlainStatus(done, old)
         /\ Ordered = 0 => PlainStatus(done, old) = old
         /\ PlainStatus(done, PlainStatus(done, old)) = PlainStatus(done, old)
BY QuantityTypes DEF PlainStatus

(* Which calls begin.                                                      *)
LEMMA PlainBegins ==
  ASSUME TypeOK, Plain, PlainRows, NEW r \in Requests, Begin(r)
  PROVE  \E j : /\ Ask(r, j) /\ PlainCall(j)
                /\ captured = 0 /\ Price > 0 /\ fulfillments = <<>> => j.kind \in {"confirm", "cancelOrder"}
<1> DEFINE Goal(j) == /\ Ask(r, j) /\ PlainCall(j)
                      /\ captured = 0 /\ Price > 0 /\ fulfillments = <<>> => j.kind \in {"confirm", "cancelOrder"}
<1>1. /\ Kinds \cap Movers = {} /\ AutoApprove /\ captured \in 0..Price /\ Price \in Nat
      /\ \A n \in DOMAIN fulfillments : fulfillments[n].status # "waiting"
  BY QuantityTypes DEF Plain, TypeOK, PlainRows, PlainFulfillment
<1>2. \A j : Ask(r, j) => j.kind \in Kinds
  BY DEF Ask
<1>3. ASSUME OrderConfirm(r) PROVE \E j : Goal(j)
  <2> DEFINE j == [NoJob EXCEPT !.kind = "confirm"]
  <2>1. j.kind = "confirm" /\ j.was = "none"
    BY DEF NoJob
  <2>2. Ask(r, j)
    BY <1>3 DEF OrderConfirm
  <2> HIDE DEF j
  <2>3. Goal(j)
    BY <1>2, <2>1, <2>2 DEF PlainCall
  <2> QED BY <2>3
<1>4. ASSUME OrderCancel(r) PROVE \E j : Goal(j)
  <2> DEFINE j == [NoJob EXCEPT !.kind = "cancelOrder"]
  <2>1. j.kind = "cancelOrder" /\ j.was = "none"
    BY DEF NoJob
  <2>2. Ask(r, j)
    BY <1>4 DEF OrderCancel
  <2> HIDE DEF j
  <2>3. Goal(j)
    BY <1>2, <2>1, <2>2 DEF PlainCall
  <2> QED BY <2>3
<1>5. ASSUME NEW l \in Lines, NEW q \in 1..Quantity[l], OrderFulfill(r, l, q)
      PROVE  \E j : Goal(j)
  <2> DEFINE j == [NoJob EXCEPT !.kind = "fulfill", !.line = l, !.amount = q, !.copy = fulfilled[l]]
  <2>1. j.kind = "fulfill" /\ j.was = "none"
    BY DEF NoJob
  <2>2. Ask(r, j) /\ captured = Price
    BY <1>1, <1>5 DEF OrderFulfill, FullyPaid
  <2> HIDE DEF j
  <2>3. Goal(j)
    BY <1>1, <1>2, <2>1, <2>2 DEF PlainCall
  <2> QED BY <2>3
<1>6. ASSUME NEW n \in DOMAIN fulfillments, FulfillmentApprove(r, n) PROVE FALSE
  BY <1>1, <1>6 DEF FulfillmentApprove
<1>7. ASSUME NEW n \in DOMAIN fulfillments, FulfillmentCancel(r, n)
      PROVE  \E j : Goal(j)
  <2> DEFINE j == [NoJob EXCEPT !.kind = "cancelFulfillment", !.from = n, !.was = fulfillments[n].status]
  <2>1. j.kind = "cancelFulfillment" /\ j.was = fulfillments[n].status
    BY DEF NoJob
  <2>2. Ask(r, j)
    BY <1>7 DEF FulfillmentCancel
  <2>3. fulfillments # <<>>
    BY <1>7
  <2> HIDE DEF j
  <2>4. Goal(j)
    BY <1>1, <1>2, <2>1, <2>2, <2>3 DEF PlainCall
  <2> QED BY <2>4
<1>8. ASSUME NEW n \in Sources, NEW p \in Places, NEW l \in Lines, NEW q \in 1..Quantity[l],
             \/ \E refund \in BOOLEAN : ReturnProducts(r, n, p, l, q, refund)
             \/ ReplaceProducts(r, n, p, l, q)
             \/ RefundProducts(r, n, p, l, q)
      PROVE  FALSE
  <2>1. \A kind, refund : MoveJob(kind, n, p, l, q, refund).kind = kind
        /\ [MoveJob(kind, n, p, l, q, refund) EXCEPT !.memory = status].kind = kind
    BY DEF MoveJob, NoJob
  <2>2. \E kind \in Movers, refund \in BOOLEAN :
          \/ Ask(r, MoveJob(kind, n, p, l, q, refund))
          \/ Ask(r, [MoveJob(kind, n, p, l, q, refund) EXCEPT !.memory = status])
    BY <1>8 DEF ReturnProducts, ReplaceProducts, RefundProducts, Movers
  <2>3. PICK kind \in Movers, refund \in BOOLEAN :
          \/ Ask(r, MoveJob(kind, n, p, l, q, refund))
          \/ Ask(r, [MoveJob(kind, n, p, l, q, refund) EXCEPT !.memory = status])
    BY <2>2
  <2>4. kind \in Kinds
    BY <1>2, <2>1, <2>3
  <2> QED BY <1>1, <2>4
<1>9. ASSUME NEW amount \in 1..Price, OrderRefund(r, amount)
      PROVE  \E j : Goal(j)
  <2> DEFINE j == [NoJob EXCEPT !.kind = "orderRefund", !.amount = amount]
  <2>1. j.kind = "orderRefund" /\ j.was = "none"
    BY DEF NoJob
  <2>2. Ask(r, j) /\ captured > 0
    BY <1>9 DEF OrderRefund
  <2> HIDE DEF j
  <2>3. Goal(j)
    BY <1>1, <1>2, <2>1, <2>2 DEF PlainCall
  <2> QED BY <2>3
<1> HIDE DEF Goal
<1>a. \/ OrderConfirm(r) \/ OrderCancel(r)
      \/ \E l \in Lines : \E q \in 1..Quantity[l] : OrderFulfill(r, l, q)
      \/ \E n \in DOMAIN fulfillments : FulfillmentCancel(r, n)
      \/ \E amount \in 1..Price : OrderRefund(r, amount)
  BY <1>6, <1>8 DEF Begin
<1>10. PICK j : Goal(j)
  BY <1>3, <1>4, <1>5, <1>7, <1>9, <1>a
<1>11. /\ Ask(r, j) /\ PlainCall(j)
       /\ captured = 0 /\ Price > 0 /\ fulfillments = <<>> => j.kind \in {"confirm", "cancelOrder"}
  BY <1>10 DEF Goal
<1> QED BY <1>11

(* Which writes there are.                                                 *)
LEMMA PlainProceeds ==
  ASSUME Plain, PlainCalls, NEW r \in Requests, Proceed(r)
  PROVE  \/ SaveUnconfirmed(r) \/ Pay(r) \/ CreateFulfillments(r) \/ UpdateOrderStatus(r)
         \/ CancelFulfillment(r) \/ CancelOrder(r) \/ GatewayRefund(r) \/ CreateRefunded(r)
<1>1. step[r] # "idle" => job[r].kind \notin Movers \cup {"approve"} /\ job[r].was # "waiting"
  BY DEF Plain, PlainCalls, PlainCall
<1>2. ~ApproveFulfillment(r) /\ ~CancelWaitingFulfillment(r)
  BY <1>1 DEF ApproveFulfillment, CancelWaitingFulfillment, At
<1>3. ~CreateReturnFulfillment(r) /\ ~ProcessReplace(r) /\ ~CreateRefundFulfillment(r)
  BY <1>1 DEF CreateReturnFulfillment, ProcessReplace, CreateRefundFulfillment, At, Movers
<1> QED BY <1>2, <1>3 DEF Proceed

(* Plain fulfillments stay plain, and so do the calls.                     *)
LEMMA AppendedIsPlain ==
  ASSUME NEW fs \in Seq(Fulfillment), NEW x \in Fulfillment, PlainFulfillment(x),
         \A i \in DOMAIN fs : PlainFulfillment(fs[i])
  PROVE  \A i \in DOMAIN Append(fs, x) : PlainFulfillment(Append(fs, x)[i])
<1> DEFINE gs == Append(fs, x)
<1>1. DOMAIN fs = 1..Len(fs) /\ Len(fs) \in Nat
  BY LenProperties
<1>2. /\ gs \in Seq(Fulfillment) /\ Len(gs) = Len(fs) + 1 /\ gs[Len(fs) + 1] = x
      /\ \A i \in 1..Len(fs) : gs[i] = fs[i]
  BY AppendProperties
<1>3. DOMAIN gs = 1..(Len(fs) + 1)
  BY <1>2, LenProperties
<1> HIDE DEF gs
<1>4. \A i \in DOMAIN gs : PlainFulfillment(gs[i])
  BY <1>1, <1>2, <1>3
<1> QED BY <1>4 DEF gs

LEMMA CallsStayPlain ==
  ASSUME JobTypes, PlainCalls, NEW r \in Requests,
         \/ Finish(r)
         \/ step[r] # "idle" /\ \E m : ThenUpdate(r, m)
         \/ step[r] # "idle" /\ job' = job /\ \E s : step' = [step EXCEPT ![r] = s]
         \/ \E j : Ask(r, j) /\ PlainCall(j)
         \/ UNCHANGED <<step, job>>
  PROVE  PlainCalls'
<1>1. step \in [Requests -> Steps] /\ job \in [Requests -> Job]
  BY DEF JobTypes
<1>2. CASE Finish(r)
  BY <1>1, <1>2 DEF Finish, PlainCalls, PlainCall
<1>3. CASE step[r] # "idle" /\ \E m : ThenUpdate(r, m)
  <2>1. PICK m : ThenUpdate(r, m)
    BY <1>3
  <2>2. PICK j : j = [NoJob EXCEPT !.kind = job[r].kind, !.memory = m]
    OBVIOUS
  <2>3. j.kind = job[r].kind /\ j.was = "none"
    BY <2>2 DEF NoJob
  <2>4. job' = [job EXCEPT ![r] = j] /\ step' = [step EXCEPT ![r] = "committed"]
    BY <2>1, <2>2 DEF ThenUpdate
  <2> QED BY <1>1, <1>3, <2>3, <2>4 DEF PlainCalls, PlainCall
<1>4. CASE step[r] # "idle" /\ job' = job /\ \E s : step' = [step EXCEPT ![r] = s]
  BY <1>1, <1>4 DEF PlainCalls, PlainCall
<1>5. CASE \E j : Ask(r, j) /\ PlainCall(j)
  BY <1>1, <1>5 DEF Ask, PlainCalls, PlainCall
<1>6. CASE UNCHANGED <<step, job>>
  BY <1>6 DEF PlainCalls, PlainCall
<1> QED BY <1>2, <1>3, <1>4, <1>5, <1>6

LEMMA RowsStayPlain ==
  ASSUME TypeOK, Plain, PlainRows, PlainCalls, [Next]_vars
  PROVE  PlainRows' /\ PlainCalls'
<1>1. /\ RowTypes /\ JobTypes /\ AutoApprove /\ fulfillments \in Seq(Fulfillment)
      /\ Len(fulfillments) \in Nat
  BY TypesInParts, LenProperties DEF RowTypes, Plain
<1>2. fulfillments' = fulfillments => PlainRows'
  BY DEF PlainRows
<1>3. ASSUME NEW x \in Fulfillment, PlainFulfillment(x), fulfillments' = Append(fulfillments, x)
      PROVE  PlainRows'
  BY <1>1, <1>3, AppendedIsPlain DEF PlainRows
<1>4. Close => PlainRows'
  <2> SUFFICES ASSUME Close PROVE PlainRows'
    OBVIOUS
  <2>1. Closing \in Fulfillment /\ PlainFulfillment(Closing)
    BY <1>1, ClosingTypes DEF PlainFulfillment
  <2>2. fulfillments' = fulfillments \/ fulfillments' = Append(fulfillments, Closing)
    <3>1. fulfillments \o <<>> = fulfillments /\ fulfillments \o <<Closing>> = Append(fulfillments, Closing)
      BY <1>1, <2>1, AddedAtTheEnd
    <3>2. \/ fulfillments' = fulfillments \o <<>>
          \/ fulfillments' = fulfillments \o <<Closing>>
      BY DEF Close, Closing
    <3> QED BY <3>1, <3>2
  <2> QED BY <1>2, <1>3, <2>1, <2>2
<1>5. ASSUME NEW r \in Requests, Begin(r) PROVE PlainRows' /\ PlainCalls'
  BY <1>1, <1>2, <1>5, BeginOnlyReads, PlainBegins, CallsStayPlain
<1>6. ASSUME NEW r \in Requests, SaveUnconfirmed(r) \/ Pay(r) \/ UpdateOrderStatus(r) \/ GatewayRefund(r) \/ Fail(r)
      PROVE  PlainRows' /\ PlainCalls'
  <2>1. PlainRows'
    BY <1>2, <1>6 DEF SaveUnconfirmed, Pay, UpdateOrderStatus, GatewayRefund, Fail
  <2>2. CASE Pay(r) \/ UpdateOrderStatus(r) \/ Fail(r)
    <3>1. Finish(r)
      BY <2>2 DEF Pay, UpdateOrderStatus, Fail
    <3> QED BY <1>1, <2>1, <3>1, CallsStayPlain
  <2>3. CASE SaveUnconfirmed(r) \/ GatewayRefund(r)
    <3>1. step[r] # "idle" /\ job' = job
      BY <2>3 DEF SaveUnconfirmed, GatewayRefund, At
    <3>2. \E s : step' = [step EXCEPT ![r] = s]
      BY <2>3 DEF SaveUnconfirmed, GatewayRefund
    <3> QED BY <1>1, <2>1, <3>1, <3>2, CallsStayPlain
  <2> QED BY <1>6, <2>2, <2>3
<1>7. ASSUME NEW r \in Requests, CreateFulfillments(r) PROVE PlainRows' /\ PlainCalls'
  <2> DEFINE x == Holding("fulfilled", "stock", job[r].line, job[r].amount)
  <2>1. job[r].line \in Lines /\ job[r].amount \in Nat
    BY <1>1, <1>7 DEF CreateFulfillments, At, JobTypes, CallTypes, Validated, Job
  <2>2. x \in Fulfillment /\ PlainFulfillment(x)
    <3>1. "fulfilled" \in FulfillmentStatus /\ "stock" \in Places
      BY StatusNames, PlaceTypes
    <3>2. x \in Fulfillment /\ x.status = "fulfilled"
      BY <2>1, <3>1, HoldingTypes
    <3> QED BY <3>2 DEF PlainFulfillment
  <2>3. fulfillments' = Append(fulfillments, x)
    BY <1>1, <1>7 DEF CreateFulfillments
  <2>4. step[r] # "idle" /\ ThenUpdate(r, status)
    BY <1>1, <1>7 DEF CreateFulfillments, At
  <2> HIDE DEF x
  <2>5. PlainRows'
    BY <1>3, <2>2, <2>3
  <2> QED BY <1>1, <2>4, <2>5, CallsStayPlain
<1>8. ASSUME NEW r \in Requests, CancelFulfillment(r) PROVE PlainRows' /\ PlainCalls'
  <2> DEFINE n == job[r].from
  <2>1. fulfillments' = [fulfillments EXCEPT ![n].status = "canceled"] /\ Finish(r)
    BY <1>8 DEF CancelFulfillment
  <2>2. DOMAIN fulfillments' = DOMAIN fulfillments
    BY <2>1
  <2>3. ASSUME NEW i \in DOMAIN fulfillments PROVE PlainFulfillment(fulfillments'[i])
    <3>1. fulfillments[i] \in Fulfillment /\ PlainFulfillment(fulfillments[i])
      BY <1>1, ElementOfSeq, LenProperties DEF PlainRows
    <3>2. fulfillments'[i] = IF i = n THEN [fulfillments[i] EXCEPT !.status = "canceled"] ELSE fulfillments[i]
      BY <2>1
    <3>3. [fulfillments[i] EXCEPT !.status = "canceled"].status = "canceled"
      BY <3>1 DEF Fulfillment
    <3> QED BY <3>1, <3>2, <3>3 DEF PlainFulfillment
  <2> QED BY <1>1, <2>1, <2>2, <2>3, CallsStayPlain DEF PlainRows
<1>9. ASSUME NEW r \in Requests, CancelOrder(r) PROVE PlainRows' /\ PlainCalls'
  BY <1>1, <1>4, <1>9, CallsStayPlain DEF CancelOrder
<1>10. ASSUME NEW r \in Requests, CreateRefunded(r) PROVE PlainRows' /\ PlainCalls'
  <2>1. Empty("refunded") \in Fulfillment /\ PlainFulfillment(Empty("refunded"))
    BY EmptyTypes, StatusNames DEF PlainFulfillment
  <2> QED BY <1>1, <1>3, <1>10, <2>1, CallsStayPlain DEF CreateRefunded
<1>11. CASE ExpireOrders
  <2>1. UNCHANGED <<step, job>> /\ (Close \/ fulfillments' = fulfillments)
    BY <1>11 DEF ExpireOrders, SelectUnpaid, ExpireUnpaid, SelectOpen, ExpireOpen, order, requests
  <2> QED BY <1>2, <1>4, <2>1 DEF PlainCalls, PlainCall
<1>12. CASE UNCHANGED vars
  BY <1>2, <1>12 DEF vars, order, requests, PlainCalls, PlainCall
<1> QED BY <1>5, <1>6, <1>7, <1>8, <1>9, <1>10, <1>11, <1>12, PlainProceeds DEF Next

(* What a step does to the status, to what it is computed from, and to the *)
(* updates that are still to come.                                         *)
LEMMA WritersOfStatus ==
  ASSUME TypeOK, Plain, PlainRows, PlainCalls, [Next]_vars
  PROVE  \/ /\ UNCHANGED <<status, fulfilled>>
            /\ astray' \/ (~astray /\ \A r \in Requests : Due(r) => Due(r)')
         \/ \E r \in Requests :
              \/ SaveUnconfirmed(r) \/ Pay(r) \/ CreateFulfillments(r) \/ UpdateOrderStatus(r)
              \/ CancelFulfillment(r) \/ CancelOrder(r)
         \/ status' = "EXPIRED"
<1> DEFINE Stays == /\ UNCHANGED <<status, fulfilled>>
                    /\ astray' \/ (~astray /\ \A r \in Requests : Due(r) => Due(r)')
<1>1. astray \in BOOLEAN /\ step \in [Requests -> Steps] /\ job \in [Requests -> Job]
  BY TypesInParts DEF JobTypes
<1>2. ASSUME UNCHANGED <<status, fulfilled, astray, step, job>> PROVE Stays
  BY <1>1, <1>2 DEF Due
<1>3. ASSUME NEW r \in Requests, Begin(r) PROVE Stays
  <2>1. UNCHANGED <<status, fulfilled, astray>>
    BY <1>3, BeginOnlyReads
  <2>2. PICK j : Ask(r, j)
    BY <1>3, PlainBegins
  <2>3. step[r] = "idle" /\ \A u \in Requests \ {r} : step'[u] = step[u] /\ job'[u] = job[u]
    BY <1>1, <2>2 DEF Ask
  <2>4. \A u \in Requests : Due(u) => Due(u)'
    BY <2>1, <2>3 DEF Due
  <2> QED BY <1>1, <2>1, <2>4
<1>4. ASSUME NEW r \in Requests, GatewayRefund(r) \/ CreateRefunded(r) PROVE Stays
  <2>1. UNCHANGED <<status, fulfilled, astray>> /\ job[r].kind = "orderRefund"
    BY <1>4 DEF GatewayRefund, CreateRefunded, At
  <2>2. \A u \in Requests \ {r} : step'[u] = step[u] /\ job'[u] = job[u]
    BY <1>1, <1>4 DEF GatewayRefund, CreateRefunded, Finish
  <2>3. \A u \in Requests : Due(u) => Due(u)'
    BY <2>1, <2>2 DEF Due
  <2> QED BY <1>1, <2>1, <2>3
<1>5. ASSUME NEW r \in Requests, Fail(r) PROVE Stays
  <2>1. UNCHANGED <<status, fulfilled>>
        /\ astray' = (astray \/ (step[r] = "committed" /\ job[r].kind # "orderRefund"))
    BY <1>5 DEF Fail
  <2>2. \A u \in Requests \ {r} : step'[u] = step[u] /\ job'[u] = job[u]
    BY <1>1, <1>5 DEF Fail, Finish
  <2>3. ~astray' => \A u \in Requests : Due(u) => Due(u)'
    BY <2>1, <2>2 DEF Due
  <2> QED BY <1>1, <2>1, <2>3
<1>6. ASSUME ExpireOrders PROVE Stays \/ status' = "EXPIRED"
  <2>1. UNCHANGED <<astray, step, job>> /\ (status' = "EXPIRED" \/ UNCHANGED <<status, fulfilled>>)
    BY <1>6 DEF ExpireOrders, SelectUnpaid, ExpireUnpaid, SelectOpen, ExpireOpen, order, requests
  <2> QED BY <1>2, <2>1
<1>7. ASSUME UNCHANGED vars PROVE Stays
  BY <1>2, <1>7 DEF vars, order, requests
<1> HIDE DEF Stays
<1>8. \/ Stays
      \/ \E r \in Requests :
           \/ SaveUnconfirmed(r) \/ Pay(r) \/ CreateFulfillments(r) \/ UpdateOrderStatus(r)
           \/ CancelFulfillment(r) \/ CancelOrder(r)
      \/ status' = "EXPIRED"
  BY <1>3, <1>4, <1>5, <1>6, <1>7, PlainProceeds DEF Next
<1> QED BY <1>8 DEF Stays

LEMMA StatusStaysDue ==
  ASSUME TypeOK, TypeOK', Plain, PlainRows, PlainRows', PlainCalls, StatusIsDue, Untouched, [Next]_vars
  PROVE  StatusIsDue'
<1> DEFINE Known == {"UNCONFIRMED", "CANCELED", "EXPIRED"}
<1>1. /\ astray \in BOOLEAN /\ step \in [Requests -> Steps] /\ job \in [Requests -> Job]
      /\ fulfilled \in [Lines -> Int] /\ fulfilled' \in [Lines -> Int] /\ Ordered \in Nat
  BY TypesInParts, QuantityTypes DEF JobTypes, RowTypes
<1>2. /\ \A old : StatusOf(fulfillments, fulfilled, old) = PlainStatus(fulfilled, old)
      /\ \A old : StatusOf(fulfillments', fulfilled', old) = PlainStatus(fulfilled', old)
  BY <1>1, StatusIsPlain DEF PlainRows
<1>3. SUFFICES ASSUME ~astray', status' \notin Known
      PROVE  status' = PlainStatus(fulfilled', status') \/ \E r \in Requests : Due(r)'
  BY <1>2 DEF StatusIsDue
<1>4. ~astray /\ status \notin Known
      => status = PlainStatus(fulfilled, status) \/ \E r \in Requests : Due(r)
  BY <1>2 DEF StatusIsDue
<1>5. CASE /\ UNCHANGED <<status, fulfilled>>
           /\ astray' \/ (~astray /\ \A r \in Requests : Due(r) => Due(r)')
  BY <1>3, <1>4, <1>5
<1>6. ASSUME NEW r \in Requests, SaveUnconfirmed(r) \/ CancelOrder(r)
      PROVE  FALSE
  BY <1>3, <1>6 DEF SaveUnconfirmed, CancelOrder
<1>7. ASSUME NEW r \in Requests, Pay(r)
      PROVE  status' = PlainStatus(fulfilled', status')
  <2>1. status' = "UNFULFILLED" /\ fulfilled' = fulfilled /\ ~astray /\ status = "UNCONFIRMED"
    BY <1>1, <1>3, <1>7 DEF Pay
  <2>2. CASE Ordered = 0
    BY <2>1, <2>2 DEF PlainStatus
  <2>3. CASE Ordered # 0
    <3>1. \A l \in Lines : fulfilled[l] = 0
      BY <1>1, <2>1, <2>3 DEF Untouched
    <3>2. NetSum(fulfilled, Lines) = 0
      BY <3>1, NetSumZero
    <3> QED BY <2>1, <2>3, <3>2 DEF PlainStatus
  <2> QED BY <2>2, <2>3
<1>8. ASSUME NEW r \in Requests, CreateFulfillments(r)
      PROVE  Due(r)'
  <2>1. job[r].kind = "fulfill" /\ ThenUpdate(r, status) /\ status' = status
    BY <1>8 DEF CreateFulfillments, Plain, At
  <2>2. PICK j : j = [NoJob EXCEPT !.kind = job[r].kind, !.memory = status]
    OBVIOUS
  <2>3. j.kind = "fulfill" /\ j.memory = status
    BY <2>1, <2>2 DEF NoJob
  <2>4. step'[r] = "committed" /\ job'[r] = j
    BY <1>1, <2>1, <2>2 DEF ThenUpdate
  <2> QED BY <2>1, <2>3, <2>4 DEF Due
<1>9. ASSUME NEW r \in Requests, UpdateOrderStatus(r)
      PROVE  status' = PlainStatus(fulfilled', status') \/ \E u \in Requests : Due(u)'
  <2> DEFINE m == job[r].memory
  <2>1. /\ step[r] = "committed" /\ fulfilled' = fulfilled
        /\ astray' = (astray /\ PlainStatus(fulfilled, m) = m)
        /\ status' = IF PlainStatus(fulfilled, m) # m THEN PlainStatus(fulfilled, m) ELSE status
    BY <1>2, <1>9 DEF UpdateOrderStatus, Updated, Differs
  <2>2. CASE PlainStatus(fulfilled, m) # m
    BY <2>1, <2>2, PlainStatusIsWritten
  <2>3. CASE PlainStatus(fulfilled, m) = m
    <3>1. status' = status /\ ~astray
      BY <1>1, <1>3, <2>1, <2>3
    <3>2. CASE status = PlainStatus(fulfilled, status)
      BY <2>1, <3>1, <3>2
    <3>3. ASSUME NEW u \in Requests, Due(u)
          PROVE  status = PlainStatus(fulfilled, status) \/ Due(u)'
      <4>1. CASE u = r
        BY <2>3, <3>3, <4>1 DEF Due
      <4>2. CASE u # r
        <5>1. step'[u] = step[u] /\ job'[u] = job[u]
          BY <1>1, <1>9, <4>2 DEF UpdateOrderStatus, Finish
        <5> QED BY <3>1, <3>3, <5>1 DEF Due
      <4> QED BY <4>1, <4>2
    <3> QED BY <1>3, <1>4, <2>1, <3>1, <3>2, <3>3
  <2> QED BY <2>2, <2>3
<1>10. ASSUME NEW r \in Requests, CancelFulfillment(r)
       PROVE  status' = PlainStatus(fulfilled', status')
  <2>1. status' = PlainStatus(fulfilled', status)
    BY <1>2, <1>10 DEF CancelFulfillment
  <2> QED BY <2>1, PlainStatusIsWritten
<1>11. status' # "EXPIRED"
  BY <1>3
<1> QED BY <1>5, <1>6, <1>7, <1>8, <1>9, <1>10, <1>11, WritersOfStatus

LEMMA UntouchedStays ==
  ASSUME TypeOK, TypeOK', Plain, PlainRows, PlainRows', PlainCalls, Untouched, [Next]_vars
  PROVE  Untouched'
<1>1. /\ astray \in BOOLEAN /\ step \in [Requests -> Steps] /\ job \in [Requests -> Job]
      /\ fulfilled \in [Lines -> Int] /\ fulfilled' \in [Lines -> Int]
      /\ Ordered \in Nat /\ Price \in Nat /\ Price = Ordered + Shipping /\ Shipping \in Nat
  BY OrderModel, TypesInParts, QuantityTypes DEF JobTypes, RowTypes, Price
<1>2. SUFFICES ASSUME ~astray', status' = "UNCONFIRMED", Ordered > 0
      PROVE  /\ captured' = 0 /\ fulfillments' = <<>> /\ \A l \in Lines : fulfilled'[l] = 0
             /\ \A r \in Requests : step'[r] # "idle" => job'[r].kind \in {"confirm", "cancelOrder"}
  BY DEF Untouched
<1> DEFINE Fresh == /\ captured = 0 /\ fulfillments = <<>> /\ \A l \in Lines : fulfilled[l] = 0
                    /\ \A r \in Requests : step[r] # "idle" => job[r].kind \in {"confirm", "cancelOrder"}
           Same == UNCHANGED <<captured, fulfillments, fulfilled>>
           CallsOf(r) == \A u \in Requests \ {r} : step'[u] = step[u] /\ job'[u] = job[u]
           Confirms(r) == step'[r] # "idle" => job'[r].kind \in {"confirm", "cancelOrder"}
<1>3. ~astray /\ status = "UNCONFIRMED" => Fresh
  BY <1>2 DEF Untouched
<1>4. ASSUME NEW r \in Requests, Begin(r)
      PROVE  Fresh /\ Same /\ CallsOf(r) /\ Confirms(r)
  <2>1. Same /\ UNCHANGED <<status, astray>>
    BY <1>4, BeginOnlyReads
  <2>2. Fresh /\ Price > 0
    BY <1>1, <1>2, <1>3, <2>1
  <2>3. PICK j : Ask(r, j) /\ j.kind \in {"confirm", "cancelOrder"}
    BY <1>4, <2>2, PlainBegins
  <2>4. CallsOf(r) /\ job'[r] = j
    BY <1>1, <2>3 DEF Ask
  <2> QED BY <2>1, <2>2, <2>3, <2>4
<1>5. ASSUME NEW r \in Requests, SaveUnconfirmed(r)
      PROVE  Fresh /\ Same /\ CallsOf(r) /\ Confirms(r)
  <2>1. Same /\ job' = job /\ At(r, "confirm", "read") /\ astray' = (astray \/ status # "UNCONFIRMED")
    BY <1>5 DEF SaveUnconfirmed
  <2>2. CallsOf(r)
    BY <1>1, <1>5, <2>1 DEF SaveUnconfirmed
  <2>3. Fresh
    BY <1>1, <1>2, <1>3, <2>1
  <2> QED BY <2>1, <2>2, <2>3 DEF At
<1>6. ASSUME NEW r \in Requests, UpdateOrderStatus(r)
      PROVE  Fresh /\ Same /\ CallsOf(r) /\ Confirms(r)
  <2>1. Same /\ Finish(r) /\ astray' = (astray /\ ~Differs(job[r].memory))
        /\ status' = Updated(job[r].memory)
    BY <1>6 DEF UpdateOrderStatus
  <2>2. StatusOf(fulfillments, fulfilled, job[r].memory) # "UNCONFIRMED" \/ ~Differs(job[r].memory)
    <3>1. StatusOf(fulfillments, fulfilled, job[r].memory) = PlainStatus(fulfilled, job[r].memory)
      BY <1>1, StatusIsPlain DEF PlainRows
    <3> QED BY <1>2, <3>1, PlainStatusIsWritten
  <2>3. ~Differs(job[r].memory)
    BY <1>2, <2>1, <2>2 DEF Updated
  <2>4. status' = status /\ ~astray
    BY <1>1, <1>2, <2>1, <2>3 DEF Updated
  <2>5. Fresh
    BY <1>2, <1>3, <2>4
  <2>6. CallsOf(r) /\ step'[r] = "idle"
    BY <1>1, <2>1 DEF Finish
  <2> QED BY <2>1, <2>5, <2>6
<1>7. ASSUME NEW r \in Requests, Fail(r)
      PROVE  Fresh /\ Same /\ CallsOf(r) /\ Confirms(r)
  <2>1. Same /\ Finish(r) /\ status' = status
        /\ astray' = (astray \/ (step[r] = "committed" /\ job[r].kind # "orderRefund"))
    BY <1>7 DEF Fail
  <2>2. CallsOf(r) /\ step'[r] = "idle"
    BY <1>1, <2>1 DEF Finish
  <2>3. Fresh
    BY <1>1, <1>2, <1>3, <2>1
  <2> QED BY <2>1, <2>2, <2>3
<1>8. ASSUME NEW r \in Requests, CancelFulfillment(r)
      PROVE  FALSE
  <2>1. status' = StatusOf(fulfillments', fulfilled', status)
    BY <1>8 DEF CancelFulfillment
  <2>2. StatusOf(fulfillments', fulfilled', status) = PlainStatus(fulfilled', status)
    BY <1>1, StatusIsPlain DEF PlainRows
  <2> QED BY <1>2, <2>1, <2>2, PlainStatusIsWritten
<1>9. ASSUME NEW r \in Requests, Pay(r) \/ CancelOrder(r)
      PROVE  FALSE
  BY <1>2, <1>9 DEF Pay, CancelOrder
<1>10. ASSUME NEW r \in Requests, CreateFulfillments(r) \/ GatewayRefund(r) \/ CreateRefunded(r)
       PROVE  FALSE
  <2>1. /\ astray' = astray /\ status' = status /\ step[r] # "idle"
        /\ job[r].kind \in {"fulfill", "orderRefund"}
    BY <1>10 DEF CreateFulfillments, GatewayRefund, CreateRefunded, At
  <2> QED BY <1>2, <1>3, <2>1
<1>11. ASSUME ExpireOrders \/ UNCHANGED vars
       PROVE  Fresh /\ Same /\ UNCHANGED <<step, job>>
  <2>1. UNCHANGED <<astray, step, job>> /\ (status' = "EXPIRED" \/ (Same /\ status' = status))
    BY <1>11 DEF ExpireOrders, SelectUnpaid, ExpireUnpaid, SelectOpen, ExpireOpen, order, requests, vars
  <2> QED BY <1>2, <1>3, <2>1
<1>12. (Fresh /\ Same /\ UNCHANGED <<step, job>>)
       \/ \E r \in Requests : Fresh /\ Same /\ CallsOf(r) /\ Confirms(r)
  BY <1>4, <1>5, <1>6, <1>7, <1>8, <1>9, <1>10, <1>11, PlainProceeds DEF Next
<1> QED BY <1>12

LEMMA PlainInit ==
  ASSUME Init, TypeOK
  PROVE  PlainInvariant
<1>1. /\ fulfillments = <<>> /\ fulfilled = [l \in Lines |-> 0] /\ fulfilled \in [Lines -> Int]
      /\ \A r \in Requests : step[r] = "idle"
  BY DEF Init
<1>2. PlainRows /\ PlainCalls
  BY <1>1 DEF PlainRows, PlainCalls
<1>3. Untouched
  BY <1>1 DEF Init, Untouched
<1>4. StatusIsDue
  <2>1. CASE status = "UNCONFIRMED"
    BY <2>1 DEF StatusIsDue
  <2>2. CASE status = "UNFULFILLED"
    <3>1. NetSum(fulfilled, Lines) = 0
      BY <1>1, NetSumZero
    <3>2. StatusOf(fulfillments, fulfilled, status) = PlainStatus(fulfilled, status)
      BY <1>1, <1>2, StatusIsPlain DEF PlainRows
    <3> QED BY <2>2, <3>1, <3>2 DEF PlainStatus, StatusIsDue
  <2> QED BY <2>1, <2>2 DEF Init
<1> QED BY <1>2, <1>3, <1>4 DEF PlainInvariant

LEMMA PlainOrders == Spec => [](TypeOK /\ (Plain => PlainInvariant))
<1> DEFINE Inv == TypeOK /\ (Plain => PlainInvariant)
<1>1. Init => Inv
  BY InitTypes, PlainInit
<1>2. Inv /\ [Next]_vars => Inv'
  <2> SUFFICES ASSUME Inv, [Next]_vars PROVE Inv'
    OBVIOUS
  <2>1. TypeOK'
    BY NextKeepsTypes
  <2>2. CASE Plain
    <3>1. PlainRows' /\ PlainCalls'
      BY <2>2, RowsStayPlain DEF PlainInvariant
    <3>2. StatusIsDue'
      BY <2>1, <2>2, <3>1, StatusStaysDue DEF PlainInvariant
    <3>3. Untouched'
      BY <2>1, <2>2, <3>1, UntouchedStays DEF PlainInvariant
    <3> QED BY <2>1, <3>1, <3>2, <3>3 DEF PlainInvariant
  <2> QED BY <2>1, <2>2 DEF Plain
<1> QED BY <1>1, <1>2, PTL DEF Spec

(* At rest an order has the status that its fulfillments call for          *)
(* (order/utils.py: update_order_status), although updates that follow     *)
(* on_commit use orders in memory and others change the order in between.  *)
THEOREM StatusFollows == Spec => []StatusFollowsLines
<1>1. TypeOK /\ (Plain => PlainInvariant) => StatusFollowsLines
  <2>1. \A r \in Requests : step[r] = "idle" => ~Due(r)
    BY DEF Due
  <2> QED BY <2>1 DEF StatusFollowsLines, PlainInvariant, StatusIsDue
<1> QED BY <1>1, PlainOrders, PTL

(* What the fulfillments hold is delivered, or was closed with the order.  *)
LEMMA LiveIsDelivered ==
  ASSUME fulfillments \in Seq(Fulfillment), PlainRows
  PROVE  \A l \in Lines : Held(fulfillments, Live, l) =
           Held(fulfillments, {"fulfilled"}, l) + Held(fulfillments, {"closed"}, l)
<1> SUFFICES ASSUME NEW l \in Lines
             PROVE  Held(fulfillments, Live, l) =
                      Held(fulfillments, {"fulfilled"}, l) + Held(fulfillments, {"closed"}, l)
  OBVIOUS
<1> DEFINE D == DOMAIN fulfillments
           live == Count(fulfillments, Live, l)
           done == Count(fulfillments, {"fulfilled"}, l)
           closed == Count(fulfillments, {"closed"}, l)
<1>1. D = 1..Len(fulfillments) /\ Len(fulfillments) \in Nat /\ \A i \in D : fulfillments[i] \in Fulfillment
  BY LenProperties, ElementOfSeq
<1>2. IsFiniteSet(D)
  BY <1>1, FS_Interval
<1>3. \A i \in D : UnitsIn(fulfillments[i], l) \in Nat
  BY <1>1, FulfillmentTypes
<1>4. live \in [D -> Nat] /\ done \in [D -> Nat] /\ closed \in [D -> Nat]
  BY <1>3 DEF Count
<1>5. ASSUME NEW i \in D PROVE live[i] = done[i] + closed[i]
  <2>1. PlainFulfillment(fulfillments[i])
    BY DEF PlainRows
  <2>2. fulfillments[i].status = "refunded" => UnitsIn(fulfillments[i], l) = 0
    BY <2>1, PlaceTypes DEF PlainFulfillment, NoUnits, UnitsIn
  <2>3. {"fulfilled", "closed", "refunded"} \subseteq Live /\ "canceled" \notin Live
    BY DEF Live, FulfillmentStatus
  <2> QED BY <1>3, <2>1, <2>2, <2>3 DEF Count, PlainFulfillment
<1>7. /\ Held(fulfillments, Live, l) = SumOver(live, D)
      /\ Held(fulfillments, {"fulfilled"}, l) = SumOver(done, D)
      /\ Held(fulfillments, {"closed"}, l) = SumOver(closed, D)
  BY DEF Held
<1> HIDE DEF live, done, closed
<1>6. SumOver(live, D) = SumOver(done, D) + SumOver(closed, D)
  BY ONLY <1>2, <1>4, <1>5, SumOfTwo
<1> QED BY ONLY <1>6, <1>7

LEMMA StatusOfIs ==
  ASSUME NEW fs, NEW done, NEW old
  PROVE  StatusOf(fs, done, old) # "EXPIRED" \/ StatusOf(fs, done, old) = old
BY DEF StatusOf

(* The refund of an expiry is for what is not fulfilled, and the payment   *)
(* never has more than the price.                                          *)
LEMMA ExpiryPaysBack ==
  ASSUME TypeOK, Plain, PlainRows, [Next]_vars, status' = "EXPIRED", status # "EXPIRED"
  PROVE  \/ captured' <= HeldAll(fulfillments', {"fulfilled"}) + Shipping
         \/ task.unpaid /\ captured > 0
         \/ HeldAll(fulfillments, {"closed"}) > 0
         \/ \E l \in Lines : fulfilled[l] # Held(fulfillments, Live, l)
<1>1. /\ RowTypes /\ fulfillments \in Seq(Fulfillment) /\ captured \in 0..Price /\ Remaining \in Nat
      /\ Ordered \in Nat /\ Shipping \in Nat /\ Price = Ordered + Shipping /\ IsFiniteSet(Lines)
  BY OrderModel, TypesInParts, QuantityTypes, RestTypes DEF RowTypes, Price
<1>2. (ExpireUnpaid /\ task.unpaid) \/ (ExpireOpen /\ task.open /\ Remaining <= captured)
  <2>1. ASSUME NEW r \in Requests, Begin(r) \/ Fail(r) PROVE FALSE
    BY <2>1, BeginOnlyReads DEF Fail
  <2>2. ASSUME NEW r \in Requests, Proceed(r) PROVE FALSE
    <3>1. CASE ApproveFulfillment(r) \/ CancelWaitingFulfillment(r) \/ CancelFulfillment(r)
      <4>1. \E fs, done : status' = StatusOf(fs, done, status)
        BY <3>1 DEF ApproveFulfillment, CancelWaitingFulfillment, CancelFulfillment
      <4> QED BY <4>1, StatusOfIs
    <3>2. CASE UpdateOrderStatus(r)
      BY <3>2, StatusOfIs DEF UpdateOrderStatus, Updated, Differs
    <3>3. CASE SaveUnconfirmed(r) \/ Pay(r) \/ CancelOrder(r)
      BY <3>3 DEF SaveUnconfirmed, Pay, CancelOrder
    <3>4. CASE CreateFulfillments(r) \/ CreateReturnFulfillment(r) \/ ProcessReplace(r)
      BY <3>4 DEF CreateFulfillments, CreateReturnFulfillment, ProcessReplace
    <3>5. CASE CreateRefundFulfillment(r) \/ GatewayRefund(r) \/ CreateRefunded(r)
      BY <3>5 DEF CreateRefundFulfillment, GatewayRefund, CreateRefunded
    <3> QED BY <2>2, <3>1, <3>2, <3>3, <3>4, <3>5 DEF Proceed
  <2>3. CASE ExpireOrders
    <3>1. ~SelectUnpaid /\ ~SelectOpen
      BY DEF SelectUnpaid, SelectOpen, order
    <3>2. ExpireUnpaid => task.unpaid
      BY DEF ExpireUnpaid
    <3>3. ExpireOpen => task.open /\ Remaining <= captured
      BY DEF ExpireOpen, AmountTotal
    <3> QED BY ONLY <2>3, <3>1, <3>2, <3>3 DEF ExpireOrders
  <2>4. ~UNCHANGED vars
    BY DEF vars, order
  <2> QED BY <2>1, <2>2, <2>3, <2>4 DEF Next
<1>3. CASE ExpireUnpaid /\ task.unpaid
  <2>1. fulfillments' = fulfillments /\ captured' = captured
    BY <1>3 DEF ExpireUnpaid
  <2>2. HeldAll(fulfillments, {"fulfilled"}) \in Nat
    BY <1>1, HeldTypes
  <2> QED BY <1>1, <1>3, <2>1, <2>2
<1>4. CASE ExpireOpen /\ task.open /\ Remaining <= captured
  <2>1. SUFFICES ASSUME ~(HeldAll(fulfillments, {"closed"}) > 0),
                        \A l \in Lines : fulfilled[l] = Held(fulfillments, Live, l)
                 PROVE  captured' <= HeldAll(fulfillments', {"fulfilled"}) + Shipping
    OBVIOUS
  <2>2. Close /\ captured' = captured - Remaining
    BY <1>4 DEF ExpireOpen, AmountTotal
  <2> DEFINE rest == [l \in Lines |-> Rest(l)]
             live == [l \in Lines |-> Held(fulfillments, Live, l)]
             done == [l \in Lines |-> Held(fulfillments, {"fulfilled"}, l)]
             closed == [l \in Lines |-> Held(fulfillments, {"closed"}, l)]
  <2>3. /\ rest \in [Lines -> Nat] /\ live \in [Lines -> Nat] /\ done \in [Lines -> Nat]
        /\ closed \in [Lines -> Nat] /\ Quantity \in [Lines -> Nat]
    BY <1>1, OrderModel, HeldTypes, RestTypes
  <2>a. IsFiniteSet(Lines)
    BY <1>1
  <2>4. ASSUME NEW l \in Lines PROVE Quantity[l] = rest[l] + live[l]
    <3>1. fulfilled[l] = live[l] /\ live[l] \in Nat /\ Quantity[l] \in Nat /\ fulfilled[l] <= Quantity[l]
      BY <1>1, <2>1, <2>3 DEF RowTypes
    <3> QED BY <3>1 DEF Rest, Min2
  <2>5. \A l \in Lines : live[l] = done[l] + closed[l]
    BY <1>1, LiveIsDelivered
  <2>6. [l \in Lines |-> Held(fulfillments', {"fulfilled"}, l)] = done
    <3>1. ASSUME NEW l \in Lines
          PROVE  Held(fulfillments', {"fulfilled"}, l) = Held(fulfillments, {"fulfilled"}, l)
      <4>1. \A S : Held(fulfillments', S, l) = Held(fulfillments, S, l)
                                                 + (IF "closed" \in S THEN Rest(l) ELSE 0)
        BY <1>1, <2>2, CloseMoves
      <4>2. Held(fulfillments, {"fulfilled"}, l) \in Nat
        BY <1>1, HeldIsTally
      <4> QED BY <4>1, <4>2
    <3> QED BY <3>1
  <2>7. /\ Remaining = SumOver(rest, Lines) /\ HeldAll(fulfillments, {"closed"}) = SumOver(closed, Lines)
        /\ HeldAll(fulfillments', {"fulfilled"}) = SumOver(done, Lines) /\ Ordered = SumOver(Quantity, Lines)
    BY <2>6 DEF Remaining, HeldAll, Ordered
  <2> HIDE DEF rest, live, done, closed
  <2>8. SumOver(Quantity, Lines) = SumOver(rest, Lines) + SumOver(live, Lines)
    BY ONLY <2>a, <2>3, <2>4, SumOfTwo
  <2>9. SumOver(live, Lines) = SumOver(done, Lines) + SumOver(closed, Lines)
    BY ONLY <2>a, <2>3, <2>5, SumOfTwo
  <2>10. SumOver(done, Lines) \in Nat /\ SumOver(closed, Lines) \in Nat
    BY <1>1, <2>3, SumIsNat
  <2> QED BY <1>1, <2>1, <2>2, <2>7, <2>8, <2>9, <2>10
<1> QED BY <1>2, <1>3, <1>4

(* An order that expires leaves nothing captured for units it did not      *)
(* deliver (order/tasks.py: _expire_orders), unless it was paid after it   *)
(* was listed as unpaid, or its rows were wrong before.                    *)
THEOREM ExpiryLeavesNothing == Spec => UndeliveredIsPaidBack
<1>1. TypeOK /\ (Plain => PlainInvariant) /\ [Next]_vars =>
        [Plain /\ status' = "EXPIRED" /\ status # "EXPIRED" =>
           \/ captured' <= HeldAll(fulfillments', {"fulfilled"}) + Shipping
           \/ task.unpaid /\ captured > 0
           \/ HeldAll(fulfillments, {"closed"}) > 0
           \/ \E l \in Lines : fulfilled[l] # Held(fulfillments, Live, l)]_vars
  BY ExpiryPaysBack DEF PlainInvariant
<1> QED BY <1>1, PlainOrders, PTL DEF Spec, UndeliveredIsPaidBack
===============================================================================
