------------------------ MODULE AlertDecision_proofs ------------------------
(***************************************************************************)
(* What decide_alert and the boundary diagnostic compute, for any ensemble,*)
(* contract, quote and set of sibling markets.                             *)
(***************************************************************************)
EXTENDS AlertDecision, FiniteSetTheorems, TLAPS

N == Cardinality(Members)

LEMMA Count == N \in Nat /\ N > 0
<1>1. N \in Nat /\ (N = 0 => Members = {})
  BY MembersAssumption, FS_CardinalityType, FS_EmptySet DEF N
<1> QED
  BY <1>1, MembersAssumption

-----------------------------------------------------------------------------
(* The gates of decide_alert *)

\* What a side of a decision is about.
DebitOf(side, quote) == IF side = "YES" THEN quote.yes ELSE quote.no
VotesOf(side, yes)   == IF side = "YES" THEN yes ELSE N - yes
GapOf(side, yes, quote) == SideGap(VotesOf(side, yes), DebitOf(side, quote))

\* A side that can be bought ten points below its probability.
Clears(side, yes, quote) ==
  DebitOf(side, quote) # None /\ GapOf(side, yes, quote) >= RawGapThreshold * N

Quotes == [yes : Int, no : Int]

LEMMA GapType ==
  ASSUME NEW votes \in Int, NEW debit \in Int
  PROVE  SideGap(votes, debit) \in Int
  BY Count DEF SideGap, N

\* The buffered gate follows from the raw one: 10 - 5 >= 5.
LEMMA BufferedIsRaw ==
  ASSUME NEW votes \in Int, NEW debit \in Int
  PROVE  /\ Qualifies(votes, debit) <=> ClearsRaw(votes, debit)
         /\ ClearsRaw(votes, debit) <=> debit # None /\ SideGap(votes, debit) >= 10 * N
<1>1. PICK g \in Int : g = SideGap(votes, debit)
  BY GapType
<1>2. N \in Nat
  BY Count
<1> QED
  BY <1>1, <1>2 DEF Qualifies, ClearsRaw, RawGapThreshold, BufferedGapThreshold,
                    ConservativeBuffer, N

LEMMA SideClears ==
  ASSUME NEW yes \in Int, NEW quote \in Quotes
  PROVE  /\ N - yes \in Int /\ quote.yes \in Int /\ quote.no \in Int
         /\ GapOf("YES", yes, quote) = SideGap(yes, quote.yes)
         /\ GapOf("NO", yes, quote) = SideGap(N - yes, quote.no)
         /\ GapOf("YES", yes, quote) \in Int /\ GapOf("NO", yes, quote) \in Int
         /\ Clears("YES", yes, quote) <=> Qualifies(yes, quote.yes)
         /\ Clears("NO", yes, quote) <=> Qualifies(N - yes, quote.no)
         /\ Clears("YES", yes, quote) <=> ClearsRaw(yes, quote.yes)
         /\ Clears("NO", yes, quote) <=> ClearsRaw(N - yes, quote.no)
<1>1. N - yes \in Int /\ quote.yes \in Int /\ quote.no \in Int
  BY Count DEF Quotes
<1>2. /\ GapOf("YES", yes, quote) = SideGap(yes, quote.yes)
      /\ GapOf("NO", yes, quote) = SideGap(N - yes, quote.no)
  BY DEF GapOf, VotesOf, DebitOf
<1>3. /\ Clears("YES", yes, quote) <=> ClearsRaw(yes, quote.yes)
      /\ Clears("NO", yes, quote) <=> ClearsRaw(N - yes, quote.no)
  BY <1>2 DEF Clears, ClearsRaw, DebitOf, N
<1> QED
  BY <1>1, <1>2, <1>3, GapType, BufferedIsRaw

\* The side that is picked: the one with the larger gap among those quoted.
Best(side, yes, quote) ==
  /\ side \in {"YES", "NO"} /\ Clears(side, yes, quote)
  /\ \A other \in {"YES", "NO"} :
       DebitOf(other, quote) # None => GapOf(other, yes, quote) <= GapOf(side, yes, quote)

LEMMA SidePicked ==
  ASSUME NEW yes \in Int, NEW quote \in Quotes
  PROVE  /\ Side(yes, N - yes, quote) \in {"YES", "NO", "none"}
         /\ Side(yes, N - yes, quote) = "none" <=>
              ~Clears("YES", yes, quote) /\ ~Clears("NO", yes, quote)
         /\ Side(yes, N - yes, quote) # "none" => Best(Side(yes, N - yes, quote), yes, quote)
<1>1. PICK y \in Int, n \in Int, least \in Int :
        /\ y = GapOf("YES", yes, quote) /\ n = GapOf("NO", yes, quote)
        /\ least = RawGapThreshold * N
  BY SideClears, Count DEF RawGapThreshold
<1>2. /\ Clears("YES", yes, quote) <=> quote.yes # None /\ y >= least
      /\ Clears("NO", yes, quote) <=> quote.no # None /\ n >= least
  BY <1>1 DEF Clears, DebitOf
<1>3. Side(yes, N - yes, quote) =
        IF Clears("YES", yes, quote)
          THEN IF Clears("NO", yes, quote) /\ n > y THEN "NO" ELSE "YES"
          ELSE IF Clears("NO", yes, quote) THEN "NO" ELSE "none"
  BY <1>1, SideClears DEF Side
<1>4. ASSUME NEW side \in {"YES", "NO"}, side = Side(yes, N - yes, quote)
      PROVE  Best(side, yes, quote)
  <2>1. CASE side = "YES"
    <3>1. Clears("YES", yes, quote) /\ (quote.no # None => n <= y)
      BY <1>2, <1>3, <1>4, <2>1
    <3> QED
      BY <1>1, <2>1, <3>1 DEF Best, DebitOf
  <2>2. CASE side = "NO"
    <3>1. Clears("NO", yes, quote) /\ (quote.yes # None => y <= n)
      BY <1>2, <1>3, <1>4, <2>2
    <3> QED
      BY <1>1, <2>2, <3>1 DEF Best, DebitOf
  <2> QED
    BY <2>1, <2>2
<1> QED
  BY <1>3, <1>4

\* decide_alert says TAKE A LOOK exactly when every gate passes, "never unless
\* all pass" as its docstring puts it; a side is named only for complete and
\* fresh data and is then the one with the larger gap of the sides quoted; and
\* every other answer names its reasons.  With the default thresholds
\* NO_SIDE_CLEARS_BUFFERED_THRESHOLD is never one of them.
THEOREM AlertIsJustified ==
  ASSUME NEW complete \in BOOLEAN, NEW fresh \in BOOLEAN, NEW quote \in Quotes,
         NEW yes \in Int, NEW established \in BOOLEAN, NEW reverses \in BOOLEAN,
         NEW d, d = DecideAlert(complete, fresh, quote, yes, established, reverses)
  PROVE  /\ d.state = "TAKE_A_LOOK" <=>
              /\ complete /\ fresh /\ established /\ ~reverses
              /\ Clears("YES", yes, quote) \/ Clears("NO", yes, quote)
         /\ d.side # "none" <=> d.state \in {"TAKE_A_LOOK", "TOO_UNCERTAIN"}
         /\ d.side # "none" => complete /\ fresh /\ Best(d.side, yes, quote)
         /\ d.failures = {} <=> d.state = "TAKE_A_LOOK"
         /\ "NO_SIDE_CLEARS_BUFFERED_THRESHOLD" \notin d.failures
<1>1. PICK side, failures, ceiling :
        /\ side = Side(yes, N - yes, quote)
        /\ failures = NotReady(complete, fresh, quote)
        /\ ceiling = Ceiling(established, reverses)
  OBVIOUS
<1>2. d = IF failures # {}
            THEN [state |-> "DATA_NOT_READY", failures |-> failures, side |-> "none"]
          ELSE IF side = "none"
            THEN [state |-> "SKIP", side |-> "none",
                  failures |-> IF ClearsRaw(yes, quote.yes) \/ ClearsRaw(N - yes, quote.no)
                                 THEN {"NO_SIDE_CLEARS_BUFFERED_THRESHOLD"}
                                 ELSE {"NO_SIDE_CLEARS_RAW_THRESHOLD"}]
          ELSE [state |-> IF ceiling = {} THEN "TAKE_A_LOOK" ELSE "TOO_UNCERTAIN",
                failures |-> ceiling, side |-> side]
  BY <1>1 DEF DecideAlert, N
<1>3. /\ failures = {} <=> complete /\ fresh /\ (quote.yes # None \/ quote.no # None)
      /\ "NO_SIDE_CLEARS_BUFFERED_THRESHOLD" \notin failures
  BY <1>1 DEF NotReady
<1>4. /\ ceiling = {} <=> established /\ ~reverses
      /\ "NO_SIDE_CLEARS_BUFFERED_THRESHOLD" \notin ceiling
  BY <1>1 DEF Ceiling
<1>5. /\ side \in {"YES", "NO", "none"}
      /\ side = "none" <=> ~Clears("YES", yes, quote) /\ ~Clears("NO", yes, quote)
      /\ side # "none" => Best(side, yes, quote)
  BY <1>1, SidePicked
<1>6. /\ Clears("YES", yes, quote) <=> ClearsRaw(yes, quote.yes)
      /\ Clears("NO", yes, quote) <=> ClearsRaw(N - yes, quote.no)
      /\ Clears("YES", yes, quote) => quote.yes # None
      /\ Clears("NO", yes, quote) => quote.no # None
  BY SideClears DEF Clears, DebitOf
<1>7. CASE failures # {}
  BY <1>2, <1>3, <1>6, <1>7
<1>8. CASE failures = {} /\ side = "none"
  BY <1>2, <1>5, <1>6, <1>8
<1>9. CASE failures = {} /\ side # "none"
  BY <1>2, <1>3, <1>4, <1>5, <1>9
<1> QED
  BY <1>7, <1>8, <1>9

\* Both sides clear their gates only on a market whose two conservative debits
\* leave twenty cents: otherwise decide_alert has no side to choose between.
THEOREM BothSidesNeedWideMarket ==
  ASSUME NEW yes \in Int, NEW quote \in Quotes,
         Clears("YES", yes, quote), Clears("NO", yes, quote)
  PROVE  quote.yes + quote.no <= 80
<1>1. quote.yes \in Int /\ quote.no \in Int /\ N \in Nat /\ N > 0
  BY SideClears, Count
<1>2. /\ 100 * yes - quote.yes * N >= 10 * N
      /\ 100 * (N - yes) - quote.no * N >= 10 * N
  BY SideClears DEF Clears, RawGapThreshold, SideGap, N
<1>3. PICK a \in Int, b \in Int : a = quote.yes /\ b = quote.no
  BY <1>1
<1>4. (a + b) * N = a * N + b * N /\ a * N \in Int /\ b * N \in Int
  BY <1>1, <1>3
<1>5. (a + b) * N <= 80 * N
  BY <1>1, <1>2, <1>3, <1>4
<1>6. a + b <= 80
  BY <1>1, <1>3, <1>5
<1> QED
  BY <1>3, <1>6

-----------------------------------------------------------------------------
(* The preferred market *)

\* By induction over finite sets, as the absence of a smallest counterexample.
Smallest(F, T) == T \in F /\ \A U \in SUBSET T : U \in F => U = T

LEMMA SmallestSubset ==
  ASSUME NEW S, IsFiniteSet(S), NEW F \in SUBSET (SUBSET S), F # {}
  PROVE  \E T : Smallest(F, T)
<1>1. IsWellFoundedOn(StrictSubsetOrdering(S), FiniteSubsetsOf(S))
  BY FS_StrictSubsetOrderingWellFounded
<1>2. F \subseteq FiniteSubsetsOf(S)
  BY FS_Subset DEF FiniteSubsetsOf
<1>3. PICK T \in F : \A U \in F : <<U, T>> \notin StrictSubsetOrdering(S)
  BY <1>1, <1>2, WFMin
<1>4. ASSUME NEW U \in SUBSET T, U \in F, U # T
      PROVE  FALSE
  <2>1. <<U, T>> \in StrictSubsetOrdering(S)
    BY <1>4 DEF StrictSubsetOrdering
  <2> QED
    BY <1>3, <1>4, <2>1
<1> QED
  BY <1>4 DEF Smallest

LEMMA VotesType ==
  ASSUME NEW rows, NEW c, NEW shift
  PROVE  Votes(rows, c, shift) \in 0..N
<1> DEFINE S == {m \in Members : EvaluatePredicate(DailyHigh(rows[m]) + shift, c)}
<1>1. S \in SUBSET Members
  OBVIOUS
<1>2. Votes(rows, c, shift) = Cardinality(S)
  BY DEF Votes
<1> HIDE DEF S
<1>3. IsFiniteSet(S) /\ Cardinality(S) <= Cardinality(Members)
  BY <1>1, FS_Subset, MembersAssumption
<1>4. Cardinality(S) \in Nat
  BY <1>3, FS_CardinalityType
<1> QED
  BY <1>2, <1>3, <1>4, Count DEF N

\* The order of max() over (votes, ticker).
Beats(rows, shift, t, u) ==
  LET a == Votes(rows, Contract[t], shift)
      b == Votes(rows, Contract[u], shift)
  IN  a > b \/ (a = b /\ t >= u)

LEMMA BeatsOrder ==
  ASSUME NEW rows, NEW shift, NEW t \in Nat, NEW u \in Nat, NEW v \in Nat
  PROVE  /\ Beats(rows, shift, t, t)
         /\ Beats(rows, shift, t, u) \/ Beats(rows, shift, u, t)
         /\ Beats(rows, shift, t, u) /\ Beats(rows, shift, u, t) => t = u
         /\ Beats(rows, shift, t, u) /\ Beats(rows, shift, u, v) => Beats(rows, shift, t, v)
<1>1. PICK a \in Int, b \in Int, c \in Int :
        /\ a = Votes(rows, Contract[t], shift)
        /\ b = Votes(rows, Contract[u], shift)
        /\ c = Votes(rows, Contract[v], shift)
  BY VotesType, Count
<1> QED
  BY <1>1 DEF Beats

Leads(rows, shift, T, t) == t \in T /\ \A u \in T : Beats(rows, shift, t, u)

LEMMA LeaderExists ==
  ASSUME NEW rows, NEW shift, NEW S \in SUBSET Nat, IsFiniteSet(S), S # {}
  PROVE  \E t \in S : Leads(rows, shift, S, t)
<1> DEFINE Bad == {T \in SUBSET S : T # {} /\ ~ \E t \in T : Leads(rows, shift, T, t)}
<1> SUFFICES ASSUME Bad # {} PROVE FALSE
  OBVIOUS
<1>1. PICK T : Smallest(Bad, T)
  <2>1. Bad \in SUBSET (SUBSET S)
    OBVIOUS
  <2> HIDE DEF Bad
  <2> QED
    BY <2>1, SmallestSubset
<1>2. PICK t : t \in T
  BY <1>1 DEF Smallest
<1>3. T \subseteq Nat /\ t \in Nat
  BY <1>1, <1>2 DEF Smallest
<1>4. T \ {t} \in SUBSET T /\ T \ {t} # T
  BY <1>2
<1>5. ~ \E v \in T : Leads(rows, shift, T, v)
  BY <1>1 DEF Smallest
<1>6. CASE T \ {t} = {}
  <2>1. \A u \in T : u = t
    BY <1>6
  <2> QED
    BY <1>2, <1>3, <1>5, <2>1, BeatsOrder DEF Leads
<1>7. CASE T \ {t} # {}
  <2>1. \E u \in T \ {t} : Leads(rows, shift, T \ {t}, u)
    <3>1. T \ {t} \notin Bad /\ T \ {t} \in SUBSET S
      BY <1>1, <1>4 DEF Smallest
    <3> QED
      BY <1>7, <3>1
  <2>2. PICK u \in T \ {t} : \A v \in T \ {t} : Beats(rows, shift, u, v)
    BY <2>1 DEF Leads
  <2>3. u \in Nat /\ u \in T
    BY <1>3
  <2>4. CASE Beats(rows, shift, u, t)
    BY <1>5, <2>2, <2>3, <2>4 DEF Leads
  <2>5. CASE Beats(rows, shift, t, u)
    <3>1. ASSUME NEW v \in T
          PROVE  Beats(rows, shift, t, v)
      <4>1. v \in Nat
        BY <1>3
      <4>2. CASE v = t
        BY <1>3, <4>2, BeatsOrder
      <4>3. CASE v # t
        BY <1>3, <2>2, <2>3, <2>5, <4>1, <4>3, BeatsOrder
      <4> QED
        BY <4>2, <4>3
    <3> QED
      BY <1>2, <1>5, <3>1 DEF Leads
  <2> QED
    BY <1>3, <2>3, <2>4, <2>5, BeatsOrder
<1> QED
  BY <1>6, <1>7

\* The preferred market is one of the siblings, no sibling has more votes, and
\* it is the only one of which that and the tie rule are true: the order in
\* which discovery listed the markets has no influence on it.
THEOREM PreferredIsTheLeader ==
  ASSUME NEW rows, NEW shift, NEW S \in SUBSET Tickers, IsFiniteSet(S), S # {}
  PROVE  /\ Leads(rows, shift, S, PreferredTicker(rows, S, shift))
         /\ \A t \in S : Leads(rows, shift, S, t) => t = PreferredTicker(rows, S, shift)
<1>1. S \in SUBSET Nat
  BY TickersAssumption
<1>2. PreferredTicker(rows, S, shift) =
        CHOOSE t \in S : \A u \in S : Beats(rows, shift, t, u)
  BY DEF PreferredTicker, Beats
<1>3. \E t \in S : \A u \in S : Beats(rows, shift, t, u)
  BY <1>1, LeaderExists DEF Leads
<1>4. PICK p : p = PreferredTicker(rows, S, shift)
  OBVIOUS
<1>5. p \in S /\ \A u \in S : Beats(rows, shift, p, u)
  BY <1>2, <1>3, <1>4
<1>6. ASSUME NEW t \in S, Leads(rows, shift, S, t)
      PROVE  t = p
  <2>1. Beats(rows, shift, t, p) /\ Beats(rows, shift, p, t) /\ t \in Nat /\ p \in Nat
    BY <1>1, <1>5, <1>6 DEF Leads
  <2> QED
    BY <2>1, BeatsOrder
<1> QED
  BY <1>4, <1>5, <1>6 DEF Leads

\* Without a reversal one and the same market leads as forecast, one degree
\* warmer and one degree colder; with one, two of the three differ.
THEOREM ReversalIsALeadChange ==
  ASSUME NEW rows, NEW S \in SUBSET Tickers, IsFiniteSet(S), S # {}
  PROVE  ~Reverses(BoundaryRisk(rows, S)) <=>
           \E t \in S : \A shift \in {0, 1000, -1000} : Leads(rows, shift, S, t)
<1>1. /\ BoundaryRisk(rows, S).baseline = PreferredTicker(rows, S, 0)
      /\ BoundaryRisk(rows, S).plus = PreferredTicker(rows, S, 1000)
      /\ BoundaryRisk(rows, S).minus = PreferredTicker(rows, S, -1000)
  BY DEF BoundaryRisk
<1>2. ~Reverses(BoundaryRisk(rows, S)) <=>
        /\ PreferredTicker(rows, S, 1000) = PreferredTicker(rows, S, 0)
        /\ PreferredTicker(rows, S, -1000) = PreferredTicker(rows, S, 0)
  BY <1>1 DEF Reverses
<1>3. ASSUME NEW shift
      PROVE  \A t \in S : Leads(rows, shift, S, t) <=> t = PreferredTicker(rows, S, shift)
  BY PreferredIsTheLeader
<1>4. PreferredTicker(rows, S, 0) \in S
  BY PreferredIsTheLeader DEF Leads
<1> QED
  BY <1>2, <1>3, <1>4

-----------------------------------------------------------------------------
(* Warmer highs *)

LEMMA LargestExists ==
  ASSUME NEW S \in SUBSET Int, IsFiniteSet(S), S # {}
  PROVE  \E k \in S : \A j \in S : k >= j
<1> DEFINE Bad == {T \in SUBSET S : T # {} /\ ~ \E k \in T : \A j \in T : k >= j}
<1> SUFFICES ASSUME Bad # {} PROVE FALSE
  OBVIOUS
<1>1. PICK T : Smallest(Bad, T)
  <2>1. Bad \in SUBSET (SUBSET S)
    OBVIOUS
  <2> HIDE DEF Bad
  <2> QED
    BY <2>1, SmallestSubset
<1>2. T \in SUBSET S /\ T # {} /\ ~ \E i \in T : \A j \in T : i >= j
  BY <1>1 DEF Smallest
<1>3. PICK k : k \in T
  BY <1>2
<1>4. CASE T \ {k} = {}
  BY <1>2, <1>3, <1>4
<1>5. CASE T \ {k} # {}
  <2>1. T \ {k} \notin Bad /\ T \ {k} \in SUBSET S
    <3>1. T \ {k} \in SUBSET T /\ T \ {k} # T /\ T \ {k} \in SUBSET S
      BY <1>2, <1>3
    <3> HIDE DEF Bad
    <3> QED
      BY <1>1, <3>1 DEF Smallest
  <2>2. \E i \in T \ {k} : \A j \in T \ {k} : i >= j
    BY <1>5, <2>1
  <2> HIDE DEF Bad
  <2>3. PICK i \in T \ {k} : \A j \in T \ {k} : i >= j
    BY <2>2
  <2>4. i \in Int /\ k \in Int /\ T \subseteq Int
    BY <1>2, <1>3
  <2>5. \A j \in T : (IF i >= k THEN i ELSE k) >= j
    BY <2>3, <2>4
  <2> QED
    BY <1>2, <1>3, <2>3, <2>5
<1> QED
  BY <1>4, <1>5

\* Hourly values as a decoded ensemble has them: some for every member.
Rows == {rows \in [Members -> SUBSET Int] :
           \A m \in Members : rows[m] # {} /\ IsFiniteSet(rows[m])}

LEMMA DailyHighIsHottest ==
  ASSUME NEW values \in SUBSET Int, values # {}, IsFiniteSet(values)
  PROVE  /\ DailyHigh(values) \in {KelvinToFahrenheit(k) : k \in values}
         /\ \A k \in values : DailyHigh(values) >= KelvinToFahrenheit(k)
         /\ DailyHigh(values) \in Int
<1>1. PICK k \in values : \A j \in values : k >= j
  BY LargestExists
<1> DEFINE H == {KelvinToFahrenheit(j) : j \in values}
<1>2. KelvinToFahrenheit(k) \in H /\ \A h \in H : KelvinToFahrenheit(k) >= h
  BY <1>1 DEF KelvinToFahrenheit
<1>3. H \subseteq Int
  BY DEF KelvinToFahrenheit
<1>4. DailyHigh(values) = CHOOSE x \in H : \A y \in H : x >= y
  BY DEF DailyHigh, Max
<1>5. \A j \in values : KelvinToFahrenheit(j) \in H
  OBVIOUS
<1> HIDE DEF H
<1>6. DailyHigh(values) \in H /\ \A y \in H : DailyHigh(values) >= y
  BY <1>2, <1>4
<1> QED
  BY <1>3, <1>5, <1>6 DEF H

\* A warmer forecast never makes "above" less probable nor "below" more: what
\* the boundary diagnostic shifts moves open-ended contracts one way only.
THEOREM WarmerFavoursAbove ==
  ASSUME NEW rows \in Rows, NEW c, c.lower \in Int,
         NEW cold \in Int, NEW warm \in Int, cold <= warm
  PROVE  /\ c.comparator = "GT" => Votes(rows, c, cold) <= Votes(rows, c, warm)
         /\ c.comparator = "LT" => Votes(rows, c, warm) <= Votes(rows, c, cold)
<1> DEFINE For(shift) == {m \in Members : EvaluatePredicate(DailyHigh(rows[m]) + shift, c)}
<1>1. \A m \in Members : DailyHigh(rows[m]) \in Int
  BY DailyHighIsHottest DEF Rows
<1>2. \A shift : Votes(rows, c, shift) = Cardinality(For(shift)) /\ For(shift) \in SUBSET Members
  BY DEF Votes
<1>3. c.comparator = "GT" => For(cold) \in SUBSET For(warm)
  BY <1>1 DEF EvaluatePredicate
<1>4. c.comparator = "LT" => For(warm) \in SUBSET For(cold)
  BY <1>1 DEF EvaluatePredicate
<1> HIDE DEF For
<1>5. IsFiniteSet(For(cold)) /\ IsFiniteSet(For(warm))
  BY <1>2, FS_Subset, MembersAssumption
<1> QED
  BY <1>2, <1>3, <1>4, <1>5, FS_Subset
=============================================================================
