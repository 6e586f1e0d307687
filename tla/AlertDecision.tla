--------------------------- MODULE AlertDecision ---------------------------
(***************************************************************************)
(* The decision of a WN-A1 evaluation as a function of its evidence        *)
(* (forecasting/wn_a1_probability.py, wn_a1_alert.py, evaluate_candidate)  *)
(* and its replay from the persisted attempt (wn_a1_attempt_store.py).     *)
(*                                                                         *)
(* The rows of an ensemble give every member the hourly values it has      *)
(* inside the research window, in hundredths of a kelvin.  Temperatures    *)
(* are in thousandths of a degree Fahrenheit, debits in cents, and a gap   *)
(* is in percentage points times the number of members, so that all of     *)
(* them are exact integers.                                                *)
(***************************************************************************)
EXTENDS Integers, FiniteSetsExt

CONSTANTS
  Members,     \* the samples of an ensemble
  Tickers,     \* the markets of the event: naturals, ordered as their names
  Contract,    \* comparator, lower, upper and window status of each ticker
  MaxAge       \* MAX_BOOK_AGE

ASSUME MembersAssumption == IsFiniteSet(Members) /\ Members # {}
ASSUME TickersAssumption ==
  /\ Tickers \subseteq Nat
  /\ \A t \in Tickers :
       /\ Contract[t] \in [comparator : {"RANGE", "GT", "LT"}, lower : Int,
                           upper : Int, established : BOOLEAN]
       /\ Contract[t].comparator = "RANGE" => Contract[t].lower < Contract[t].upper
ASSUME MaxAgeAssumption == MaxAge \in Nat

\* Python's None for a time, a debit or a ticker.
None == -1

-----------------------------------------------------------------------------
(* Probability *)

KelvinToFahrenheit(k) == 18 * k - 459670

\* compute_member_daily_highs raises unless every member has a value.
NoRows == [m \in Members |-> {}]
HighsKnown(rows) == \A m \in Members : rows[m] # {}
DailyHigh(values) == Max({KelvinToFahrenheit(k) : k \in values})

EvaluatePredicate(v, c) ==
  \/ c.comparator = "RANGE" /\ c.lower <= v /\ v <= c.upper
  \/ c.comparator = "GT" /\ v > c.lower
  \/ c.comparator = "LT" /\ v < c.lower

\* The numerator of compute_raw_probability, with every high shifted.
Votes(rows, c, shift) ==
  Cardinality({m \in Members : EvaluatePredicate(DailyHigh(rows[m]) + shift, c)})

\* max() over (votes, ticker).
PreferredTicker(rows, siblings, shift) ==
  CHOOSE t \in siblings : \A u \in siblings :
    LET a == Votes(rows, Contract[t], shift)
        b == Votes(rows, Contract[u], shift)
    IN  a > b \/ (a = b /\ t >= u)

NoBoundary == [baseline |-> None, plus |-> None, minus |-> None]

\* The preferred market as forecast and one degree warmer and colder.
BoundaryRisk(rows, siblings) ==
  [baseline |-> PreferredTicker(rows, siblings, 0),
   plus |-> PreferredTicker(rows, siblings, 1000),
   minus |-> PreferredTicker(rows, siblings, -1000)]

Reverses(b) == b.plus # b.baseline \/ b.minus # b.baseline

-----------------------------------------------------------------------------
(* The alert *)

RawGapThreshold == 10
BufferedGapThreshold == 5
ConservativeBuffer == 5

SideGap(votes, debit) == 100 * votes - debit * Cardinality(Members)

Qualifies(votes, debit) ==
  /\ debit # None
  /\ SideGap(votes, debit) >= RawGapThreshold * Cardinality(Members)
  /\ SideGap(votes, debit) - ConservativeBuffer * Cardinality(Members)
       >= BufferedGapThreshold * Cardinality(Members)

\* The two sides compare their own probability with their own debit.
Side(yes, no, quote) ==
  IF Qualifies(yes, quote.yes)
    THEN IF /\ Qualifies(no, quote.no)
            /\ SideGap(no, quote.no) > SideGap(yes, quote.yes)
           THEN "NO" ELSE "YES"
    ELSE IF Qualifies(no, quote.no) THEN "NO" ELSE "none"

ClearsRaw(votes, debit) ==
  debit # None /\ SideGap(votes, debit) >= RawGapThreshold * Cardinality(Members)

NotReady(complete, fresh, quote) ==
  (IF complete THEN {} ELSE {"ENSEMBLE_INCOMPLETE"})
  \union (IF fresh THEN {} ELSE {"MARKET_STALE"})
  \union (IF quote.yes = None /\ quote.no = None
            THEN {"NO_EXECUTABLE_MARKET_PRICE"} ELSE {})

Ceiling(established, reverses) ==
  (IF established THEN {} ELSE {"WINDOW_NOT_ESTABLISHED"})
  \union (IF reverses THEN {"BOUNDARY_REVERSAL"} ELSE {})

\* decide_alert for a supported contract; yes is the numerator of the raw
\* probability, 0 when there is none.
DecideAlert(complete, fresh, quote, yes, established, reverses) ==
  LET no == Cardinality(Members) - yes
      side == Side(yes, no, quote)
      ceiling == Ceiling(established, reverses)
      failures == NotReady(complete, fresh, quote)
  IN  IF failures # {}
        THEN [state |-> "DATA_NOT_READY", failures |-> failures, side |-> "none"]
      ELSE IF side = "none"
        THEN [state |-> "SKIP", side |-> "none",
              failures |-> IF ClearsRaw(yes, quote.yes) \/ ClearsRaw(no, quote.no)
                             THEN {"NO_SIDE_CLEARS_BUFFERED_THRESHOLD"}
                             ELSE {"NO_SIDE_CLEARS_RAW_THRESHOLD"}]
      ELSE [state |-> IF ceiling = {} THEN "TAKE_A_LOOK" ELSE "TOO_UNCERTAIN",
            failures |-> ceiling, side |-> side]

IsFreshAt(observed, at) == observed <= at /\ at - observed <= MaxAge

-----------------------------------------------------------------------------
(* Evaluation and replay *)

NoEvidence == [have |-> FALSE, rows |-> NoRows, acquired |-> None]
NoSnapshot ==
  [quote |-> [yes |-> None, no |-> None], market |-> None, book |-> None]

RawYes(rows, c) == IF HighsKnown(rows) THEN Votes(rows, c, 0) ELSE 0

Fresh(observed, at) == observed # None /\ IsFreshAt(observed, at)

\* evaluate_candidate; a boundary needs two siblings to compare.
Boundary(rows, siblings) ==
  IF HighsKnown(rows) /\ Cardinality(siblings) >= 2
    THEN BoundaryRisk(rows, siblings) ELSE NoBoundary

Decision(t, evidence, snapshot, siblings, at) ==
  DecideAlert(HighsKnown(evidence.rows), Fresh(snapshot.book, at), snapshot.quote,
              RawYes(evidence.rows, Contract[t]), Contract[t].established,
              Reverses(Boundary(evidence.rows, siblings)))

\* The content EvaluationRecord hashes: neither the run nor the acquisition
\* time is part of it; a run's evidence names the run's forecast.
RecordId(r, t, evidence, snapshot, siblings, at) ==
  <<t, IF evidence.have THEN <<r, evidence.rows>> ELSE <<>>, snapshot.book,
    snapshot.quote, Decision(t, evidence, snapshot, siblings, at), at>>

\* _build_attempt: the row that is persisted.
BuildAttempt(r, t, evidence, snapshot, siblings, at) ==
  [id |-> RecordId(r, t, evidence, snapshot, siblings, at),
   run |-> r, ticker |-> t, contract |-> Contract[t],
   evidence |-> evidence, observed |-> snapshot.book, quote |-> snapshot.quote,
   boundary |-> Boundary(evidence.rows, siblings),
   decision |-> Decision(t, evidence, snapshot, siblings, at), at |-> at]

\* replay_weathernext_evidence raises on evidence without member rows.
Replayable(a) == a.evidence.have => a.evidence.rows # NoRows

BugReplayDecision(a) ==
  DecideAlert(HighsKnown(a.evidence.rows), TRUE, a.quote,
              RawYes(a.evidence.rows, a.contract), a.contract.established,
              Reverses(a.boundary))

\* replay_decision: from nothing but the row.
ReplayDecision(a) ==
  DecideAlert(HighsKnown(a.evidence.rows), Fresh(a.observed, a.at), a.quote,
              RawYes(a.evidence.rows, a.contract), a.contract.established,
              Reverses(a.boundary))
=============================================================================
