--------------------------- MODULE MarketUniverse ---------------------------
(***************************************************************************)
(* The symbols that may be entered: src/core/market-universe.js. What the  *)
(* exchange says of the markets is a function from symbols to rows: a      *)
(* market is not listed, fails a filter (warning, price, traded value,     *)
(* age, length of its name, a missing ticker or an age that could not be   *)
(* checked), or is fit and has a rank by traded value.                     *)
(***************************************************************************)
EXTENDS Integers, FiniteSets

CONSTANTS
  Symbol,      \* the markets that are, or may be, listed
  Include,     \* marketUniverse.includeSymbols
  Exclude,     \* marketUniverse.excludeSymbols
  MaxSymbols,  \* marketUniverse.maxSymbols
  Ranks        \* the ranks by traded value that are told apart

ASSUME UniverseAssumption ==
  /\ IsFiniteSet(Symbol) /\ Include \subseteq Symbol /\ Exclude \subseteq Symbol
  /\ MaxSymbols \in Nat \ {0} /\ Ranks \subseteq Nat

NotListed == -2
Unfit == -1
Rows == [Symbol -> {NotListed, Unfit} \union Ranks]
NoList == {"no list"}   \* this.snapshot is null

(* Mutant: a symbol on both lists is taken.                                *)
IncludedWhateverExcluded(rows) == {s \in Include : rows[s] # NotListed}

(* Included symbols need a market and nothing else.                        *)
Included(rows) == {s \in Include \ Exclude : rows[s] # NotListed}

(* exclusionReason finds nothing against the others.                       *)
Candidates(rows) == {s \in Symbol \ (Exclude \union Included(rows)) : rows[s] \in Ranks}

Least(m, n) == IF m < n THEN m ELSE n
Places(rows) ==
  LET left == MaxSymbols - Cardinality(Included(rows)) IN IF left > 0 THEN left ELSE 0

(* buildSnapshot: the included symbols, and as many of the most traded     *)
(* candidates as there are places (the order of equals is the exchange's). *)
Snapshots(rows) ==
  {Included(rows) \union picked : picked \in
     {P \in SUBSET Candidates(rows) :
        /\ Cardinality(P) = Least(Places(rows), Cardinality(Candidates(rows)))
        /\ \A p \in P, q \in Candidates(rows) \ P : rows[p] >= rows[q]}}

(* refresh: the lists that can come out of an answer of the exchange.      *)
Lists == UNION {Snapshots(rows) : rows \in Rows}

(* getAllowedSymbols: without a list, or with an empty one, the included.  *)
Allowed(list) == IF list \in {NoList, {}} THEN Include ELSE list

FilterSymbols(list, requested) == requested \intersect Allowed(list)
=============================================================================
