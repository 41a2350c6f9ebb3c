------------------------------- MODULE Texts -------------------------------
(***************************************************************************)
(* validation.go and limits.go: the vocabulary every public value is made  *)
(* of, the budgets that bound it and the lists of identifiers.             *)
(*                                                                         *)
(* A text is an integer: its absolute value is both its length in bytes    *)
(* and its place in the byte order, 0 is the empty text, and a negative    *)
(* one holds a character that is never allowed.  An operation that can     *)
(* fail gives its error category, or "OK".                                 *)
(***************************************************************************)
EXTENDS Integers, Sequences, FiniteSets, SequencesExt, TLC

CONSTANTS
  Nil,                      \* the nil pointer, the absent value
  MaxInt,                   \* the largest int
  MaxIdentifierBytes,       \* also the bound of namespaces and source names
  MaxStringValueBytes,
  MaxAggregateInputBytes,
  MaxAggregateOutputBytes,
  MaxVerifierOutputItems,
  MaxVerifierOutputBytes,
  MaxAggregateWorkItems,
  NotDSLIdentifiers         \* texts with a digit in front or a character a policy has no name with

ASSUME TextLimitsAssumption ==
  /\ {MaxIdentifierBytes, MaxStringValueBytes, MaxAggregateInputBytes, MaxAggregateOutputBytes,
      MaxVerifierOutputItems, MaxVerifierOutputBytes, MaxAggregateWorkItems} \subseteq 1..MaxInt
  /\ MaxInt \in Nat

-----------------------------------------------------------------------------
(* Errors and orders.                                                        *)

\* Checks run in order and the first failure is the answer.
firstError(checks) ==
  LET failed == {i \in DOMAIN checks : checks[i] # "OK"}
  IN IF failed = {} THEN "OK" ELSE checks[CHOOSE i \in failed : \A j \in failed : i <= j]

required(condition) == IF condition THEN "OK" ELSE "INVALID_ARGUMENT"

within(condition) == IF condition THEN "OK" ELSE "RESOURCE_EXHAUSTED"

\* A constructor's answer: the value, or why there is none.
made(value) == [status |-> "OK", value |-> value]
refused(status) == [status |-> status, value |-> Nil]
constructed(status, value) == IF status = "OK" THEN made(value) ELSE refused(status)

\* Go on with the value, or give the error back.
andThen(answer, Continue(_)) ==
  IF answer.status = "OK" THEN Continue(answer.value) ELSE refused(answer.status)

\* Field by field; of two lists with one start the shorter comes first.
before(a, b) ==
  \/ IsStrictPrefix(a, b)
  \/ \E i \in DOMAIN a \cap DOMAIN b : a[i] < b[i] /\ \A j \in 1..(i - 1) : a[j] = b[j]

sortedBy(values, Less(_, _)) == SortSeq(values, Less)

\* A list with each element strictly after the one before it.
ascending(values, Less(_, _)) == \A i \in 2..Len(values) : Less(values[i - 1], values[i])

-----------------------------------------------------------------------------
(* Texts.                                                                    *)

bytes(text) == IF text < 0 THEN -text ELSE text

validateText(text, maximum, allowEmpty) ==
  firstError(<<required(text # 0 \/ allowEmpty), within(bytes(text) <= maximum), required(text >= 0)>>)

validateIdentifier(text) == validateText(text, MaxIdentifierBytes, FALSE)

validateOptionalIdentifier(text) == validateText(text, MaxIdentifierBytes, TRUE)

validIdentifier(text) == validateIdentifier(text) = "OK"

validDSLIdentifier(text) == text > 0 /\ text \notin NotDSLIdentifiers

\* A namespace is a text without the wildcard; a pattern is [text, wildcard]: a text
\* that may end in one wildcard, which counts as a byte.
validateNamespace(text) == validateText(text, MaxIdentifierBytes, FALSE)

validNamespace(text) == validateNamespace(text) = "OK"

patternBytes(pattern) == bytes(pattern.text) + (IF pattern.wildcard THEN 1 ELSE 0)

validateNamespacePattern(pattern) ==
  firstError(<<required(patternBytes(pattern) # 0), within(patternBytes(pattern) <= MaxIdentifierBytes + 1),
               required(pattern.text >= 0)>>)

validateTexts(texts) == firstError([i \in DOMAIN texts |-> validateIdentifier(texts[i])])

-----------------------------------------------------------------------------
(* Budgets.  int is signed and wraps.                                        *)

int(n) == ((n + MaxInt + 1) % (2 * MaxInt + 2)) - MaxInt - 1

newBudget(maximum) == [used |-> 0, max |-> maximum, ok |-> TRUE]

\* budgetCounter.add: once it has failed a budget stays failed.
budgetAdd(budget, size) ==
  IF ~ budget.ok \/ size < 0 \/ budget.used < 0 \/ budget.max < 0
     \/ size > budget.max \/ budget.used > int(budget.max - size)
    THEN [budget EXCEPT !.ok = FALSE]
    ELSE [budget EXCEPT !.used = int(@ + size)]

budgetAddMany(budget, count, size) ==
  IF count < 0 \/ size < 0 \/ (count # 0 /\ size > budget.max \div count)
    THEN [budget EXCEPT !.ok = FALSE]
    ELSE budgetAdd(budget, int(count * size))

RECURSIVE charge(_, _)
charge(budget, cost) ==
  IF cost = <<>> \/ ~ budget.ok THEN budget
  ELSE charge(budgetAddMany(budget, Head(cost)[1], Head(cost)[2]), Tail(cost))

\* A cost is the list of <<count, size>> charges its function makes.
spend(maximum, cost) == within(charge(newBudget(maximum), cost).ok)

-----------------------------------------------------------------------------
(* Lists of identifiers.                                                     *)

\* Equal neighbours of a sorted list are kept once.
withoutRepeats(values) ==
  LET keep(kept, value) == IF kept # <<>> /\ Last(kept) = value THEN kept ELSE Append(kept, value)
  IN FoldLeft(keep, <<>>, values)

\* Each identifier is charged and then looked at.
validateIdentifiers(values, maximumItems, maximumBytes) ==
  LET chargeThrough(i) == spend(maximumBytes, [j \in 1..i |-> <<1, bytes(values[j])>>])
  IN firstError(<<within(Len(values) <= maximumItems)>>
                \o FlattenSeq([i \in DOMAIN values |-> <<chargeThrough(i), validateIdentifier(values[i])>>]))

canonicalIdentifiers(values) == withoutRepeats(sortedBy(values, LAMBDA a, b : a < b))

validCanonicalIdentifiers(values, maximumItems, maximumBytes) ==
  /\ validateIdentifiers(values, maximumItems, maximumBytes) = "OK"
  /\ ascending(values, LAMBDA a, b : a < b)

=============================================================================
