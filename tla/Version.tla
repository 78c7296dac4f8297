------------------------------- MODULE Version -------------------------------
(***************************************************************************)
(* pkg/util/version: parsing and comparing version numbers.  The text of a *)
(* version is a record: whether it matches the expression of a version at  *)
(* all, its numbers, the positions written with a superfluous leading zero *)
(* and its pre-release identifiers.  Identifiers are numbers whose order   *)
(* is that of the code: numeric ones by value, before alphabetic ones.     *)
(***************************************************************************)
EXTENDS Naturals, Sequences, FiniteSetsExt

Text(numbers) == [matches |-> TRUE, numbers |-> numbers, zero |-> {}, pre |-> <<>>]

NoVersion == [ok |-> FALSE, components |-> <<>>, semver |-> FALSE, pre |-> <<>>]

\* A generic version has two or more components, a semantic one three; no
\* component that is checked starts with a zero.
Parse(text, semver) ==
  IF /\ text.matches
     /\ IF semver THEN Len(text.numbers) = 3 ELSE Len(text.numbers) >= 2
     /\ text.zero \cap (IF semver THEN DOMAIN text.numbers ELSE {1}) = {}
  THEN [ok |-> TRUE, components |-> text.numbers, semver |-> semver,
        pre |-> IF semver THEN text.pre ELSE <<>>]
  ELSE NoVersion

ParseGeneric(text) == Parse(text, FALSE)

\* The comparison of two lists of numbers from the left; what a list lacks
\* against a shorter other counts as zero, but not the other way round.
CompareComponents(v, other) ==
  LET differ == {i \in DOMAIN v : IF i > Len(other) THEN v[i] # 0 ELSE other[i] # v[i]}
      i      == Min(differ)
  IN  IF differ = {} THEN "equal"
      ELSE IF i > Len(other) \/ other[i] < v[i] THEN "greater" ELSE "less"

\* Mutant of CompareInternal: only the first two components are compared.
CompareMajorMinor(v, other) ==
  CompareComponents(SubSeq(v.components, 1, 2), SubSeq(other.components, 1, 2))

CompareInternal(v, other) ==
  LET numbers == CompareComponents(v.components, other.components)
      shorter == Len(v.pre) <= Len(other.pre)
      common  == 1..(IF shorter THEN Len(v.pre) ELSE Len(other.pre))
      differ  == {i \in common : v.pre[i] # other.pre[i]}
  IN  IF numbers # "equal" \/ ~ v.semver \/ ~ other.semver THEN numbers
      ELSE IF v.pre = other.pre THEN "equal"
      ELSE IF v.pre = <<>> THEN "greater"
      ELSE IF other.pre = <<>> THEN "less"
      ELSE IF differ # {}
           THEN IF other.pre[Min(differ)] < v.pre[Min(differ)] THEN "greater" ELSE "less"
      ELSE IF shorter THEN "equal" ELSE "greater"

AtLeast(v, min) == CompareInternal(v, min) # "less"

LessThan(v, other) == CompareInternal(v, other) = "less"

-----------------------------------------------------------------------------
\* What the comments promise: "non-present components being considered 0".
Component(s, i) == IF i \in DOMAIN s THEN s[i] ELSE 0

Before(s, t) ==
  \E i \in DOMAIN s \cup DOMAIN t :
    /\ Component(s, i) < Component(t, i)
    /\ \A j \in 1..(i - 1) : Component(s, j) = Component(t, j)
=============================================================================
