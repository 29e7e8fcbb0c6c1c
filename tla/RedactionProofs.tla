--------------------------- MODULE RedactionProofs ---------------------------
(***************************************************************************)
(* The one-pass reconstruction, for all texts, all lists of findings in    *)
(* any order, and all formatters.                                          *)
(***************************************************************************)
EXTENDS Redaction, SequenceTheorems, FiniteSetTheorems, TLAPS

---------------------------------------------------------------------------
(* The inductive invariant. *)

\* How far the call has come, and what an error leaves behind.
Progress ==
    /\ phase = "Idle" => /\ findings = <<>> /\ error = "None"
                         /\ cursor = 0 /\ placeholder_index = 0
    /\ phase = "Loop" => error = "None"
    /\ phase # "Loop" => pending = {}
    /\ phase = "Idle" \/ error # "None" => output = <<>>
    /\ phase # "Idle" /\ error = "None" => ordered_and_disjoint(findings)

\* The loop goes up the sorted list.
Sweep ==
    phase = "Loop" =>
        \A i \in DOMAIN findings \ pending, j \in pending : sorts_before(findings, i, j)

\* The cursor lies between what was replaced and what is still to be replaced.
CursorBetween ==
    phase = "Loop" =>
        \A i \in DOMAIN findings : replaces_text(findings[i]) =>
            IF i \in pending THEN cursor <= findings[i].start ELSE findings[i].end <= cursor

\* placeholder_index counts the findings that were replaced.
Replaced == {i \in DOMAIN findings \ pending : replaces_text(findings[i])}
Counted == phase = "Loop" => placeholder_index = Cardinality(Replaced)

IInv ==
    /\ TypeOK /\ Progress /\ Sweep /\ CursorBetween /\ Counted
    /\ OutputIsComplete /\ ReplacedTextIsGone /\ PlaceholdersRevealNothing
    /\ PlaceholdersNumbered

---------------------------------------------------------------------------
(* The order of the findings, and why comparing neighbours is enough. *)

\* sorts_before is a strict total order on the indices of a list.
LEMMA TotalOrder ==
    ASSUME NEW fs \in Seq(Finding)
    PROVE  /\ \A i \in DOMAIN fs : ~sorts_before(fs, i, i)
           /\ \A i, j \in DOMAIN fs : i # j => sorts_before(fs, i, j) \/ sorts_before(fs, j, i)
           /\ \A i, j, k \in DOMAIN fs :
                 sorts_before(fs, i, k) /\ sorts_before(fs, k, j) => sorts_before(fs, i, j)
  <1>1. DOMAIN fs \subseteq Nat
    OBVIOUS
  <1>2. \A i \in DOMAIN fs : fs[i].start \in Nat /\ fs[i].end \in Nat
    BY DEF Finding
  <1> QED BY <1>1, <1>2 DEF sorts_before

\* The indices that sort between two of them.
Between(fs, i, j) == {k \in DOMAIN fs : sorts_before(fs, i, k) /\ sorts_before(fs, k, j)}

LEMMA BetweenShrinks ==
    ASSUME NEW fs \in Seq(Finding), NEW i \in DOMAIN fs, NEW j \in DOMAIN fs,
           NEW k \in Between(fs, i, j)
    PROVE  /\ Cardinality(Between(fs, i, k)) < Cardinality(Between(fs, i, j))
           /\ Cardinality(Between(fs, k, j)) < Cardinality(Between(fs, i, j))
           /\ Cardinality(Between(fs, i, k)) \in Nat
           /\ Cardinality(Between(fs, k, j)) \in Nat
           /\ Cardinality(Between(fs, i, j)) \in Nat
  <1> DEFINE B == Between(fs, i, j)
  <1>1. IsFiniteSet(DOMAIN fs)
    <2>1. DOMAIN fs = 1 .. Len(fs) /\ Len(fs) \in Nat
      OBVIOUS
    <2> QED BY <2>1, FS_Interval
  <1>2. \A S : S \subseteq DOMAIN fs => IsFiniteSet(S) /\ Cardinality(S) \in Nat
    BY <1>1, FS_Subset, FS_CardinalityType
  <1>3. Between(fs, i, k) \subseteq B \ {k} /\ Between(fs, k, j) \subseteq B \ {k}
    BY TotalOrder DEF Between
  <1>4. B \subseteq DOMAIN fs /\ B \ {k} \subseteq DOMAIN fs
    BY DEF Between
  <1>5. Cardinality(B \ {k}) = Cardinality(B) - 1
    BY <1>2, <1>4, FS_RemoveElement
  <1>6. /\ Cardinality(Between(fs, i, k)) <= Cardinality(B \ {k})
        /\ Cardinality(Between(fs, k, j)) <= Cardinality(B \ {k})
    BY <1>2, <1>3, <1>4, FS_Subset
  <1>7. /\ Cardinality(Between(fs, i, k)) \in Nat /\ Cardinality(Between(fs, k, j)) \in Nat
        /\ Cardinality(B) \in Nat
    BY <1>2, <1>3, <1>4
  <1> QED BY <1>5, <1>6, <1>7

\* If no neighbours overlap, none do: a pair that overlaps with the fewest findings sorted between
\* has none between.
LEMMA NeighboursSuffice ==
    ASSUME NEW fs \in Seq(Finding), ordered_and_disjoint(fs)
    PROVE  \A i, j \in DOMAIN fs : sorts_before(fs, i, j) => fs[i].end <= fs[j].start
  <1> DEFINE Apart(i, j) == fs[i].end <= fs[j].start
             Bad == {p \in (DOMAIN fs) \X (DOMAIN fs) :
                        sorts_before(fs, p[1], p[2]) /\ ~Apart(p[1], p[2])}
             Size(p) == Cardinality(Between(fs, p[1], p[2]))
             Sizes == {Size(p) : p \in Bad}
             LT == {p \in Nat \X Nat : p[1] < p[2]}
  <1>1. SUFFICES ASSUME Bad # {} PROVE FALSE
    <2> SUFFICES ASSUME NEW x \in DOMAIN fs, NEW y \in DOMAIN fs,
                        sorts_before(fs, x, y), ~Apart(x, y)
                 PROVE  Bad # {}
      OBVIOUS
    <2>1. <<x, y>> \in Bad
      OBVIOUS
    <2> QED BY <2>1
  <1>2. \A p \in (DOMAIN fs) \X (DOMAIN fs) : Size(p) \in Nat
    <2>1. DOMAIN fs = 1 .. Len(fs) /\ Len(fs) \in Nat
      OBVIOUS
    <2>2. IsFiniteSet(DOMAIN fs)
      BY <2>1, FS_Interval
    <2>3. \A p \in (DOMAIN fs) \X (DOMAIN fs) : Between(fs, p[1], p[2]) \subseteq DOMAIN fs
      BY DEF Between
    <2> QED BY <2>2, <2>3, FS_Subset, FS_CardinalityType
  <1>3. Sizes \subseteq Nat /\ Sizes # {}
    BY <1>1, <1>2
  <1>4. PICK n \in Sizes : \A m \in Sizes : ~(<<m, n>> \in LT)
    <2>1. IsWellFoundedOn(LT, Nat)
      BY NatLessThanWellFounded DEF OpToRel
    <2> HIDE DEF LT, Sizes
    <2> QED BY <1>3, <2>1, WFMin
  <1>5. PICK p \in Bad : n = Size(p)
    BY <1>4
  <1> DEFINE i == p[1]
             j == p[2]
  <1>6. i \in DOMAIN fs /\ j \in DOMAIN fs /\ sorts_before(fs, i, j) /\ ~Apart(i, j)
    BY <1>5
  <1>7. PICK k \in DOMAIN fs : sorts_before(fs, i, k) /\ sorts_before(fs, k, j)
    BY <1>6 DEF ordered_and_disjoint, SortedNeighbours
  <1>8. Size(<<i, k>>) < n /\ Size(<<k, j>>) < n
    <2>1. k \in Between(fs, i, j)
      BY <1>7 DEF Between
    <2>2. n = Cardinality(Between(fs, i, j))
      BY <1>5
    <2>3. /\ Cardinality(Between(fs, i, k)) < Cardinality(Between(fs, i, j))
          /\ Cardinality(Between(fs, k, j)) < Cardinality(Between(fs, i, j))
      BY <1>6, <2>1, BetweenShrinks
    <2> QED BY <2>2, <2>3
  <1>9. Apart(i, k) /\ Apart(k, j)
    <2>1. \A m \in Nat : m < n => m \notin Sizes
      <3>1. n \in Nat
        BY <1>3, <1>4
      <3> QED BY <1>4, <3>1
    <2>2. Size(<<i, k>>) \notin Sizes /\ Size(<<k, j>>) \notin Sizes
      <3>1. <<i, k>> \in (DOMAIN fs) \X (DOMAIN fs) /\ <<k, j>> \in (DOMAIN fs) \X (DOMAIN fs)
        BY <1>6, <1>7
      <3> QED BY <1>2, <1>8, <2>1, <3>1
    <2>3. <<i, k>> \notin Bad /\ <<k, j>> \notin Bad
      BY <2>2
    <2> QED BY <1>6, <1>7, <2>3
  <1>10. \A x \in DOMAIN fs : fs[x].start \in Nat /\ fs[x].end \in Nat /\ fs[x].start < fs[x].end
    BY DEF Finding
  <1> QED BY <1>6, <1>7, <1>9, <1>10

\* The code compares each finding with the one sorted before it; the two of every pair are apart.
LEMMA PairsApart ==
    ASSUME NEW fs \in Seq(Finding), ordered_and_disjoint(fs),
           NEW i \in DOMAIN fs, NEW j \in DOMAIN fs, i # j
    PROVE  fs[i].end <= fs[j].start \/ fs[j].end <= fs[i].start
  BY NeighboursSuffice, TotalOrder

---------------------------------------------------------------------------
(* One lemma per action. *)

LEMMA InitHolds == Init => IInv
  <1> SUFFICES ASSUME Init PROVE IInv
    OBVIOUS
  <1>1. TypeOK
    BY HostWorld DEF Init, TypeOK
  <1>2. Progress /\ Sweep /\ CursorBetween /\ Counted
    BY DEF Init, Progress, Sweep, CursorBetween, Counted
  <1>3. /\ OutputIsComplete /\ ReplacedTextIsGone /\ PlaceholdersRevealNothing
        /\ PlaceholdersNumbered
    BY DEF Init, OutputIsComplete, ReplacedTextIsGone, PlaceholdersRevealNothing,
           PlaceholdersNumbered
  <1> QED BY <1>1, <1>2, <1>3 DEF IInv

LEMMA RejectFindingsPreserves ==
    ASSUME IInv, NEW fs \in FindingLists, RejectFindings(fs)
    PROVE  IInv'
  <1> USE DEF IInv
  <1>1. output = <<>> /\ output' = <<>> /\ pending' = {} /\ phase' = "Done"
    BY DEF Progress, RejectFindings
  <1>2. TypeOK'
    BY HostWorld, <1>1 DEF RejectFindings, TypeOK
  <1>3. Progress' /\ Sweep' /\ CursorBetween' /\ Counted'
    BY <1>1 DEF RejectFindings, Progress, Sweep, CursorBetween, Counted
  <1>4. /\ OutputIsComplete' /\ ReplacedTextIsGone' /\ PlaceholdersRevealNothing'
        /\ PlaceholdersNumbered'
    BY <1>1 DEF RejectFindings, OutputIsComplete, ReplacedTextIsGone, PlaceholdersRevealNothing,
           PlaceholdersNumbered
  <1> QED BY <1>2, <1>3, <1>4

LEMMA RedactPreserves ==
    ASSUME IInv, NEW fs \in FindingLists, Redact(fs)
    PROVE  IInv'
  <1> USE DEF IInv
  <1>1. /\ output = <<>> /\ output' = <<>> /\ pending' = DOMAIN findings' /\ phase' = "Loop"
        /\ cursor' = 0 /\ placeholder_index' = 0 /\ error' = "None"
        /\ findings' = fs /\ ordered_and_disjoint(fs)
    BY DEF Progress, Redact
  <1>2. findings' \in Seq(Finding)
    BY HostWorld, <1>1
  <1>3. TypeOK'
    BY HostWorld, <1>1, <1>2 DEF TypeOK
  <1>4. Progress' /\ Sweep'
    BY <1>1 DEF Progress, Sweep, ordered_and_disjoint, SortedNeighbours, sorts_before
  <1>5. CursorBetween'
    BY <1>1, <1>2 DEF CursorBetween, Finding
  <1>6. Counted'
    BY <1>1, FS_EmptySet DEF Counted, Replaced
  <1>7. /\ OutputIsComplete' /\ ReplacedTextIsGone' /\ PlaceholdersRevealNothing'
        /\ PlaceholdersNumbered'
    BY <1>1 DEF OutputIsComplete, ReplacedTextIsGone, PlaceholdersRevealNothing,
           PlaceholdersNumbered
  <1> QED BY <1>3, <1>4, <1>5, <1>6, <1>7

\* Where the loop stands when it comes to finding i.
LEMMA AtFinding ==
    ASSUME IInv, NEW i \in pending, IsNext(i)
    PROVE  /\ i \in DOMAIN findings /\ findings \in Seq(Finding) /\ error = "None"
           /\ ordered_and_disjoint(findings)
           /\ findings[i].start \in Nat /\ findings[i].end \in Nat
           /\ findings[i].start < findings[i].end /\ findings[i].end <= input_len
           /\ \A j \in pending \ {i} : findings[i].end <= findings[j].start
           /\ \A k \in DOMAIN findings \ pending : findings[k].end <= findings[i].start
  <1>1. i \in DOMAIN findings /\ findings \in Seq(Finding) /\ phase = "Loop"
    BY DEF IInv, TypeOK, IsNext
  <1>2. error = "None" /\ ordered_and_disjoint(findings)
    BY <1>1 DEF IInv, Progress
  <1>3. findings[i] \in Finding /\ findings[i].end <= input_len
    BY <1>1, <1>2 DEF ordered_and_disjoint
  <1>4. \A j \in pending \ {i} : sorts_before(findings, i, j) /\ j \in DOMAIN findings
    BY DEF IsNext, IInv, TypeOK
  <1>5. \A k \in DOMAIN findings \ pending : sorts_before(findings, k, i)
    BY <1>1 DEF IInv, Sweep
  <1>6. \A x, y \in DOMAIN findings :
            sorts_before(findings, x, y) => findings[x].end <= findings[y].start
    BY <1>1, <1>2, NeighboursSuffice
  <1> QED BY <1>1, <1>2, <1>3, <1>4, <1>5, <1>6 DEF Finding

\* The part of the sweep that does not depend on what is done with finding i.
LEMMA SweepPreserves ==
    ASSUME IInv, NEW i \in pending, IsNext(i), pending' = pending \ {i},
           UNCHANGED <<findings, phase, error>>
    PROVE  Sweep'
  <1>1. phase = "Loop" /\ pending \subseteq DOMAIN findings
    BY DEF IsNext, IInv, TypeOK
  <1>2. SUFFICES ASSUME NEW k \in DOMAIN findings \ pending', NEW j \in pending'
                 PROVE  sorts_before(findings, k, j)
    BY DEF Sweep, sorts_before
  <1>3. CASE k = i
    BY <1>3 DEF IsNext
  <1>4. CASE k # i
    BY <1>1, <1>4 DEF IInv, Sweep
  <1> QED BY <1>3, <1>4

LEMMA PassThroughPreserves ==
    ASSUME IInv, NEW i \in pending, PassThrough(i)
    PROVE  IInv'
  <1> USE DEF IInv
  <1>1. /\ IsNext(i) /\ ~replaces_text(findings[i]) /\ pending' = pending \ {i}
        /\ UNCHANGED <<findings, phase, cursor, placeholder_index, output, error>>
    BY DEF PassThrough
  <1>2. TypeOK' /\ Progress'
    BY <1>1 DEF TypeOK, Progress, IsNext, ordered_and_disjoint, SortedNeighbours, sorts_before
  <1>3. Sweep'
    BY <1>1, SweepPreserves
  <1>4. CursorBetween'
    BY <1>1 DEF CursorBetween, replaces_text
  <1>5. Counted'
    <2>1. Replaced' = Replaced
      BY <1>1 DEF Replaced, replaces_text
    <2> QED BY <1>1, <2>1 DEF Counted
  <1>6. /\ OutputIsComplete' /\ ReplacedTextIsGone' /\ PlaceholdersRevealNothing'
        /\ PlaceholdersNumbered'
    BY <1>1 DEF OutputIsComplete, ReplacedTextIsGone, PlaceholdersRevealNothing,
           PlaceholdersNumbered, replaces_text
  <1> QED BY <1>2, <1>3, <1>4, <1>5, <1>6

LEMMA ReplaceFailsPreserves ==
    ASSUME IInv, NEW i \in pending, ReplaceFails(i)
    PROVE  IInv'
  <1> USE DEF IInv
  <1>1. /\ output' = <<>> /\ pending' = {} /\ phase' = "Done" /\ error' # "None"
        /\ UNCHANGED <<findings, cursor, placeholder_index>>
    BY DEF ReplaceFails
  <1>2. TypeOK'
    BY <1>1 DEF TypeOK
  <1>3. Progress' /\ Sweep' /\ CursorBetween' /\ Counted'
    BY <1>1 DEF Progress, Sweep, CursorBetween, Counted
  <1>4. /\ OutputIsComplete' /\ ReplacedTextIsGone' /\ PlaceholdersRevealNothing'
        /\ PlaceholdersNumbered'
    BY <1>1 DEF OutputIsComplete, ReplacedTextIsGone, PlaceholdersRevealNothing,
           PlaceholdersNumbered
  <1> QED BY <1>2, <1>3, <1>4

\* The pieces Replace appends, and where they stand.
LEMMA ReplacePieces ==
    ASSUME IInv, NEW i \in pending, NEW p \in Placeholder, Replace(i, p)
    PROVE  LET n == Len(output)
           IN  /\ n \in Nat /\ Len(output') = n + 2
               /\ \A k \in 1 .. n : output'[k] = output[k]
               /\ output'[n + 1] = Text(cursor, findings[i].start)
               /\ output'[n + 2] = Placed(p, placeholder_index + 1, findings[i])
  <1>1. output \in Seq(Piece)
    BY DEF IInv, TypeOK
  <1>2. output' = output \o <<Text(cursor, findings[i].start),
                              Placed(p, placeholder_index + 1, findings[i])>>
    BY DEF Replace
  <1> QED BY <1>1, <1>2

\* The findings to be replaced that start no later than the one replaced now are it and those
\* replaced before it.
LEMMA ReplacedSoFar ==
    ASSUME IInv, NEW i \in pending, IsNext(i), replaces_text(findings[i]),
           pending' = pending \ {i}, findings' = findings
    PROVE  /\ Replaced' = Replaced \cup {i} /\ i \notin Replaced
           /\ {k \in DOMAIN findings :
                  replaces_text(findings[k]) /\ findings[k].start <= findings[i].start} = Replaced'
           /\ Cardinality(Replaced') = placeholder_index + 1
  <1>1. Replaced' = Replaced \cup {i} /\ i \notin Replaced
    BY DEF Replaced, replaces_text, IInv, TypeOK
  <1>2. ASSUME NEW k \in DOMAIN findings
        PROVE  findings[k].start <= findings[i].start <=> (k \notin pending \/ k = i)
    <2>1. findings[k].start \in Nat /\ findings[k].end \in Nat /\ findings[k].start < findings[k].end
      BY DEF IInv, TypeOK, Finding
    <2> QED BY <2>1, AtFinding
  <1>3. Replaced' = {k \in DOMAIN findings :
                        replaces_text(findings[k]) /\ findings[k].start <= findings[i].start}
    BY <1>2, AtFinding DEF Replaced, replaces_text
  <1>4. IsFiniteSet(Replaced)
    <2>1. DOMAIN findings = 1 .. Len(findings) /\ Len(findings) \in Nat
      BY DEF IInv, TypeOK
    <2>2. IsFiniteSet(DOMAIN findings)
      BY <2>1, FS_Interval
    <2>3. Replaced \subseteq DOMAIN findings
      BY DEF Replaced
    <2> QED BY <2>2, <2>3, FS_Subset
  <1>5. Cardinality(Replaced') = Cardinality(Replaced) + 1
    BY <1>1, <1>4, FS_AddElement
  <1>6. Cardinality(Replaced) = placeholder_index
    BY DEF IInv, Counted, IsNext
  <1> QED BY <1>1, <1>3, <1>5, <1>6

LEMMA ReplacePreserves ==
    ASSUME IInv, NEW i \in pending, NEW p \in Placeholder, Replace(i, p)
    PROVE  IInv'
  <1> USE DEF IInv
  <1> DEFINE n == Len(output)
             f == findings[i]
  <1>1. /\ IsNext(i) /\ replaces_text(f) /\ valid_placeholder(p) /\ pending' = pending \ {i}
        /\ placeholder_index' = placeholder_index + 1 /\ cursor' = f.end
        /\ UNCHANGED <<findings, phase, error>>
    BY DEF Replace
  <1>2. /\ i \in DOMAIN findings /\ findings \in Seq(Finding) /\ error = "None"
        /\ f.start \in Nat /\ f.end \in Nat /\ f.start < f.end /\ f.end <= input_len
        /\ \A j \in pending \ {i} : f.end <= findings[j].start
        /\ \A k \in DOMAIN findings \ pending : findings[k].end <= f.start
    BY <1>1, AtFinding
  <1>3. phase = "Loop" /\ cursor \in Nat /\ cursor <= f.start /\ placeholder_index \in Nat
    BY <1>1, <1>2, HostWorld DEF IsNext, CursorBetween, TypeOK
  <1>4. /\ n \in Nat /\ Len(output') = n + 2
        /\ \A k \in 1 .. n : output'[k] = output[k]
        /\ output'[n + 1] = Text(cursor, f.start)
        /\ output'[n + 2] = Placed(p, placeholder_index + 1, f)
    BY ReplacePieces
  <1>5. TypeOK'
    <2>1. Text(cursor, f.start) \in Piece
      BY <1>2, <1>3, HostWorld DEF Text, Piece
    <2>2. Placed(p, placeholder_index + 1, f) \in Piece
      BY <1>2, <1>3, HostWorld DEF Placed, Piece
    <2>3. output' \in Seq(Piece)
      BY <2>1, <2>2 DEF Replace, TypeOK
    <2> QED BY <1>1, <1>2, <1>3, <2>3, HostWorld DEF TypeOK
  <1>6. Progress'
    BY <1>1, <1>2, <1>3 DEF Progress, ordered_and_disjoint, SortedNeighbours, sorts_before
  <1>7. Sweep'
    BY <1>1, SweepPreserves
  <1>8. CursorBetween'
    <2> SUFFICES ASSUME NEW k \in DOMAIN findings, replaces_text(findings[k])
                 PROVE  IF k \in pending' THEN f.end <= findings[k].start
                                          ELSE findings[k].end <= f.end
      BY <1>1 DEF CursorBetween, replaces_text
    <2>1. findings[k].end \in Nat
      BY <1>2 DEF Finding
    <2> QED BY <1>1, <1>2, <2>1
  <1>9. Counted'
    BY <1>1, ReplacedSoFar DEF Counted
  <1>10. OutputIsComplete'
    <2>1. \A k \in 1 .. n : /\ output'[k].from <= output'[k].to
                            /\ output'[k].from = IF k = 1 THEN 0 ELSE output'[k - 1].to
      BY <1>4 DEF OutputIsComplete
    <2>2. cursor = IF n = 0 THEN 0 ELSE output[n].to
      <3>1. output = <<>> <=> n = 0
        BY DEF TypeOK
      <3> QED BY <1>3, <3>1 DEF OutputIsComplete
    <2>3. /\ output'[n + 1].from = cursor /\ output'[n + 1].to = f.start
          /\ output'[n + 2].from = f.start /\ output'[n + 2].to = f.end
      BY <1>4 DEF Text, Placed
    <2>4. output' # <<>>
      BY <1>4
    <2>5. n >= 1 => output'[n] = output[n]
      BY <1>4
    <2>6. \A k \in 1 .. n + 2 : /\ output'[k].from <= output'[k].to
                                /\ output'[k].from = IF k = 1 THEN 0 ELSE output'[k - 1].to
      <3> TAKE k \in 1 .. n + 2
      <3>1. CASE k \in 1 .. n
        BY <2>1, <3>1
      <3>2. CASE k = n + 1
        BY <1>2, <1>3, <1>4, <2>2, <2>3, <2>5, <3>2
      <3>3. CASE k = n + 2
        BY <1>2, <1>4, <2>3, <3>3
      <3> QED BY <1>4, <3>1, <3>2, <3>3
    <2> QED BY <1>1, <1>3, <1>4, <2>3, <2>4, <2>6 DEF OutputIsComplete
  <1>11. ReplacedTextIsGone'
    <2> SUFFICES ASSUME NEW k \in 1 .. n + 2, NEW x \in DOMAIN findings,
                        output'[k].kind = "text", replaces_text(findings[x])
                 PROVE  findings[x].end <= output'[k].from \/ output'[k].to <= findings[x].start
      BY <1>1, <1>4 DEF ReplacedTextIsGone, replaces_text
    <2>1. CASE k \in 1 .. n
      BY <1>4, <2>1 DEF ReplacedTextIsGone
    <2>2. CASE k = n + 1
      <3>1. findings[x].start \in Nat /\ findings[x].end \in Nat
        BY <1>2 DEF Finding
      <3>2. findings[x].end <= cursor \/ f.start <= findings[x].start
        <4>1. CASE x \notin pending
          BY <1>3, <4>1 DEF CursorBetween
        <4>2. CASE x \in pending /\ x # i
          BY <1>2, <3>1, <4>2
        <4>3. CASE x = i
          BY <1>2, <4>3
        <4> QED BY <4>1, <4>2, <4>3
      <3> QED BY <1>4, <2>2, <3>2 DEF Text
    <2>3. CASE k = n + 2
      BY <1>4, <2>3 DEF Placed
    <2> QED BY <1>4, <2>1, <2>2, <2>3
  <1>12. PlaceholdersRevealNothing'
    <2> SUFFICES ASSUME NEW k \in 1 .. n + 2, NEW x \in DOMAIN findings,
                        output'[k].kind = "placeholder", replaces_text(findings[x])
                 PROVE  <<output'[k].is, findings[x].start, findings[x].end>> \notin Reproduces
      BY <1>1, <1>4 DEF PlaceholdersRevealNothing, replaces_text
    <2>1. CASE k \in 1 .. n
      BY <1>4, <2>1 DEF PlaceholdersRevealNothing
    <2>2. CASE k = n + 1
      BY <1>4, <2>2 DEF Text
    <2>3. CASE k = n + 2
      BY <1>1, <1>4, <2>3 DEF Placed, valid_placeholder, forbidden
    <2> QED BY <1>4, <2>1, <2>2, <2>3
  <1>13. PlaceholdersNumbered'
    <2> DEFINE UpTo(at) == {x \in DOMAIN findings :
                               replaces_text(findings[x]) /\ findings[x].start <= at}
    <2> SUFFICES ASSUME NEW k \in 1 .. n + 2, output'[k].kind = "placeholder"
                 PROVE  output'[k].number = Cardinality(UpTo(output'[k].from))
      BY <1>1, <1>4 DEF PlaceholdersNumbered, replaces_text
    <2>1. CASE k \in 1 .. n
      BY <1>4, <2>1 DEF PlaceholdersNumbered
    <2>2. CASE k = n + 1
      BY <1>4, <2>2 DEF Text
    <2>3. CASE k = n + 2
      <3>1. output'[k].number = placeholder_index + 1 /\ output'[k].from = f.start
        BY <1>4, <2>3 DEF Placed
      <3>2. UpTo(f.start) = Replaced' /\ Cardinality(Replaced') = placeholder_index + 1
        BY <1>1, ReplacedSoFar
      <3> QED BY <3>1, <3>2
    <2> QED BY <1>4, <2>1, <2>2, <2>3
  <1> QED BY <1>5, <1>6, <1>7, <1>8, <1>9, <1>10, <1>11, <1>12, <1>13

LEMMA ReturnPreserves ==
    ASSUME IInv, Return
    PROVE  IInv'
  <1> USE DEF IInv
  <1> DEFINE n == Len(output)
  <1>1. /\ phase = "Loop" /\ pending = {} /\ phase' = "Done" /\ error = "None"
        /\ UNCHANGED <<findings, pending, cursor, placeholder_index, error>>
    BY DEF Return, Progress
  <1>2. output \in Seq(Piece) /\ output' = Append(output, Text(cursor, input_len))
    BY DEF TypeOK, Return
  <1>3. /\ n \in Nat /\ Len(output') = n + 1
        /\ \A k \in 1 .. n : output'[k] = output[k]
        /\ output'[n + 1] = Text(cursor, input_len)
    BY <1>2
  <1>4. cursor \in 0 .. input_len /\ input_len \in Nat
    BY HostWorld DEF TypeOK
  <1>5. TypeOK'
    <2>1. Text(cursor, input_len) \in Piece
      BY <1>4 DEF Text, Piece
    <2> QED BY <1>1, <1>2, <2>1 DEF TypeOK
  <1>6. Progress' /\ Sweep' /\ CursorBetween' /\ Counted'
    BY <1>1 DEF Progress, Sweep, CursorBetween, Counted, ordered_and_disjoint, SortedNeighbours,
                sorts_before
  <1>7. OutputIsComplete'
    <2>1. cursor = IF n = 0 THEN 0 ELSE output[n].to
      <3>1. output = <<>> <=> n = 0
        BY <1>2
      <3> QED BY <1>1, <3>1 DEF OutputIsComplete
    <2>2. output'[n + 1].from = cursor /\ output'[n + 1].to = input_len
      BY <1>3 DEF Text
    <2>3. \A k \in 1 .. n : /\ output'[k].from <= output'[k].to
                            /\ output'[k].from = IF k = 1 THEN 0 ELSE output'[k - 1].to
      BY <1>3 DEF OutputIsComplete
    <2>4. n >= 1 => output'[n] = output[n]
      BY <1>3
    <2> QED BY <1>1, <1>3, <1>4, <2>1, <2>2, <2>3, <2>4 DEF OutputIsComplete
  <1>8. ReplacedTextIsGone'
    <2>1. \A x \in DOMAIN findings : replaces_text(findings[x]) => findings[x].end <= cursor
      BY <1>1 DEF CursorBetween
    <2>2. output'[n + 1].from = cursor
      BY <1>3 DEF Text
    <2> QED BY <1>1, <1>3, <2>1, <2>2 DEF ReplacedTextIsGone, replaces_text
  <1>9. PlaceholdersRevealNothing' /\ PlaceholdersNumbered'
    <2>1. output'[n + 1].kind = "text"
      BY <1>3 DEF Text
    <2> QED BY <1>1, <1>3, <2>1 DEF PlaceholdersRevealNothing, PlaceholdersNumbered, replaces_text
  <1> QED BY <1>5, <1>6, <1>7, <1>8, <1>9

LEMMA NextPreserves == IInv /\ [Next]_vars => IInv'
  <1> SUFFICES ASSUME IInv, [Next]_vars PROVE IInv'
    OBVIOUS
  <1>1. ASSUME NEW fs \in FindingLists, RejectFindings(fs) PROVE IInv'
    BY <1>1, RejectFindingsPreserves
  <1>2. ASSUME NEW fs \in FindingLists, Redact(fs) PROVE IInv'
    BY <1>2, RedactPreserves
  <1>3. ASSUME NEW i \in pending, PassThrough(i) PROVE IInv'
    BY <1>3, PassThroughPreserves
  <1>4. ASSUME NEW i \in pending, ReplaceFails(i) PROVE IInv'
    BY <1>4, ReplaceFailsPreserves
  <1>5. ASSUME NEW i \in pending, NEW p \in Placeholder, Replace(i, p) PROVE IInv'
    BY <1>5, ReplacePreserves
  <1>6. CASE Return
    BY <1>6, ReturnPreserves
  <1>7. CASE UNCHANGED vars
    BY <1>7 DEF vars, IInv, TypeOK, Progress, Sweep, CursorBetween, Counted, Replaced,
        OutputIsComplete, ReplacedTextIsGone, PlaceholdersRevealNothing, PlaceholdersNumbered,
        ordered_and_disjoint, SortedNeighbours, sorts_before, replaces_text
  <1> QED BY <1>1, <1>2, <1>3, <1>4, <1>5, <1>6, <1>7 DEF Next

---------------------------------------------------------------------------

\* The invariant above holds whenever the reconstruction can be looked at.
THEOREM Invariant == Spec => []IInv
  <1> QED BY InitHolds, NextPreserves, PTL DEF Spec

\* The state of redact.rs keeps its types; the cursor never leaves the text.
THEOREM TypeCorrect == Spec => []TypeOK
  <1>1. IInv => TypeOK
    BY DEF IInv
  <1> QED BY <1>1, Invariant, PTL

\* The comparison of sorted neighbours refuses every list with two findings that share a byte,
\* however many findings it has and in whatever order they come.
THEOREM RefusalIsComplete == Spec => []OverlapsRefused
  <1>1. IInv => OverlapsRefused
    <2> SUFFICES ASSUME IInv, phase = "Loop" PROVE OverlapsRefused
      BY DEF OverlapsRefused
    <2>1. findings \in Seq(Finding) /\ ordered_and_disjoint(findings)
      BY DEF IInv, TypeOK, Progress
    <2> QED BY <2>1, PairsApart DEF OverlapsRefused
  <1> QED BY <1>1, Invariant, PTL

\* The one pass loses no byte of the text and repeats none, and a placeholder's number is its place
\* among the replaced findings of the text.
THEOREM NothingLost == Spec => []RedactedInPlace
  <1>1. IInv => RedactedInPlace
    BY DEF IInv, RedactedInPlace
  <1> QED BY <1>1, Invariant, PTL

\* No byte of a finding to be replaced comes through the reconstruction.
THEOREM SecretsReplaced == Spec => []ReplacedTextIsGone
  <1>1. IInv => ReplacedTextIsGone
    BY DEF IInv
  <1> QED BY <1>1, Invariant, PTL

\* No formatter can bring a replaced value back through a placeholder of the same call.
THEOREM PlaceholdersSafe == Spec => []PlaceholdersRevealNothing
  <1>1. IInv => PlaceholdersRevealNothing
    BY DEF IInv
  <1> QED BY <1>1, Invariant, PTL

=============================================================================
