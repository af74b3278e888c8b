--------------------------- MODULE EvolutionProofs ---------------------------
(***************************************************************************)
(* Proofs about the evolution engine (evolution.py).                       *)
(*                                                                         *)
(* Of Incidents, for any number of processes, action lists and incidents:  *)
(* what the migration disables stays disabled, a live rule never loses the *)
(* pattern it was made for, and no pattern claims more incidents than were *)
(* recorded.                                                               *)
(*                                                                         *)
(* Of Handoffs, for any number of rules and dispatchers and of writes,     *)
(* failures and deaths: what is listed was delivered, no rule vanishes,    *)
(* and no handoff is listed twice but for a newer one.                     *)
(***************************************************************************)
EXTENDS Incidents, Handoffs, FiniteSetTheorems, WellFoundedInduction, TLAPS

-----------------------------------------------------------------------------
(* Row ids                                                                 *)

\* A set of naturals that is not empty has a least one.
LEMMA LeastNatural ==
    ASSUME NEW T \in SUBSET Nat, T # {}
    PROVE  \E t \in T : \A u \in T : t <= u
<1> DEFINE R == {ss \in Nat \X Nat : ss[1] < ss[2]}
<1>1. IsWellFoundedOn(R, Nat)
  BY NatLessThanWellFounded, Zenon DEF OpToRel
<1> HIDE DEF R
<1>2. PICK t \in T : \A u \in T : ~(<<u, t>> \in R)
  BY <1>1, WFMin
<1>3. \A u \in T : ~(u < t)
  BY <1>2 DEF R
<1> QED BY <1>3

\* A set of ids that are in use has a largest one.
LEMMA LargestId ==
    ASSUME NEW n \in Nat, NEW D \in SUBSET (1..n), D # {}
    PROVE  /\ Max(D) \in D
           /\ \A y \in D : Max(D) >= y
<1> DEFINE T == {n - x : x \in D}
<1>1. T \in SUBSET Nat /\ T # {}
  <2>1. \A x \in D : n - x \in Nat
    OBVIOUS
  <2> QED BY <2>1
<1>2. PICK t \in T : \A y \in T : t <= y
  <2> HIDE DEF T
  <2> QED BY <1>1, LeastNatural
<1>3. PICK x \in D : t = n - x
  BY <1>2
<1>4. \A y \in D : x >= y
  <2> TAKE y \in D
  <2>1. t <= n - y
    BY <1>2
  <2> QED BY <1>3, <2>1
<1> QED BY <1>4 DEF Max

IsRow(r) ==
    /\ r = [hash |-> r.hash, count |-> r.count, status |-> r.status]
    /\ r.hash \in Hash
    /\ r.status \in Status

IsRows(rows) ==
    /\ \E n \in Nat : DOMAIN rows \subseteq 1..n
    /\ rows = [i \in DOMAIN rows |-> rows[i]]
    /\ \A i \in DOMAIN rows : IsRow(rows[i])

\* SQLite gives a new row an id larger than those in use.
LEMMA NextIdIsNew ==
    ASSUME NEW rows, IsRows(rows)
    PROVE  /\ NextId(rows) \in Nat \ {0}
           /\ \A i \in DOMAIN rows : i \in Nat \ {0} /\ i < NextId(rows)
<1>1. PICK n \in Nat : DOMAIN rows \subseteq 1..n
  BY DEF IsRows
<1>2. CASE DOMAIN rows = {}
  BY <1>2 DEF NextId
<1>3. CASE DOMAIN rows # {}
  <2>1. /\ Max(DOMAIN rows) \in DOMAIN rows
        /\ \A y \in DOMAIN rows : Max(DOMAIN rows) >= y
    BY <1>1, <1>3, LargestId
  <2>2. NextId(rows) = Max(DOMAIN rows) + 1
    BY <1>3 DEF NextId
  <2> QED BY <1>1, <2>1, <2>2
<1> QED BY <1>2, <1>3

\* later has the rows of rows, and others that are among new[1..n].
Extended(rows, later, new, n) ==
    /\ IsRows(later)
    /\ \A i \in DOMAIN rows : i \in DOMAIN later /\ later[i] = rows[i]
    /\ \A i \in DOMAIN later \ DOMAIN rows : \E k \in 1..n : later[i] = new[k]

\* Inserting rows leaves the rows that were there as they were.
LEMMA InsertAddsRows ==
    ASSUME NEW rows, IsRows(rows), NEW n \in Nat, NEW new,
           DOMAIN new = 1..n, Len(new) = n, \A k \in 1..n : IsRow(new[k])
    PROVE  Extended(rows, Insert(rows, new), new, n)
<1> DEFINE m == NextId(rows)
           D == DOMAIN rows \union m..(m + Len(new) - 1)
<1>1. /\ m \in Nat \ {0}
      /\ \A i \in DOMAIN rows : i \in Nat \ {0} /\ i < m
  BY NextIdIsNew
<1>2. Insert(rows, new) = [j \in D |-> IF j < m THEN rows[j] ELSE new[j - m + 1]]
  BY DEF Insert
<1>3. /\ DOMAIN Insert(rows, new) = D
      /\ Insert(rows, new) = [j \in D |-> Insert(rows, new)[j]]
  BY <1>2
<1> HIDE DEF m
<1>4. \A i \in DOMAIN rows : Insert(rows, new)[i] = rows[i]
  BY <1>1, <1>2
<1>5. \A i \in D \ DOMAIN rows : i - m + 1 \in 1..n /\ Insert(rows, new)[i] = new[i - m + 1]
  BY <1>1, <1>2
<1>6. D \subseteq 1..(m + n) /\ m + n \in Nat
  BY <1>1
<1> HIDE DEF D
<1>7. \A i \in D : IsRow(Insert(rows, new)[i])
  BY <1>3, <1>4, <1>5 DEF IsRows
<1>8. IsRows(Insert(rows, new))
  BY <1>3, <1>6, <1>7 DEF IsRows
<1>9. DOMAIN rows \subseteq D
  BY DEF D
<1> QED BY <1>3, <1>4, <1>5, <1>8, <1>9 DEF Extended

-----------------------------------------------------------------------------
(* Splitting a legacy pattern                                              *)

Rule == [pattern: Nat, code: Hash, status: Status]

RowsInv == IsRows(patterns) /\ catalog \in Seq(Rule)

\* What Disable and DisableRules return: row i and its rules are not live, and
\* everything else is as it was.
LEMMA Disabling ==
    ASSUME RowsInv, NEW i
    PROVE  /\ IsRows(Disable(patterns, i))
           /\ DOMAIN Disable(patterns, i) = DOMAIN patterns
           /\ \A j \in DOMAIN patterns \ {i} : Disable(patterns, i)[j] = patterns[j]
           /\ i \in DOMAIN patterns => Disable(patterns, i)[i].status \notin Live
           /\ DisableRules(catalog, i) \in Seq(Rule)
           /\ DOMAIN DisableRules(catalog, i) = DOMAIN catalog
           /\ \A r \in DOMAIN catalog :
                 /\ DisableRules(catalog, i)[r].code = catalog[r].code
                 /\ DisableRules(catalog, i)[r].pattern = catalog[r].pattern
                 /\ DisableRules(catalog, i)[r].status \in Live =>
                       DisableRules(catalog, i)[r] = catalog[r] /\ catalog[r].pattern # i
<1> DEFINE rows == Disable(patterns, i)
           rules == DisableRules(catalog, i)
<1>1. "disabled" \in Status \ Live
  BY DEF Status, Live
<1>2. /\ DOMAIN rows = DOMAIN patterns
      /\ rows = [j \in DOMAIN patterns |-> rows[j]]
      /\ \A j \in DOMAIN patterns \ {i} : rows[j] = patterns[j]
      /\ i \in DOMAIN patterns => rows[i] = [patterns[i] EXCEPT !.status = "disabled"]
  BY DEF Disable, RowsInv, IsRows
<1>3. ASSUME i \in DOMAIN patterns
      PROVE  IsRow(rows[i]) /\ rows[i].status = "disabled"
  <2>1. patterns[i] = [hash |-> patterns[i].hash, count |-> patterns[i].count,
                       status |-> patterns[i].status]
        /\ patterns[i].hash \in Hash
    BY <1>3 DEF RowsInv, IsRows, IsRow
  <2>2. rows[i] = [hash |-> patterns[i].hash, count |-> patterns[i].count,
                   status |-> "disabled"]
    BY <1>2, <1>3, <2>1
  <2> QED BY <1>1, <2>1, <2>2 DEF IsRow
<1> HIDE DEF rows
<1>4. IsRows(rows)
  <2>1. \A j \in DOMAIN rows : IsRow(rows[j])
    BY <1>2, <1>3 DEF RowsInv, IsRows
  <2> QED BY <1>2, <2>1 DEF RowsInv, IsRows
<1>5. catalog \in Seq(Rule)
  BY DEF RowsInv
<1>6. \A r \in DOMAIN catalog : catalog[r] \in Rule
  BY <1>5
<1>7. DOMAIN rules = DOMAIN catalog
  BY DEF DisableRules
<1>8. ASSUME NEW r \in DOMAIN catalog
      PROVE  /\ rules[r] \in Rule
             /\ rules[r].code = catalog[r].code
             /\ rules[r].pattern = catalog[r].pattern
             /\ rules[r].status \in Live => rules[r] = catalog[r] /\ catalog[r].pattern # i
  <2>1. catalog[r] \in Rule
    BY <1>6
  <2>2. CASE catalog[r].pattern = i
    <3>1. rules[r] = [catalog[r] EXCEPT !.status = "disabled"]
      BY <2>2 DEF DisableRules
    <3> QED BY <1>1, <2>1, <3>1 DEF Rule
  <2>3. CASE catalog[r].pattern # i
    <3>1. rules[r] = catalog[r]
      BY <2>3 DEF DisableRules
    <3> QED BY <2>1, <2>3, <3>1
  <2> QED BY <2>2, <2>3
<1>9. rules \in Seq(Rule)
  <2>1. rules = [r \in 1..Len(catalog) |-> rules[r]] /\ Len(catalog) \in Nat
    BY <1>5 DEF DisableRules
  <2>2. \A r \in 1..Len(catalog) : rules[r] \in Rule
    BY <1>5, <1>8
  <2> HIDE DEF rules
  <2> QED BY <2>1, <2>2
<1> QED BY <1>1, <1>2, <1>3, <1>4, <1>7, <1>8, <1>9 DEF rows

\* What a split may do to a row or a rule: it makes none live, and it touches
\* no row but the legacy one and no live rule of another row.
SplitOnly(i) ==
    /\ \A j \in DOMAIN patterns \ {i} : j \in DOMAIN patterns' /\ patterns'[j] = patterns[j]
    /\ \A j \in DOMAIN patterns' :
          patterns'[j].status \in Live => j \in DOMAIN patterns /\ j # i
    /\ DOMAIN catalog' = DOMAIN catalog
    /\ \A r \in DOMAIN catalog :
          /\ catalog'[r].code = catalog[r].code
          /\ catalog'[r].status \in Live => catalog'[r] = catalog[r] /\ catalog[r].pattern # i

\* later is rows, except perhaps for a row i that is not live.
ChangedAt(rows, i, later) ==
    /\ IsRows(later)
    /\ DOMAIN later = DOMAIN rows
    /\ \A j \in DOMAIN rows \ {i} : later[j] = rows[j]
    /\ i \in DOMAIN rows => later[i] = rows[i] \/ later[i].status = "pending"

LEMMA Reusing ==
    ASSUME NEW rows, IsRows(rows), NEW i, NEW first \in Hash, NEW counts
    PROVE  ChangedAt(rows, i, Reuse(rows, i, first, counts))
<1> DEFINE new == Reuse(rows, i, first, counts)
           row == Row(first, counts[Qualified(first)], "pending")
<1>1. IsRow(row) /\ row.status = "pending"
  BY DEF Row, IsRow, Status
<1> HIDE DEF row
<1>2. /\ DOMAIN new = DOMAIN rows
      /\ new = [j \in DOMAIN rows |-> new[j]]
      /\ \A j \in DOMAIN rows \ {i} : new[j] = rows[j]
      /\ i \in DOMAIN rows => new[i] \in {rows[i], row}
  BY DEF Reuse, IsRows, row
<1> HIDE DEF new
<1>3. \A j \in DOMAIN new : IsRow(new[j])
  BY <1>1, <1>2 DEF IsRows
<1>4. IsRows(new)
  BY <1>2, <1>3 DEF IsRows
<1> QED BY <1>1, <1>2, <1>4 DEF new, ChangedAt

LEMMA Regrouping ==
    ASSUME NEW rows, IsRows(rows), NEW missing \in SUBSET Actions,
           NEW order \in SetToSeqs(missing), NEW counts
    PROVE  /\ IsRows(Regroup(rows, order, counts))
           /\ \A j \in DOMAIN rows : /\ j \in DOMAIN Regroup(rows, order, counts)
                                     /\ Regroup(rows, order, counts)[j] = rows[j]
           /\ \A j \in DOMAIN Regroup(rows, order, counts) \ DOMAIN rows :
                 \E a \in Actions :
                    Regroup(rows, order, counts)[j] = Row(a, counts[Qualified(a)], "pending")
<1> DEFINE n == Cardinality(missing)
           new == [k \in DOMAIN order |-> Row(order[k], counts[Qualified(order[k])], "pending")]
<1>1. n \in Nat
  BY IncidentsAssumption, FS_Subset, FS_CardinalityType
<1>2. order \in [1..n -> missing]
  BY DEF SetToSeqs
<1> HIDE DEF n
<1>3. DOMAIN new = 1..n /\ Len(new) = n
  BY <1>1, <1>2
<1>4. \A k \in 1..n : /\ IsRow(new[k])
                      /\ \E a \in Actions : new[k] = Row(a, counts[Qualified(a)], "pending")
  <2> TAKE k \in 1..n
  <2>1. order[k] \in Hash /\ order[k] \in Actions
    BY <1>2 DEF Hash
  <2>2. new[k] = Row(order[k], counts[Qualified(order[k])], "pending")
    BY <1>2
  <2>3. IsRow(new[k])
    BY <2>1, <2>2 DEF Row, IsRow, Status
  <2> QED BY <2>1, <2>2, <2>3
<1>5. Regroup(rows, order, counts) = Insert(rows, new)
  BY DEF Regroup
<1> HIDE DEF new
<1>6. Extended(rows, Insert(rows, new), new, n)
  BY <1>1, <1>3, <1>4, InsertAddsRows
<1> QED BY <1>4, <1>5, <1>6 DEF Extended

LEMMA Splitting ==
    ASSUME RowsInv, NEW i, NEW counts, Split(i, counts)
    PROVE  RowsInv' /\ SplitOnly(i)
<1> SUFFICES ASSUME NEW disabled, disabled = Disable(patterns, i),
                    NEW rules, rules = DisableRules(catalog, i),
                    NEW groups, groups = {a \in Actions : counts[Qualified(a)] > 0}
             PROVE  RowsInv' /\ SplitOnly(i)
  OBVIOUS
<1>1. /\ IsRows(disabled) /\ DOMAIN disabled = DOMAIN patterns
      /\ \A j \in DOMAIN patterns \ {i} : disabled[j] = patterns[j]
      /\ i \in DOMAIN patterns => disabled[i].status \notin Live
  BY Disabling
<1>2. /\ rules \in Seq(Rule) /\ DOMAIN rules = DOMAIN catalog
      /\ \A r \in DOMAIN catalog :
            /\ rules[r].code = catalog[r].code
            /\ rules[r].pattern = catalog[r].pattern
            /\ rules[r].status \in Live => rules[r] = catalog[r] /\ catalog[r].pattern # i
  BY Disabling
<1>3. CASE groups = {}
  <2>1. patterns' = disabled /\ catalog' = rules
    BY <1>3 DEF Split
  <2> QED BY <1>1, <1>2, <2>1 DEF RowsInv, SplitOnly
<1>4. CASE groups # {}
  <2>1. PICK first \in groups :
          LET reused == Reuse(disabled, i, first, counts)
              owners == RowsOf(disabled, first) \ {i}
              missing == {a \in groups \ {first} : RowsOf(reused, a) = {}}
          IN  \E order \in SetToSeqs(missing) :
                IF owners = {}
                THEN patterns' = Regroup(reused, order, counts) /\ catalog' = rules
                ELSE /\ patterns' = Without(Regroup(reused, order, counts), i)
                     /\ catalog' = Inherit(rules, i, CHOOSE o \in owners : TRUE)
    BY <1>4 DEF Split
  <2>0. ChangedAt(disabled, i, Reuse(disabled, i, first, counts))
    <3>1. first \in Hash /\ IsRows(disabled)
      BY <1>1 DEF Hash
    <3> QED BY <3>1, Reusing
  <2> SUFFICES ASSUME NEW reused, reused = Reuse(disabled, i, first, counts),
                      NEW owners, owners = RowsOf(disabled, first) \ {i}
               PROVE  RowsInv' /\ SplitOnly(i)
    OBVIOUS
  <2> DEFINE missing == {a \in groups \ {first} : RowsOf(reused, a) = {}}
  <2>2. PICK order \in SetToSeqs(missing) :
          IF owners = {}
          THEN patterns' = Regroup(reused, order, counts) /\ catalog' = rules
          ELSE /\ patterns' = Without(Regroup(reused, order, counts), i)
               /\ catalog' = Inherit(rules, i, CHOOSE o \in owners : TRUE)
    BY <2>1
  <2> SUFFICES ASSUME NEW rows, rows = Regroup(reused, order, counts)
               PROVE  RowsInv' /\ SplitOnly(i)
    OBVIOUS
  <2>3. missing \in SUBSET Actions /\ first \in Hash
    BY DEF Hash
  <2> HIDE DEF missing
  <2>4. /\ IsRows(reused) /\ DOMAIN reused = DOMAIN patterns
        /\ \A j \in DOMAIN patterns \ {i} : reused[j] = patterns[j]
        /\ i \in DOMAIN patterns => reused[i].status \notin Live
    <3>1. ChangedAt(disabled, i, reused)
      BY <2>0
    <3>2. "pending" \notin Live
      BY DEF Live
    <3> QED BY <1>1, <3>1, <3>2 DEF ChangedAt
  <2>5. /\ IsRows(rows)
        /\ \A j \in DOMAIN patterns \ {i} : j \in DOMAIN rows /\ rows[j] = patterns[j]
        /\ \A j \in DOMAIN rows :
              rows[j].status \in Live => j \in DOMAIN patterns /\ j # i
    <3>1. /\ IsRows(rows)
          /\ \A j \in DOMAIN reused : j \in DOMAIN rows /\ rows[j] = reused[j]
          /\ \A j \in DOMAIN rows \ DOMAIN reused :
                \E a \in Actions : rows[j] = Row(a, counts[Qualified(a)], "pending")
      BY <2>3, <2>4, Regrouping
    <3>3. \A j \in DOMAIN rows \ DOMAIN reused : rows[j].status = "pending"
      BY <3>1 DEF Row
    <3>2. "pending" \notin Live
      BY DEF Live
    <3> QED BY <2>4, <3>1, <3>2, <3>3
  <2>6. CASE owners = {}
    <3>1. patterns' = rows /\ catalog' = rules
      BY <2>2, <2>6
    <3> QED BY <1>2, <2>5, <3>1 DEF RowsInv, SplitOnly
  <2>7. CASE owners # {}
    <3> DEFINE owner == CHOOSE o \in owners : TRUE
    <3>1. patterns' = Without(rows, i) /\ catalog' = Inherit(rules, i, owner)
      BY <2>2, <2>7
    <3>2. owner \in Nat
      <4>1. owner \in owners
        BY <2>7
      <4>2. owners \subseteq DOMAIN disabled
        BY DEF RowsOf
      <4>3. DOMAIN disabled \subseteq Nat
        BY <1>1 DEF IsRows
      <4> QED BY <4>1, <4>2, <4>3
    <3> HIDE DEF owner
    <3>3. /\ DOMAIN patterns' = DOMAIN rows \ {i}
          /\ patterns' = [j \in DOMAIN rows \ {i} |-> patterns'[j]]
          /\ \A j \in DOMAIN rows \ {i} : patterns'[j] = rows[j]
      BY <3>1 DEF Without
    <3>4. IsRows(patterns')
      BY <2>5, <3>3 DEF IsRows
    <3>5. ASSUME NEW r \in DOMAIN rules
          PROVE  /\ catalog'[r] \in Rule
                 /\ catalog'[r].code = rules[r].code
                 /\ catalog'[r].status = rules[r].status
                 /\ rules[r].pattern # i => catalog'[r] = rules[r]
      <4>1. rules[r] \in Rule
        BY <1>2
      <4>2. CASE rules[r].pattern = i
        <5>1. catalog'[r] = [rules[r] EXCEPT !.pattern = owner]
          BY <3>1, <4>2 DEF Inherit
        <5> QED BY <3>2, <4>1, <4>2, <5>1 DEF Rule
      <4>3. CASE rules[r].pattern # i
        <5>1. catalog'[r] = rules[r]
          BY <3>1, <4>3 DEF Inherit
        <5> QED BY <4>1, <5>1
      <4> QED BY <4>2, <4>3
    <3>6. DOMAIN catalog' = DOMAIN rules
      BY <3>1 DEF Inherit
    <3>7. catalog' \in Seq(Rule)
      <4>1. Len(rules) \in Nat /\ DOMAIN rules = 1..Len(rules)
        BY <1>2
      <4>2. catalog' = [r \in 1..Len(rules) |-> catalog'[r]]
        BY <3>1, <4>1 DEF Inherit
      <4>3. \A r \in 1..Len(rules) : catalog'[r] \in Rule
        BY <3>5, <4>1
      <4> QED BY <4>1, <4>2, <4>3
    <3>8. SplitOnly(i)
      <4>1. \A r \in DOMAIN catalog :
              /\ catalog'[r].code = catalog[r].code
              /\ catalog'[r].status \in Live => catalog'[r] = catalog[r] /\ catalog[r].pattern # i
        BY <1>2, <3>5
      <4> QED BY <1>2, <2>5, <3>3, <3>6, <4>1 DEF SplitOnly
    <3> QED BY <3>4, <3>7, <3>8 DEF RowsInv
  <2> QED BY <2>6, <2>7
<1> QED BY <1>3, <1>4

-----------------------------------------------------------------------------
(* The inductive invariant                                                 *)

IsProc(x) == x = [pc |-> x.pc, legacy |-> x.legacy, found |-> x.found,
                  todo |-> x.todo, exists |-> x.exists]

\* Until a start has completed, the database is as the old version left it:
\* at most one pattern, the broad one, and the processes are all starting.
StartInv ==
    ~opened =>
        /\ \A i \in DOMAIN patterns : i = 1 /\ patterns[i].hash = Broad
        /\ proc = [p \in Process |-> proc[p]]
        /\ \A p \in Process :
             /\ IsProc(proc[p])
             /\ proc[p].pc \in Starting
             /\ proc[p].pc = "split" => proc[p].legacy \in DOMAIN patterns

IInv ==
    /\ RowsInv
    /\ StartInv
    /\ LiveRuleHasItsPattern
    /\ LegacyQuarantined

LEMMA Init_IInv == Init => IInv
<1> SUFFICES ASSUME Init PROVE IInv
  OBVIOUS
<1>1. /\ ~opened
      /\ proc = [p \in Process |-> proc[p]]
      /\ \A p \in Process : proc[p].pc = "absent" /\ IsProc(proc[p])
  BY DEF Init, Absent, IsProc
<1>2. CASE patterns = <<>> /\ catalog = <<>>
  <2>1. DOMAIN patterns = {} /\ catalog \in Seq(Rule) /\ DOMAIN catalog = {}
    BY <1>2
  <2>2. IsRows(patterns)
    BY <1>2, <2>1 DEF IsRows
  <2> QED BY <1>1, <2>1, <2>2
          DEF IInv, RowsInv, StartInv, Starting, LiveRuleHasItsPattern, LegacyQuarantined
<1>3. ASSUME NEW s \in Status,
             patterns = <<Row(Broad, Count(Broad), s)>>,
             catalog = IF s = "pending" THEN <<>>
                       ELSE <<[pattern |-> 1, code |-> Broad, status |-> s]>>
      PROVE  IInv
  <2>1. DOMAIN patterns = {1} /\ patterns[1] = Row(Broad, Count(Broad), s)
    BY <1>3
  <2>2. IsRow(patterns[1]) /\ patterns[1].hash = Broad
    BY <2>1 DEF IsRow, Row, Hash
  <2>3. IsRows(patterns)
    <3>1. DOMAIN patterns \subseteq 1..1
      BY <2>1
    <3>2. patterns = [i \in DOMAIN patterns |-> patterns[i]]
      BY <1>3
    <3> QED BY <2>1, <2>2, <3>1, <3>2 DEF IsRows
  <2>4. \A r \in DOMAIN catalog : catalog[r].pattern = 1 /\ catalog[r].code = Broad
    BY <1>3
  <2>5. catalog \in Seq(Rule)
    <3>1. [pattern |-> 1, code |-> Broad, status |-> s] \in Rule
      BY DEF Rule, Hash
    <3> QED BY <1>3, <3>1
  <2> QED BY <1>1, <2>1, <2>2, <2>3, <2>4, <2>5
          DEF IInv, RowsInv, StartInv, Starting, LiveRuleHasItsPattern, LegacyQuarantined
<1> QED BY <1>2, <1>3 DEF Init

\* A split of the row of which every live rule without actions hangs keeps the
\* invariant and quarantines; so does any split once that has happened.
LEMMA Split_IInv ==
    ASSUME IInv, NEW i, NEW counts, Split(i, counts), opened',
           opened \/ i \in DOMAIN patterns
    PROVE  IInv'
<1>1. RowsInv' /\ SplitOnly(i)
  BY Splitting DEF IInv
<1>2. LiveRuleHasItsPattern'
  <2> SUFFICES ASSUME NEW r \in DOMAIN catalog', catalog'[r].status \in Live
               PROVE  /\ catalog'[r].pattern \in DOMAIN patterns'
                      /\ patterns'[catalog'[r].pattern].hash = catalog'[r].code
    BY DEF LiveRuleHasItsPattern
  <2>1. r \in DOMAIN catalog /\ catalog'[r] = catalog[r] /\ catalog[r].pattern # i
    BY <1>1 DEF SplitOnly
  <2>2. /\ catalog[r].pattern \in DOMAIN patterns
        /\ patterns[catalog[r].pattern].hash = catalog[r].code
    BY <2>1 DEF IInv, LiveRuleHasItsPattern
  <2> QED BY <1>1, <2>1, <2>2 DEF SplitOnly
<1>3. \A j \in DOMAIN patterns' :
          patterns'[j].status \in Live =>
              j \in DOMAIN patterns /\ j # i /\ patterns'[j] = patterns[j]
  BY <1>1 DEF SplitOnly
<1>4. CASE opened
  <2>1. \A j \in DOMAIN patterns' : patterns'[j].hash = Broad => patterns'[j].status \notin Live
    BY <1>3, <1>4 DEF IInv, LegacyQuarantined, RowsOf
  <2>2. \A r \in DOMAIN catalog' : catalog'[r].code = Broad => catalog'[r].status \notin Live
    BY <1>1, <1>4 DEF IInv, LegacyQuarantined, SplitOnly
  <2> QED BY <1>1, <1>2, <2>1, <2>2 DEF IInv, StartInv, LegacyQuarantined, RowsOf
<1>5. CASE ~opened
  <2>1. \A j \in DOMAIN patterns : j = i
    BY <1>5 DEF IInv, StartInv
  <2>2. \A j \in DOMAIN patterns' : patterns'[j].status \notin Live
    BY <1>3, <2>1
  <2>3. \A r \in DOMAIN catalog' : catalog'[r].status \notin Live
    BY <1>1, <2>1 DEF SplitOnly, IInv, LiveRuleHasItsPattern
  <2> QED BY <1>1, <1>2, <2>2, <2>3 DEF IInv, StartInv, LegacyQuarantined, RowsOf
<1> QED BY <1>4, <1>5

\* A start that finds no pattern of the old version quarantines nothing: no
\* live rule can be without actions, since it would have such a pattern.
LEMMA Opening_IInv ==
    ASSUME IInv, UNCHANGED <<patterns, catalog>>, opened', RowsOf(patterns, Broad) = {}
    PROVE  IInv'
<1>1. \A r \in DOMAIN catalog : catalog[r].status \in Live => catalog[r].code # Broad
  BY DEF IInv, LiveRuleHasItsPattern, RowsOf
<1> QED BY <1>1 DEF IInv, RowsInv, StartInv, LiveRuleHasItsPattern, LegacyQuarantined, RowsOf

\* Steps that leave the database alone.
LEMMA Other_IInv ==
    ASSUME IInv, UNCHANGED <<patterns, catalog, opened>>, StartInv'
    PROVE  IInv'
BY DEF IInv, RowsInv, LiveRuleHasItsPattern, LegacyQuarantined, RowsOf

\* Before a start has completed every process is at one of the steps of a start.
LEMMA Opened_Or_Starting ==
    ASSUME IInv, NEW p \in Process, proc[p].pc \notin Starting
    PROVE  opened
BY DEF IInv, StartInv

LEMMA ReadIncidents_IInv ==
    ASSUME IInv, NEW p \in Process, ReadIncidents(p) PROVE IInv'
<1>1. ASSUME ~opened PROVE StartInv'
  <2>1. /\ UNCHANGED <<patterns, opened>>
        /\ \E s \in {"look", "migrate"} : proc' = [proc EXCEPT ![p].pc = s]
    BY DEF ReadIncidents
  <2>2. PICK s \in {"look", "migrate"} : proc' = [proc EXCEPT ![p].pc = s]
    BY <2>1
  <2>3. proc = [q \in Process |-> proc[q]] /\ IsProc(proc[p])
    BY <1>1 DEF IInv, StartInv
  <2>4. /\ proc' = [q \in Process |-> proc'[q]]
        /\ proc'[p] = [proc[p] EXCEPT !.pc = s]
        /\ \A q \in Process \ {p} : proc'[q] = proc[q]
    BY <2>2, <2>3
  <2>5. proc'[p] = [pc |-> s, legacy |-> proc[p].legacy, found |-> proc[p].found,
                    todo |-> proc[p].todo, exists |-> proc[p].exists]
    BY <2>3, <2>4 DEF IsProc
  <2>6. IsProc(proc'[p]) /\ proc'[p].pc = s
    BY <2>5 DEF IsProc
  <2>7. s \in Starting /\ s # "split"
    BY DEF Starting
  <2> QED BY <1>1, <2>1, <2>4, <2>6, <2>7 DEF IInv, StartInv
<1>2. UNCHANGED <<patterns, catalog, opened>>
  BY DEF ReadIncidents
<1> QED BY <1>1, <1>2, Other_IInv DEF StartInv

LEMMA Migrate_IInv ==
    ASSUME IInv, NEW p \in Process, Migrate(p) PROVE IInv'
<1>1. opened'
  BY DEF Migrate, Opened
<1>2. CASE RowsOf(patterns, Broad) = {}
  BY <1>1, <1>2, Opening_IInv DEF Migrate
<1>3. CASE RowsOf(patterns, Broad) # {}
  <2>1. PICK i \in RowsOf(patterns, Broad) : Split(i, Migrated)
    BY <1>3 DEF Migrate
  <2>2. i \in DOMAIN patterns
    BY DEF RowsOf
  <2> QED BY <1>1, <2>1, <2>2, Split_IInv
<1> QED BY <1>2, <1>3

LEMMA ReadPatterns_IInv ==
    ASSUME IInv, NEW p \in Process, ReadPatterns(p) PROVE IInv'
<1>1. UNCHANGED <<patterns, catalog>>
  BY DEF ReadPatterns
<1>2. CASE RowsOf(patterns, Broad) = {}
  BY <1>1, <1>2, Opening_IInv DEF ReadPatterns, Opened
<1>3. CASE RowsOf(patterns, Broad) # {}
  <2>1. PICK i \in RowsOf(patterns, Broad) :
          proc' = [proc EXCEPT ![p].pc = "split", ![p].legacy = i]
    BY <1>3 DEF ReadPatterns
  <2>2. opened' = opened
    BY <1>3 DEF ReadPatterns
  <2>3. ASSUME ~opened PROVE StartInv'
    <3>1. proc = [q \in Process |-> proc[q]] /\ IsProc(proc[p])
      BY <2>3 DEF IInv, StartInv
    <3>2. /\ proc' = [q \in Process |-> proc'[q]]
          /\ proc'[p] = [proc[p] EXCEPT !.pc = "split", !.legacy = i]
          /\ \A q \in Process \ {p} : proc'[q] = proc[q]
      BY <2>1, <3>1
    <3>3. proc'[p] = [pc |-> "split", legacy |-> i, found |-> proc[p].found,
                      todo |-> proc[p].todo, exists |-> proc[p].exists]
      BY <3>1, <3>2 DEF IsProc
    <3>4. IsProc(proc'[p]) /\ proc'[p].pc = "split" /\ proc'[p].legacy = i
      BY <3>3 DEF IsProc
    <3>5. "split" \in Starting /\ i \in DOMAIN patterns
      BY DEF Starting, RowsOf
    <3> QED BY <1>1, <2>2, <2>3, <3>2, <3>4, <3>5 DEF IInv, StartInv
  <2> QED BY <1>1, <2>2, <2>3, Other_IInv DEF StartInv
<1> QED BY <1>2, <1>3

LEMMA SplitRead_IInv ==
    ASSUME IInv, NEW p \in Process, SplitRead(p) PROVE IInv'
<1>1. opened' /\ Split(proc[p].legacy, incidents) /\ proc[p].pc = "split"
  BY DEF SplitRead, Opened
<1>2. opened \/ proc[p].legacy \in DOMAIN patterns
  BY <1>1 DEF IInv, StartInv
<1> QED BY <1>1, <1>2, Split_IInv

LEMMA Die_IInv == ASSUME IInv, NEW p \in Process, Die(p) PROVE IInv'
<1>1. ASSUME ~opened PROVE StartInv'
  <2>1. proc = [q \in Process |-> proc[q]]
    BY <1>1 DEF IInv, StartInv
  <2>2. /\ proc' = [q \in Process |-> proc'[q]]
        /\ proc'[p] = Absent
        /\ \A q \in Process \ {p} : proc'[q] = proc[q]
    BY <2>1 DEF Die
  <2>3. IsProc(Absent) /\ Absent.pc = "absent" /\ "absent" \in Starting
    BY DEF Absent, IsProc, Starting
  <2> QED BY <1>1, <2>2, <2>3 DEF IInv, StartInv, Die
<1> QED BY <1>1, Other_IInv DEF Die, StartInv

\* Counting into a row changes nothing but its count; a new row is not live.
LEMMA WritePattern_IInv ==
    ASSUME IInv, NEW p \in Process, NEW h \in Hash, WritePattern(p, h) PROVE IInv'
<1>1. UNCHANGED <<catalog, opened>>
  BY DEF WritePattern
<1>2. opened
  BY StepAssumption, Opened_Or_Starting DEF WritePattern, Step
<1>3. /\ IsRows(patterns')
      /\ \A i \in DOMAIN patterns :
            /\ i \in DOMAIN patterns'
            /\ patterns'[i].hash = patterns[i].hash
            /\ patterns'[i].status = patterns[i].status
      /\ \A i \in DOMAIN patterns' \ DOMAIN patterns : patterns'[i].status = "pending"
  <2>1. CASE proc[p].exists
    <3>1. patterns' = [i \in DOMAIN patterns |->
                         IF patterns[i].hash # h THEN patterns[i]
                         ELSE [patterns[i] EXCEPT !.count = proc[p].found[h]]]
      BY <2>1 DEF WritePattern
    <3>2. ASSUME NEW i \in DOMAIN patterns
          PROVE  /\ IsRow(patterns'[i])
                 /\ patterns'[i].hash = patterns[i].hash
                 /\ patterns'[i].status = patterns[i].status
      <4>1. IsRow(patterns[i])
        BY DEF IInv, RowsInv, IsRows
      <4>2. CASE patterns[i].hash # h
        BY <3>1, <4>1, <4>2
      <4>3. CASE patterns[i].hash = h
        <5>1. patterns'[i] = [patterns[i] EXCEPT !.count = proc[p].found[h]]
          BY <3>1, <4>3
        <5>2. patterns'[i] = [hash |-> patterns[i].hash, count |-> proc[p].found[h],
                              status |-> patterns[i].status]
          BY <4>1, <5>1 DEF IsRow
        <5> QED BY <4>1, <5>2 DEF IsRow
      <4> QED BY <4>2, <4>3
    <3>3. DOMAIN patterns' = DOMAIN patterns /\ patterns' = [i \in DOMAIN patterns |-> patterns'[i]]
      BY <3>1
    <3>4. IsRows(patterns')
      BY <3>2, <3>3 DEF IInv, RowsInv, IsRows
    <3> QED BY <3>2, <3>3, <3>4
  <2>2. CASE ~proc[p].exists
    <3> SUFFICES ASSUME NEW new, new = <<Row(h, proc[p].found[h], "pending")>>
                 PROVE  /\ IsRows(patterns')
                        /\ \A i \in DOMAIN patterns :
                              /\ i \in DOMAIN patterns'
                              /\ patterns'[i].hash = patterns[i].hash
                              /\ patterns'[i].status = patterns[i].status
                        /\ \A i \in DOMAIN patterns' \ DOMAIN patterns :
                              patterns'[i].status = "pending"
      OBVIOUS
    <3>1. patterns' = Insert(patterns, new)
      BY <2>2 DEF WritePattern
    <3>2. IsRow(Row(h, proc[p].found[h], "pending"))
          /\ Row(h, proc[p].found[h], "pending").status = "pending"
      BY DEF Row, IsRow, Status
    <3>3. DOMAIN new = 1..1 /\ Len(new) = 1 /\ \A k \in 1..1 : IsRow(new[k]) /\ new[k].status = "pending"
      BY <3>2
    <3>4. IsRows(patterns)
      BY DEF IInv, RowsInv
    <3> DEFINE n == 1
    <3> HIDE DEF n
    <3>5. Extended(patterns, Insert(patterns, new), new, n)
      <4>1. /\ n \in Nat /\ DOMAIN new = 1..n /\ Len(new) = n
            /\ \A k \in 1..n : IsRow(new[k])
        BY <3>3 DEF n
      <4> QED BY <3>4, <4>1, InsertAddsRows
    <3> QED BY <3>1, <3>3, <3>5 DEF n, Extended
  <2> QED BY <2>1, <2>2
<1>4. "pending" \notin Live
  BY DEF Live
<1> QED BY <1>1, <1>2, <1>3, <1>4
        DEF IInv, RowsInv, StartInv, LiveRuleHasItsPattern, LegacyQuarantined, RowsOf

\* A row whose status changes keeps its hash.
LEMMA StatusChange ==
    ASSUME IsRows(patterns), NEW i \in DOMAIN patterns, NEW s \in Status,
           patterns' = [patterns EXCEPT ![i].status = s]
    PROVE  /\ IsRows(patterns')
           /\ DOMAIN patterns' = DOMAIN patterns
           /\ \A j \in DOMAIN patterns : patterns'[j].hash = patterns[j].hash
           /\ \A j \in DOMAIN patterns \ {i} : patterns'[j] = patterns[j]
<1>1. /\ patterns = [j \in DOMAIN patterns |-> patterns[j]]
      /\ IsRow(patterns[i])
  BY DEF IsRows
<1>2. /\ DOMAIN patterns' = DOMAIN patterns
      /\ patterns' = [j \in DOMAIN patterns |-> patterns'[j]]
      /\ patterns'[i] = [patterns[i] EXCEPT !.status = s]
      /\ \A j \in DOMAIN patterns \ {i} : patterns'[j] = patterns[j]
  BY <1>1
<1>3. patterns'[i] = [hash |-> patterns[i].hash, count |-> patterns[i].count, status |-> s]
  BY <1>1, <1>2 DEF IsRow
<1>4. IsRow(patterns'[i]) /\ patterns'[i].hash = patterns[i].hash
  BY <1>1, <1>3 DEF IsRow
<1>5. IsRows(patterns')
  BY <1>2, <1>4 DEF IsRows
<1> QED BY <1>2, <1>4, <1>5

LEMMA SaveEvolvedRule_IInv ==
    ASSUME IInv, NEW p \in Process, NEW h \in Actions, NEW s \in {"pr-ready", "disabled"},
           SaveEvolvedRule(p, h, s)
    PROVE  IInv'
<1>1. opened /\ opened' = opened
  <2>1. "save" \notin Starting
    BY DEF Starting
  <2> QED BY <2>1, Opened_Or_Starting DEF SaveEvolvedRule
<1>2. CASE RowsOf(patterns, h) = {}
  BY <1>1, <1>2, Other_IInv DEF SaveEvolvedRule, StartInv
<1>3. CASE RowsOf(patterns, h) # {}
  <2>1. PICK i \in RowsOf(patterns, h) :
          /\ patterns' = [patterns EXCEPT ![i].status = s]
          /\ catalog' = Append(catalog, [pattern |-> i, code |-> h, status |-> s])
    BY <1>3 DEF SaveEvolvedRule
  <2>2. i \in DOMAIN patterns /\ patterns[i].hash = h /\ s \in Status
    BY DEF RowsOf, Status, Live
  <2>3. /\ IsRows(patterns')
        /\ DOMAIN patterns' = DOMAIN patterns
        /\ \A j \in DOMAIN patterns : patterns'[j].hash = patterns[j].hash
        /\ \A j \in DOMAIN patterns \ {i} : patterns'[j] = patterns[j]
    BY <2>1, <2>2, StatusChange DEF IInv, RowsInv
  <2>4. h # Broad /\ h \in Hash /\ i \in Nat
    BY <2>2, IncidentsAssumption DEF Hash, IInv, RowsInv, IsRows
  <2>5. [pattern |-> i, code |-> h, status |-> s] \in Rule
    BY <2>2, <2>4 DEF Rule
  <2>6. /\ catalog' \in Seq(Rule)
        /\ DOMAIN catalog' = DOMAIN catalog \union {Len(catalog) + 1}
        /\ \A r \in DOMAIN catalog : catalog'[r] = catalog[r]
        /\ catalog'[Len(catalog) + 1] = [pattern |-> i, code |-> h, status |-> s]
    <3>1. catalog \in Seq(Rule)
      BY DEF IInv, RowsInv
    <3> QED BY <2>1, <2>5, <3>1
  <2>7. \A r \in DOMAIN catalog' :
          \/ r \in DOMAIN catalog /\ catalog'[r] = catalog[r]
          \/ catalog'[r].pattern = i /\ catalog'[r].code = h
    BY <2>6
  <2>8. LiveRuleHasItsPattern'
    BY <2>2, <2>3, <2>7 DEF IInv, LiveRuleHasItsPattern
  <2>9. LegacyQuarantined'
    BY <1>1, <2>2, <2>3, <2>4, <2>7 DEF IInv, LegacyQuarantined, RowsOf
  <2> QED BY <1>1, <2>3, <2>6, <2>8, <2>9 DEF IInv, RowsInv, StartInv
<1> QED BY <1>2, <1>3

\* Approval makes only a rule that was proposed, and so live, approved.
LEMMA ApproveRule_IInv ==
    ASSUME IInv, NEW h \in Hash, ApproveRule(h) PROVE IInv'
<1>1. PICK i \in RowsOf(patterns, h) :
        LET rules == {r \in DOMAIN catalog : catalog[r].pattern = i} IN
        /\ h # Broad
        /\ patterns[i].status = "pr-ready"
        /\ rules # {} /\ catalog[Max(rules)].status = "pr-ready"
        /\ patterns' = [patterns EXCEPT ![i].status = "approved"]
        /\ catalog' = [catalog EXCEPT ![Max(rules)].status = "approved"]
        /\ UNCHANGED <<incidents, proc, gates, opened>>
  BY DEF ApproveRule
<1> SUFFICES ASSUME NEW m, m = Max({r \in DOMAIN catalog : catalog[r].pattern = i})
             PROVE  IInv'
  OBVIOUS
<1>2. /\ h # Broad /\ patterns[i].status = "pr-ready" /\ catalog[m].status = "pr-ready"
      /\ patterns' = [patterns EXCEPT ![i].status = "approved"]
      /\ catalog' = [catalog EXCEPT ![m].status = "approved"]
      /\ opened' = opened
  BY <1>1
<1>3. i \in DOMAIN patterns /\ patterns[i].hash = h /\ {"pr-ready", "approved"} = Live
      /\ "approved" \in Status
  BY DEF RowsOf, Live, Status
<1>4. opened
  BY <1>2, <1>3 DEF IInv, StartInv
<1>5. /\ IsRows(patterns')
      /\ DOMAIN patterns' = DOMAIN patterns
      /\ \A j \in DOMAIN patterns : patterns'[j].hash = patterns[j].hash
      /\ \A j \in DOMAIN patterns \ {i} : patterns'[j] = patterns[j]
  BY <1>2, <1>3, StatusChange DEF IInv, RowsInv
<1>6. catalog \in Seq(Rule)
  BY DEF IInv, RowsInv
<1>7. /\ DOMAIN catalog' = DOMAIN catalog
      /\ catalog' \in Seq(Rule)
      /\ \A r \in DOMAIN catalog :
            /\ catalog'[r].pattern = catalog[r].pattern
            /\ catalog'[r].code = catalog[r].code
            /\ catalog'[r].status \in Live => catalog[r].status \in Live
  <2>1. \A r \in DOMAIN catalog : catalog[r] \in Rule
    BY <1>6
  <2>2. /\ DOMAIN catalog' = DOMAIN catalog
        /\ catalog' = [r \in 1..Len(catalog) |-> catalog'[r]]
        /\ \A r \in DOMAIN catalog : r # m => catalog'[r] = catalog[r]
        /\ m \in DOMAIN catalog => catalog'[m] = [catalog[m] EXCEPT !.status = "approved"]
    <3>1. DOMAIN catalog = 1..Len(catalog)
      BY <1>6
    <3>2. catalog = [r \in DOMAIN catalog |-> catalog[r]]
      BY <1>6
    <3>3. /\ DOMAIN catalog' = DOMAIN catalog
          /\ catalog' = [r \in DOMAIN catalog |-> catalog'[r]]
      <4>1. \A f : DOMAIN [f EXCEPT ![m].status = "approved"] = DOMAIN f
        OBVIOUS
      <4>2. \A f : [f EXCEPT ![m].status = "approved"]
                     = [r \in DOMAIN f |-> [f EXCEPT ![m].status = "approved"][r]]
        OBVIOUS
      <4> QED BY <1>2, <4>1, <4>2
    <3>4. \A r \in DOMAIN catalog : r # m => catalog'[r] = catalog[r]
      BY <1>2
    <3>5. m \in DOMAIN catalog => catalog'[m] = [catalog[m] EXCEPT !.status = "approved"]
      BY <1>2
    <3> QED BY <3>1, <3>3, <3>4, <3>5
  <2>3. ASSUME m \in DOMAIN catalog
        PROVE  /\ catalog'[m] \in Rule
               /\ catalog'[m].pattern = catalog[m].pattern
               /\ catalog'[m].code = catalog[m].code
    BY <1>3, <2>1, <2>2, <2>3 DEF Rule
  <2>4. \A r \in 1..Len(catalog) : catalog'[r] \in Rule
    BY <1>6, <2>1, <2>2, <2>3
  <2>5. catalog' \in Seq(Rule)
    <3>1. Len(catalog) \in Nat
      BY <1>6
    <3> QED BY <2>2, <2>4, <3>1
  <2> QED BY <1>2, <1>3, <2>2, <2>3, <2>5
<1>8. LiveRuleHasItsPattern'
  BY <1>5, <1>7 DEF IInv, LiveRuleHasItsPattern
<1>9. LegacyQuarantined'
  <2>1. \A j \in RowsOf(patterns', Broad) : j # i /\ j \in RowsOf(patterns, Broad) /\ patterns'[j] = patterns[j]
    BY <1>2, <1>3, <1>5 DEF RowsOf
  <2>2. \A j \in RowsOf(patterns', Broad) : patterns'[j].status \notin Live
    BY <1>4, <2>1 DEF IInv, LegacyQuarantined
  <2>3. \A r \in DOMAIN catalog' : catalog'[r].code = Broad => catalog'[r].status \notin Live
    <3>1. \A r \in DOMAIN catalog : catalog[r].code = Broad => catalog[r].status \notin Live
      BY <1>4 DEF IInv, LegacyQuarantined
    <3> QED BY <1>7, <3>1
  <2> QED BY <2>2, <2>3 DEF LegacyQuarantined
<1> QED BY <1>2, <1>4, <1>5, <1>7, <1>8, <1>9 DEF IInv, RowsInv, StartInv

\* The steps of a gate run that leave patterns and rules alone.
LEMMA GateRun_IInv ==
    ASSUME IInv, NEW p \in Process,
           \/ RecordRun(p) \/ RecordIncident(p) \/ CountIncidents(p)
           \/ AnalyzeWithAgents(p) \/ Finish(p)
           \/ \E h \in Hash : FindPattern(p, h) \/ InsertFails(p, h)
    PROVE  IInv'
<1>1. UNCHANGED <<patterns, catalog, opened>>
  BY DEF RecordRun, RecordIncident, CountIncidents, AnalyzeWithAgents, Finish,
         FindPattern, InsertFails
<1>2. proc[p].pc \in {"ready", "record", "find", "save"} \union Hash
  BY DEF RecordRun, RecordIncident, CountIncidents, AnalyzeWithAgents, Finish,
         FindPattern, InsertFails
<1>3. proc[p].pc \notin Starting
  BY <1>2, StepAssumption DEF Step, Starting
<1>4. opened
  BY <1>3, Opened_Or_Starting
<1> QED BY <1>1, <1>4, Other_IInv DEF StartInv

LEMMA Next_IInv == IInv /\ [Next]_vars => IInv'
<1> SUFFICES ASSUME IInv, [Next]_vars PROVE IInv'
  OBVIOUS
<1>1. ASSUME NEW p \in Process,
             ReadIncidents(p) \/ Migrate(p) \/ ReadPatterns(p) \/ SplitRead(p) \/ Die(p)
      PROVE  IInv'
  BY <1>1, ReadIncidents_IInv, Migrate_IInv, ReadPatterns_IInv, SplitRead_IInv, Die_IInv
<1>2. ASSUME NEW p \in Process,
             \/ RecordRun(p) \/ RecordIncident(p) \/ CountIncidents(p)
             \/ AnalyzeWithAgents(p) \/ Finish(p)
             \/ \E h \in Hash : FindPattern(p, h) \/ InsertFails(p, h)
      PROVE  IInv'
  BY <1>2, GateRun_IInv
<1>3. ASSUME NEW p \in Process, NEW h \in Hash, WritePattern(p, h) PROVE IInv'
  BY <1>3, WritePattern_IInv
<1>4. ASSUME NEW p \in Process, NEW h \in Actions, NEW s \in {"pr-ready", "disabled"},
             SaveEvolvedRule(p, h, s)
      PROVE  IInv'
  BY <1>4, SaveEvolvedRule_IInv
<1>5. ASSUME NEW h \in Hash, ApproveRule(h) PROVE IInv'
  BY <1>5, ApproveRule_IInv
<1>6. CASE UNCHANGED vars
  <2>1. UNCHANGED <<patterns, catalog, proc, opened>>
    BY <1>6 DEF vars
  <2>2. StartInv'
    BY <2>1 DEF IInv, StartInv
  <2> QED BY <2>1, <2>2, Other_IInv
<1> QED BY <1>1, <1>2, <1>3, <1>4, <1>5, <1>6 DEF Next

LEMMA Invariance == Spec => []IInv
BY Init_IInv, Next_IInv, PTL DEF Spec

-----------------------------------------------------------------------------
(* Sums over finite sets.  MapThenSumSet is defined by a recursive         *)
(* function, whose equation holds only if some function satisfies it.      *)

SumOf(f, S) == MapThenSumSet(LAMBDA k : f[k], S)

\* The element that the sum of s takes first.
Picked(s) == CHOOSE x \in s : TRUE

\* g gives the sum of f over each subset of S.
Adds(g, f, S) ==
    g = [s \in SUBSET S |-> IF s = {} THEN 0 ELSE f[Picked(s)] + g[s \ {Picked(s)}]]

LEMMA SumIsChosen ==
    ASSUME NEW f, NEW S
    PROVE  SumOf(f, S) = (CHOOSE g : Adds(g, f, S))[S]
BY DEF SumOf, MapThenSumSet, MapThenFoldSet, Adds, Picked

\* Removing the element taken first leaves a smaller set.
LEMMA PickedLeavesLess ==
    ASSUME NEW S, IsFiniteSet(S), NEW s \in SUBSET S
    PROVE  /\ Cardinality(s) \in Nat
           /\ s = {} <=> Cardinality(s) = 0
           /\ s # {} => /\ Picked(s) \in s
                        /\ s \ {Picked(s)} \in SUBSET S
                        /\ Cardinality(s \ {Picked(s)}) = Cardinality(s) - 1
<1>1. IsFiniteSet(s) /\ Cardinality(s) \in Nat
  BY FS_Subset, FS_CardinalityType
<1>2. s # {} => Picked(s) \in s
  BY DEF Picked
<1>3. s # {} => Cardinality(s \ {Picked(s)}) = Cardinality(s) - 1
  BY <1>1, <1>2, FS_RemoveElement
<1>4. s = {} <=> Cardinality(s) = 0
  BY <1>1, FS_EmptySet
<1> QED BY <1>1, <1>2, <1>3, <1>4

\* The sum is what any solution of its equation gives: there is no smallest
\* subset for which two solutions differ.
LEMMA SumIsAnySolution ==
    ASSUME NEW S, IsFiniteSet(S), NEW f, NEW g, Adds(g, f, S)
    PROVE  SumOf(f, S) = g[S]
<1>1. PICK h : h = CHOOSE k : Adds(k, f, S)
  OBVIOUS
<1>2. Adds(h, f, S)
  BY <1>1
<1>3. \A s \in SUBSET S : h[s] = g[s]
  <2> DEFINE Bad == {s \in SUBSET S : h[s] # g[s]}
             T == {Cardinality(s) : s \in Bad}
  <2> SUFFICES ASSUME Bad # {} PROVE FALSE
    OBVIOUS
  <2>1. \A s \in SUBSET S : Cardinality(s) \in Nat
    BY PickedLeavesLess
  <2>2. T \in SUBSET Nat /\ T # {}
    BY <2>1
  <2>3. PICK s \in Bad : \A u \in Bad : Cardinality(s) <= Cardinality(u)
    <3> HIDE DEF T
    <3>1. PICK t \in T : \A u \in T : t <= u
      BY <2>2, LeastNatural
    <3> QED BY <3>1 DEF T
  <2>4. /\ h[s] = IF s = {} THEN 0 ELSE f[Picked(s)] + h[s \ {Picked(s)}]
        /\ g[s] = IF s = {} THEN 0 ELSE f[Picked(s)] + g[s \ {Picked(s)}]
    BY <1>2 DEF Adds
  <2>5. s # {}
    BY <2>4
  <2>6. /\ s \ {Picked(s)} \in SUBSET S
        /\ Cardinality(s \ {Picked(s)}) = Cardinality(s) - 1
    BY <2>5, PickedLeavesLess
  <2>7. s \ {Picked(s)} \notin Bad
    <3>1. ~(Cardinality(s) <= Cardinality(s) - 1)
      BY <2>1
    <3> HIDE DEF Bad
    <3> QED BY <2>3, <2>6, <3>1
  <2> QED BY <2>4, <2>5, <2>6, <2>7
<1> QED BY <1>1, <1>3, SumIsChosen

\* g adds correctly as far as the sets of at most n elements.
AddsUpTo(g, f, S, n) ==
    /\ g \in [SUBSET S -> Nat]
    /\ \A s \in SUBSET S :
          Cardinality(s) <= n =>
              g[s] = IF s = {} THEN 0 ELSE f[Picked(s)] + g[s \ {Picked(s)}]

\* Naturals over a finite set have a sum, which is a natural.
LEMMA SumOfNaturals ==
    ASSUME NEW S, IsFiniteSet(S), NEW f, \A k \in S : f[k] \in Nat
    PROVE  SumOf(f, S) \in Nat
<1>1. \E g : AddsUpTo(g, f, S, 0)
  <2>1. \A s \in SUBSET S : Cardinality(s) <= 0 => s = {}
    <3>1. \A s \in SUBSET S : Cardinality(s) \in Nat /\ (s = {} <=> Cardinality(s) = 0)
      BY PickedLeavesLess
    <3> QED BY <3>1
  <2>2. AddsUpTo([s \in SUBSET S |-> 0], f, S, 0)
    BY <2>1 DEF AddsUpTo
  <2> QED BY <2>2
<1>2. ASSUME NEW n \in Nat, NEW g, AddsUpTo(g, f, S, n)
      PROVE  \E h : AddsUpTo(h, f, S, n + 1)
  <2>1. PICK h : h = [s \in SUBSET S |->
                        IF Cardinality(s) = n + 1 THEN f[Picked(s)] + g[s \ {Picked(s)}]
                        ELSE g[s]]
    OBVIOUS
  <2>2. ASSUME NEW s \in SUBSET S
        PROVE  /\ h[s] \in Nat
               /\ Cardinality(s) <= n => h[s] = g[s]
               /\ Cardinality(s) = n + 1 => h[s] = f[Picked(s)] + g[s \ {Picked(s)}]
    <3>1. h[s] = IF Cardinality(s) = n + 1 THEN f[Picked(s)] + g[s \ {Picked(s)}] ELSE g[s]
      BY <2>1
    <3>2. Cardinality(s) \in Nat /\ g[s] \in Nat
      BY <1>2, PickedLeavesLess DEF AddsUpTo
    <3>3. Cardinality(s) = n + 1 => f[Picked(s)] \in Nat /\ g[s \ {Picked(s)}] \in Nat
      <4>1. Cardinality(s) = n + 1 => s # {}
        <5>1. s = {} => Cardinality(s) = 0
          BY PickedLeavesLess
        <5>2. n + 1 # 0
          OBVIOUS
        <5> QED BY <5>1, <5>2
      <4>2. s # {} => Picked(s) \in S /\ s \ {Picked(s)} \in SUBSET S
        BY PickedLeavesLess
      <4> QED BY <1>2, <4>1, <4>2 DEF AddsUpTo
    <3> QED BY <3>1, <3>2, <3>3
  <2>3. h \in [SUBSET S -> Nat]
    <3>1. h = [s \in SUBSET S |-> h[s]]
      BY <2>1
    <3> QED BY <2>2, <3>1
  <2>4. ASSUME NEW s \in SUBSET S, Cardinality(s) <= n + 1
        PROVE  h[s] = IF s = {} THEN 0 ELSE f[Picked(s)] + h[s \ {Picked(s)}]
    <3>1. Cardinality(s) \in Nat /\ (s = {} <=> Cardinality(s) = 0)
      BY PickedLeavesLess
    <3>2. CASE s = {}
      BY <1>2, <2>2, <3>1, <3>2 DEF AddsUpTo
    <3>3. CASE s # {}
      <4>1. /\ s \ {Picked(s)} \in SUBSET S
            /\ Cardinality(s \ {Picked(s)}) = Cardinality(s) - 1
        BY <3>3, PickedLeavesLess
      <4>2. h[s \ {Picked(s)}] = g[s \ {Picked(s)}]
        <5>1. Cardinality(s \ {Picked(s)}) <= n
          <6>1. Cardinality(s) - 1 <= n
            BY <2>4, <3>1
          <6> QED BY <4>1, <6>1
        <5> QED BY <2>2, <4>1, <5>1
      <4>3. CASE Cardinality(s) = n + 1
        BY <2>2, <3>3, <4>2, <4>3
      <4>4. CASE Cardinality(s) <= n
        <5>1. g[s] = f[Picked(s)] + g[s \ {Picked(s)}]
          BY <1>2, <3>3, <4>4 DEF AddsUpTo
        <5> QED BY <2>2, <3>3, <4>2, <4>4, <5>1
      <4> QED BY <2>4, <3>1, <4>3, <4>4
    <3> QED BY <3>2, <3>3
  <2> QED BY <2>3, <2>4 DEF AddsUpTo
<1>3. \A n \in Nat : \E g : AddsUpTo(g, f, S, n)
  <2> DEFINE T == {n \in Nat : ~ \E g : AddsUpTo(g, f, S, n)}
  <2> SUFFICES ASSUME T # {} PROVE FALSE
    OBVIOUS
  <2>1. PICK n \in T : \A m \in T : n <= m
    BY LeastNatural
  <2>2. n \in Nat \ {0} /\ n - 1 \in Nat
    BY <1>1
  <2>3. PICK g : AddsUpTo(g, f, S, n - 1)
    <3>1. n - 1 \notin T
      <4>1. ~(n <= n - 1)
        BY <2>2
      <4> HIDE DEF T
      <4> QED BY <2>1, <4>1
    <3> QED BY <2>2, <3>1
  <2>4. \E h : AddsUpTo(h, f, S, (n - 1) + 1)
    BY <1>2, <2>2, <2>3
  <2>5. (n - 1) + 1 = n
    BY <2>2
  <2> QED BY <2>1, <2>4, <2>5
<1>4. Cardinality(S) \in Nat /\ \A s \in SUBSET S : Cardinality(s) <= Cardinality(S)
  BY FS_Subset, FS_CardinalityType
<1>5. PICK g : AddsUpTo(g, f, S, Cardinality(S))
  BY <1>3, <1>4
<1>6. \A s \in SUBSET S : g[s] = IF s = {} THEN 0 ELSE f[Picked(s)] + g[s \ {Picked(s)}]
  BY <1>4, <1>5 DEF AddsUpTo
<1>7. g = [s \in SUBSET S |-> g[s]] /\ g[S] \in Nat
  BY <1>5 DEF AddsUpTo
<1>8. Adds(g, f, S)
  <2>1. g = [s \in SUBSET S |-> IF s = {} THEN 0 ELSE f[Picked(s)] + g[s \ {Picked(s)}]]
    BY <1>6, <1>7
  <2> QED BY <2>1, Zenon DEF Adds
<1> QED BY <1>7, <1>8, SumIsAnySolution

\* What the sum is of a set in which only l and m count.
Pair(f, l, m, S) ==
    (IF l \in S THEN f[l] ELSE 0) + (IF m \in S /\ m # l THEN f[m] ELSE 0)

LEMMA SumOfPair ==
    ASSUME NEW S, IsFiniteSet(S), NEW f, \A k \in S : f[k] \in Nat,
           NEW l, NEW m, \A k \in S \ {l, m} : f[k] = 0
    PROVE  SumOf(f, S) = Pair(f, l, m, S)
<1> DEFINE g == [s \in SUBSET S |-> Pair(f, l, m, s)]
<1>1. ASSUME NEW s \in SUBSET S
      PROVE  g[s] = IF s = {} THEN 0 ELSE f[Picked(s)] + g[s \ {Picked(s)}]
  <2>1. g[s] = Pair(f, l, m, s)
    OBVIOUS
  <2>2. CASE s = {}
    BY <2>1, <2>2 DEF Pair
  <2>3. ASSUME s # {}, NEW x, x = Picked(s)
        PROVE  g[s] = f[x] + g[s \ {x}]
    <3>1. x \in s /\ s \ {x} \in SUBSET S
      BY <2>3, PickedLeavesLess
    <3>2. g[s \ {x}] = Pair(f, l, m, s \ {x})
      BY <3>1
    <3>3. CASE x = l
      BY <2>1, <3>1, <3>2, <3>3 DEF Pair
    <3>4. CASE x = m /\ x # l
      BY <2>1, <3>1, <3>2, <3>4 DEF Pair
    <3>5. CASE x \notin {l, m}
      <4>1. f[x] = 0
        BY <3>1, <3>5
      <4> QED BY <2>1, <3>1, <3>2, <3>5, <4>1 DEF Pair
    <3> QED BY <3>3, <3>4, <3>5
  <2> HIDE DEF g
  <2> QED BY <2>2, <2>3
<1>2. g = [s \in SUBSET S |-> g[s]] /\ g[S] = Pair(f, l, m, S)
  OBVIOUS
<1> HIDE DEF g
<1>3. Adds(g, f, S)
  <2>1. g = [s \in SUBSET S |-> IF s = {} THEN 0 ELSE f[Picked(s)] + g[s \ {Picked(s)}]]
    BY <1>1, <1>2
  <2> QED BY <2>1, Zenon DEF Adds
<1> QED BY <1>2, <1>3, SumIsAnySolution

-----------------------------------------------------------------------------
(* What is counted                                                         *)

CountsAreSums ==
    /\ \A h : Count(h) = SumOf(incidents, {k \in Kind : k.hash = h})
    /\ \A a : Recorded(a) = SumOf(incidents, {k \in Kind : k.actions = a})

LEMMA CountIsSum == CountsAreSums
BY DEF CountsAreSums, Count, Recorded, Total, SumOf

LEMMA CountIsSumNext == CountsAreSums'
BY CountIsSum, PTL

LEMMA Kinds ==
    /\ \A h \in Hash : Qualified(h) \in Kind /\ Qualified(h).hash = h /\ Qualified(h).actions = h
    /\ \A a \in Actions : /\ Legacy(a) \in Kind /\ Legacy(a) # Qualified(a)
                          /\ Legacy(a).hash = Broad /\ Legacy(a).actions = a
    /\ \A k \in Kind : /\ k.hash \in Hash
                       /\ \/ k = Qualified(k.hash) /\ k.hash = k.actions
                          \/ k.actions \in Actions /\ k = Legacy(k.actions) /\ k.hash = Broad
    /\ Broad \notin Actions /\ Broad \in Hash /\ Actions \subseteq Hash
    /\ IsFiniteSet(Kind)
<1>1. Broad \notin Actions /\ Broad \in Hash /\ Actions \subseteq Hash
  BY IncidentsAssumption DEF Hash
<1>2. \A h \in Hash : Qualified(h) \in Kind /\ Qualified(h).hash = h /\ Qualified(h).actions = h
  BY DEF Qualified, Kind
<1>3. \A a \in Actions : /\ Legacy(a) \in Kind /\ Legacy(a) # Qualified(a)
                         /\ Legacy(a).hash = Broad /\ Legacy(a).actions = a
  BY <1>1 DEF Legacy, Qualified, Kind
<1>4. \A k \in Kind : /\ k.hash \in Hash
                      /\ \/ k = Qualified(k.hash) /\ k.hash = k.actions
                         \/ k.actions \in Actions /\ k = Legacy(k.actions) /\ k.hash = Broad
  BY DEF Legacy, Qualified, Kind, Hash
<1>5. IsFiniteSet(Kind)
  <2> DEFINE Q == {Qualified(h) : h \in Hash}
             L == {Legacy(a) : a \in Actions}
  <2>1. IsFiniteSet(Actions)
    BY IncidentsAssumption
  <2>2. IsFiniteSet(Hash)
    BY <2>1, FS_AddElement DEF Hash
  <2>3. IsFiniteSet(Q)
    <3>1. [h \in Hash |-> Qualified(h)] \in Surjection(Hash, Q)
      BY DEF Surjection
    <3> HIDE DEF Q
    <3> QED BY <2>2, <3>1, FS_Surjection
  <2>4. IsFiniteSet(L)
    <3>1. [a \in Actions |-> Legacy(a)] \in Surjection(Actions, L)
      BY DEF Surjection
    <3> HIDE DEF L
    <3> QED BY <2>1, <3>1, FS_Surjection
  <2>5. Kind \subseteq Q \union L
    BY <1>4
  <2> HIDE DEF Q, L
  <2>6. IsFiniteSet(Q \union L)
    BY <2>3, <2>4, FS_Union
  <2> QED BY <2>5, <2>6, FS_Subset
<1> QED BY <1>1, <1>2, <1>3, <1>4, <1>5

Clean(f) == \A a \in Actions : f[Legacy(a)] = 0

LEMMA Tallies ==
    ASSUME NEW f \in [Kind -> Nat]
    PROVE  /\ \A a \in Actions :
                 /\ SumOf(f, {k \in Kind : k.hash = a}) = f[Qualified(a)]
                 /\ SumOf(f, {k \in Kind : k.actions = a}) = f[Qualified(a)] + f[Legacy(a)]
           /\ SumOf(f, {k \in Kind : k.hash = Broad}) \in Nat
           /\ Clean(f) => SumOf(f, {k \in Kind : k.hash = Broad}) = f[Qualified(Broad)]
<1>1. ASSUME NEW S \in SUBSET Kind
      PROVE  IsFiniteSet(S) /\ \A k \in S : f[k] \in Nat
  BY Kinds, FS_Subset
<1>2. ASSUME NEW a \in Actions
      PROVE  SumOf(f, {k \in Kind : k.hash = a}) = f[Qualified(a)]
  <2> DEFINE S == {k \in Kind : k.hash = a}
             q == Qualified(a)
  <2>1. S \in SUBSET Kind /\ S = {q}
    BY Kinds
  <2>2. SumOf(f, S) = Pair(f, q, q, S)
    <3>1. \A k \in S \ {q, q} : f[k] = 0
      BY <2>1
    <3> HIDE DEF S, q
    <3> QED BY <1>1, <2>1, <3>1, SumOfPair
  <2>3. f[q] \in Nat
    BY <2>1
  <2> HIDE DEF S, q
  <2>4. SumOf(f, S) = f[q]
    BY <2>1, <2>2, <2>3 DEF Pair
  <2> QED BY <2>4 DEF S, q
<1>3. ASSUME NEW a \in Actions
      PROVE  SumOf(f, {k \in Kind : k.actions = a}) = f[Qualified(a)] + f[Legacy(a)]
  <2> DEFINE S == {k \in Kind : k.actions = a}
             q == Qualified(a)
             l == Legacy(a)
  <2>1. S \in SUBSET Kind /\ S = {q, l} /\ q # l
    BY Kinds
  <2>2. SumOf(f, S) = Pair(f, q, l, S)
    <3>1. \A k \in S \ {q, l} : f[k] = 0
      BY <2>1
    <3> HIDE DEF S, q, l
    <3> QED BY <1>1, <2>1, <3>1, SumOfPair
  <2>3. f[q] \in Nat /\ f[l] \in Nat
    BY <2>1
  <2> HIDE DEF S, q, l
  <2>4. SumOf(f, S) = f[q] + f[l]
    BY <2>1, <2>2, <2>3 DEF Pair
  <2> QED BY <2>4 DEF S, q, l
<1>4. SumOf(f, {k \in Kind : k.hash = Broad}) \in Nat
  <2> DEFINE S == {k \in Kind : k.hash = Broad}
  <2>1. S \in SUBSET Kind
    OBVIOUS
  <2> HIDE DEF S
  <2>2. SumOf(f, S) \in Nat
    BY <1>1, <2>1, SumOfNaturals
  <2> QED BY <2>2 DEF S
<1>5. ASSUME Clean(f)
      PROVE  SumOf(f, {k \in Kind : k.hash = Broad}) = f[Qualified(Broad)]
  <2> DEFINE S == {k \in Kind : k.hash = Broad}
             q == Qualified(Broad)
  <2>1. S \in SUBSET Kind /\ q \in S /\ f[q] \in Nat
    BY Kinds
  <2>2. \A k \in S \ {q, q} : f[k] = 0
    BY <1>5, Kinds DEF Clean
  <2> HIDE DEF S, q
  <2>3. SumOf(f, S) = Pair(f, q, q, S)
    BY <1>1, <2>1, <2>2, SumOfPair
  <2>4. SumOf(f, S) = f[q]
    BY <2>1, <2>3 DEF Pair
  <2> QED BY <2>4 DEF S, q
<1> QED BY <1>2, <1>3, <1>4, <1>5

\* Once everything is migrated, the incidents of a hash are of one kind.
LEMMA CleanCounts ==
    ASSUME incidents \in [Kind -> Nat]
    PROVE  /\ Count(Broad) \in Nat
           /\ \A a \in Actions : /\ Count(a) = incidents[Qualified(a)]
                                 /\ Recorded(a) = incidents[Qualified(a)] + incidents[Legacy(a)]
           /\ Clean(incidents) => \A h \in Hash : Count(h) = incidents[Qualified(h)]
<1>1. PICK f \in [Kind -> Nat] : f = incidents
  OBVIOUS
<1>2. /\ \A h : Count(h) = SumOf(f, {k \in Kind : k.hash = h})
      /\ \A a : Recorded(a) = SumOf(f, {k \in Kind : k.actions = a})
  BY <1>1, CountIsSum DEF CountsAreSums
<1>3. \A h \in Hash : h \in Actions \/ h = Broad
  BY DEF Hash
<1> QED BY <1>1, <1>2, <1>3, Tallies

-----------------------------------------------------------------------------
(* The counts of the rows                                                  *)

\* A row claims no more than most gives its hash.
Covered(row, most) == row.count \in Nat /\ row.count <= most[Qualified(row.hash)]

\* Splitting keeps or lowers what the rows claim; the legacy row itself may
\* claim too much only if there are groups, for then it becomes one or is deleted.
LEMMA SplitCovers ==
    ASSUME RowsInv, NEW i, NEW counts \in [Kind -> Nat], Split(i, counts),
           \A j \in DOMAIN patterns \ {i} : Covered(patterns[j], counts),
           i \in DOMAIN patterns =>
              \/ Covered(patterns[i], counts)
              \/ patterns[i].hash = Broad /\ \E a \in Actions : counts[Qualified(a)] > 0
    PROVE  \A j \in DOMAIN patterns' : Covered(patterns'[j], counts)
<1>1. PICK disabled : disabled = Disable(patterns, i)
  OBVIOUS
<1>2. /\ IsRows(disabled) /\ DOMAIN disabled = DOMAIN patterns
      /\ \A j \in DOMAIN patterns \ {i} : disabled[j] = patterns[j]
      /\ i \in DOMAIN patterns => /\ disabled[i].hash = patterns[i].hash
                                  /\ disabled[i].count = patterns[i].count
  <2>1. /\ IsRows(disabled) /\ DOMAIN disabled = DOMAIN patterns
        /\ \A j \in DOMAIN patterns \ {i} : disabled[j] = patterns[j]
    BY <1>1, Disabling
  <2>2. ASSUME i \in DOMAIN patterns
        PROVE  /\ disabled[i].hash = patterns[i].hash
               /\ disabled[i].count = patterns[i].count
    <3>1. disabled = [patterns EXCEPT ![i].status = "disabled"]
      BY <1>1, <2>2 DEF Disable
    <3>2. /\ patterns = [j \in DOMAIN patterns |-> patterns[j]]
          /\ patterns[i] = [hash |-> patterns[i].hash, count |-> patterns[i].count,
                            status |-> patterns[i].status]
      BY <2>2 DEF RowsInv, IsRows, IsRow
    <3>3. disabled[i] = [patterns[i] EXCEPT !.status = "disabled"]
      BY <2>2, <3>1, <3>2
    <3>4. disabled[i] = [hash |-> patterns[i].hash, count |-> patterns[i].count,
                         status |-> "disabled"]
      BY <3>2, <3>3
    <3> QED BY <3>4
  <2> QED BY <2>1, <2>2
<1>3. \A j \in DOMAIN disabled \ {i} : Covered(disabled[j], counts)
  BY <1>2
<1>4. i \in DOMAIN disabled =>
         \/ Covered(disabled[i], counts)
         \/ disabled[i].hash = Broad /\ \E a \in Actions : counts[Qualified(a)] > 0
  BY <1>2 DEF Covered
<1>5. PICK groups : groups = {a \in Actions : counts[Qualified(a)] > 0}
  OBVIOUS
<1>6. CASE groups = {}
  <2>1. patterns' = disabled
    BY <1>1, <1>5, <1>6 DEF Split
  <2> QED BY <1>3, <1>4, <1>5, <1>6, <2>1
<1>7. CASE groups # {}
  <2>1. PICK first \in groups :
          LET reused == Reuse(disabled, i, first, counts)
              owners == RowsOf(disabled, first) \ {i}
              missing == {a \in groups \ {first} : RowsOf(reused, a) = {}}
          IN  \E order \in SetToSeqs(missing) :
                IF owners = {} THEN patterns' = Regroup(reused, order, counts)
                ELSE patterns' = Without(Regroup(reused, order, counts), i)
    <3>1. \E first \in groups :
            LET reused == Reuse(disabled, i, first, counts)
                owners == RowsOf(disabled, first) \ {i}
                missing == {a \in groups \ {first} : RowsOf(reused, a) = {}}
            IN  \E order \in SetToSeqs(missing) :
                  IF owners = {}
                  THEN /\ patterns' = Regroup(reused, order, counts)
                       /\ catalog' = DisableRules(catalog, i)
                  ELSE /\ patterns' = Without(Regroup(reused, order, counts), i)
                       /\ catalog' = Inherit(DisableRules(catalog, i), i, CHOOSE o \in owners : TRUE)
      BY <1>1, <1>5, <1>7 DEF Split
    <3> QED BY <3>1
  <2>2. PICK reused, owners :
          reused = Reuse(disabled, i, first, counts) /\ owners = RowsOf(disabled, first) \ {i}
    OBVIOUS
  <2> DEFINE missing == {a \in groups \ {first} : RowsOf(reused, a) = {}}
  <2>3. PICK order \in SetToSeqs(missing) :
          IF owners = {} THEN patterns' = Regroup(reused, order, counts)
          ELSE patterns' = Without(Regroup(reused, order, counts), i)
    BY <2>1, <2>2
  <2>4. missing \in SUBSET Actions /\ first \in Actions /\ first \in Hash
    BY <1>5 DEF Hash
  <2> HIDE DEF missing
  <2>5. IsRows(reused) /\ DOMAIN reused = DOMAIN disabled
    <3>1. ChangedAt(disabled, i, reused)
      BY <1>2, <2>2, <2>4, Reusing
    <3> QED BY <3>1 DEF ChangedAt
  <2>6. Covered(Row(first, counts[Qualified(first)], "pending"), counts)
    <3>1. counts[Qualified(first)] \in Nat
      BY <2>4, Kinds
    <3> QED BY <3>1 DEF Covered, Row
  <2>7. \A j \in DOMAIN reused :
          Covered(reused[j], counts) \/ (j = i /\ owners # {})
    <3>1. CASE RowsOf(disabled, first) = {} /\ i \in DOMAIN disabled
      <4>1. reused = [disabled EXCEPT ![i] = Row(first, counts[Qualified(first)], "pending")]
        BY <2>2, <3>1 DEF Reuse
      <4>2. disabled = [j \in DOMAIN disabled |-> disabled[j]]
        BY <1>2 DEF IsRows
      <4>3. /\ reused[i] = Row(first, counts[Qualified(first)], "pending")
            /\ \A j \in DOMAIN disabled \ {i} : reused[j] = disabled[j]
        BY <3>1, <4>1, <4>2
      <4> QED BY <1>3, <2>5, <2>6, <4>3
    <3>2. CASE i \notin DOMAIN disabled
      <4>1. reused = disabled
        BY <2>2, <3>2 DEF Reuse
      <4> QED BY <1>3, <3>2, <4>1
    <3>3. CASE RowsOf(disabled, first) # {} /\ i \in DOMAIN disabled
      <4>1. reused = disabled
        BY <2>2, <3>3 DEF Reuse
      <4>2. disabled[i].hash = Broad => owners # {}
        BY <2>2, <2>4, <3>3, Kinds DEF RowsOf
      <4> QED BY <1>3, <1>4, <4>1, <4>2
    <3> QED BY <3>1, <3>2, <3>3
  <2>8. PICK rows : rows = Regroup(reused, order, counts)
    OBVIOUS
  <2>9. \A j \in DOMAIN rows : Covered(rows[j], counts) \/ (j = i /\ owners # {})
    <3>1. /\ \A j \in DOMAIN reused : j \in DOMAIN rows /\ rows[j] = reused[j]
          /\ \A j \in DOMAIN rows \ DOMAIN reused :
                \E a \in Actions : rows[j] = Row(a, counts[Qualified(a)], "pending")
      BY <2>4, <2>5, <2>8, Regrouping
    <3>2. \A a \in Actions : Covered(Row(a, counts[Qualified(a)], "pending"), counts)
      <4>1. \A a \in Actions : counts[Qualified(a)] \in Nat
        BY Kinds
      <4> QED BY <4>1 DEF Covered, Row
    <3> QED BY <2>7, <3>1, <3>2
  <2>10. CASE owners = {}
    BY <2>3, <2>8, <2>9, <2>10
  <2>11. CASE owners # {}
    <3>1. patterns' = [j \in DOMAIN rows \ {i} |-> rows[j]]
      BY <2>3, <2>8, <2>11 DEF Without
    <3> QED BY <2>9, <3>1
  <2> QED BY <2>10, <2>11
<1> QED BY <1>6, <1>7

-----------------------------------------------------------------------------
(* The invariant of the counts                                             *)

\* A process has counted what the kinds of incidents f can witness; it is past
\* the migration of the incidents only when none is left to migrate.
Fits(x, f, started) ==
    /\ \E counted \in SUBSET Hash :
          /\ x \in Doing(counted)
          /\ \A h \in counted : x.found[h] <= f[Qualified(h)]
          /\ ~started => counted = {}
    /\ x.pc \in {"look", "split"} => Clean(f)

CountInv ==
    /\ incidents \in [Kind -> Nat]
    /\ proc = [p \in Process |-> proc[p]]
    /\ \A p \in Process : Fits(proc[p], incidents, opened)
    /\ gates \in 0..MaxGates
    /\ opened \in BOOLEAN
    /\ opened => /\ Clean(incidents)
                 /\ \A i \in DOMAIN patterns : Covered(patterns[i], incidents)
    /\ ~opened => \A i \in DOMAIN patterns :
                     patterns[i].count \in Nat /\ patterns[i].count <= Count(Broad)

LEMMA AbsentFits ==
    ASSUME NEW f, NEW started
    PROVE  Fits(Absent, f, started) /\ Fits(Ready, f, started)
<1>1. <<>> \in [{} -> Nat]
  OBVIOUS
<1>2. Absent \in Doing({}) /\ Ready \in Doing({})
  BY <1>1 DEF Absent, Ready, Doing, Step, Starting
<1>3. Absent.pc = "absent" /\ Ready.pc = "ready"
  BY DEF Absent, Ready
<1> QED BY <1>2, <1>3 DEF Fits

LEMMA InitCountInv == Init => CountInv
<1> SUFFICES ASSUME Init PROVE CountInv
  OBVIOUS
<1>1. incidents \in [Kind -> Nat]
  BY IncidentsAssumption DEF Init
<1>2. /\ proc = [p \in Process |-> proc[p]]
      /\ \A p \in Process : Fits(proc[p], incidents, opened)
  <2>1. proc = [p \in Process |-> Absent]
    BY DEF Init
  <2> QED BY <2>1, AbsentFits
<1>3. gates \in 0..MaxGates /\ opened = FALSE
  BY IncidentsAssumption DEF Init
<1>4. \A i \in DOMAIN patterns : patterns[i].count \in Nat /\ patterns[i].count <= Count(Broad)
  <2>1. Count(Broad) \in Nat
    BY <1>1, CleanCounts
  <2>2. CASE patterns = <<>>
    BY <2>2
  <2>3. ASSUME NEW s, patterns = <<Row(Broad, Count(Broad), s)>>
        PROVE  \A i \in DOMAIN patterns :
                  patterns[i].count \in Nat /\ patterns[i].count <= Count(Broad)
    <3>1. \A i \in DOMAIN patterns : patterns[i].count = Count(Broad)
      BY <2>3 DEF Row
    <3> QED BY <2>1, <3>1
  <2> QED BY <2>2, <2>3 DEF Init
<1> QED BY <1>1, <1>2, <1>3, <1>4 DEF CountInv

\* One process moves and leaves the database alone.
LEMMA OneProcessMoves ==
    ASSUME CountInv, NEW p \in Process, NEW x, proc' = [proc EXCEPT ![p] = x],
           Fits(x, incidents, opened),
           UNCHANGED <<incidents, patterns, opened>>, gates' \in 0..MaxGates
    PROVE  CountInv'
<1>1. Count(Broad)' = Count(Broad)
  BY CountIsSum, CountIsSumNext DEF CountsAreSums
<1>2. /\ proc' = [q \in Process |-> proc'[q]]
      /\ proc'[p] = x
      /\ \A q \in Process \ {p} : proc'[q] = proc[q]
  BY DEF CountInv
<1>3. \A q \in Process : Fits(proc'[q], incidents', opened')
  BY <1>2 DEF CountInv
<1>4. UNCHANGED <<incidents, patterns, opened>>
  OBVIOUS
<1> QED BY <1>1, <1>2, <1>3, <1>4 DEF CountInv

\* What Fits says of a process whose counts stay and that goes to another step.
LEMMA StepFits ==
    ASSUME NEW x, NEW f, NEW started, Fits(x, f, started),
           NEW y, y.pc \in Step \union DOMAIN x.found, y.pc \in {"look", "split"} => Clean(f),
           y.legacy \in Nat, y.todo \in SUBSET DOMAIN x.found, y.exists \in BOOLEAN,
           y = [pc |-> y.pc, legacy |-> y.legacy, found |-> x.found, todo |-> y.todo,
                exists |-> y.exists]
    PROVE  Fits(y, f, started)
<1>1. PICK counted \in SUBSET Hash :
          /\ x \in Doing(counted)
          /\ \A h \in counted : x.found[h] <= f[Qualified(h)]
          /\ ~started => counted = {}
  BY DEF Fits
<1>2. DOMAIN x.found = counted /\ x.found \in [counted -> Nat]
  BY <1>1 DEF Doing
<1>3. y \in Doing(counted) /\ y.found = x.found
  BY <1>2 DEF Doing
<1> QED BY <1>1, <1>3 DEF Fits

LEMMA FitsIsRecord ==
    ASSUME NEW x, NEW f, NEW started, Fits(x, f, started)
    PROVE  /\ x = [pc |-> x.pc, legacy |-> x.legacy, found |-> x.found, todo |-> x.todo,
                   exists |-> x.exists]
           /\ x.pc \in Step \union DOMAIN x.found
           /\ x.legacy \in Nat /\ x.todo \in SUBSET DOMAIN x.found /\ x.exists \in BOOLEAN
           /\ DOMAIN x.found \subseteq Hash
<1>1. PICK counted \in SUBSET Hash : x \in Doing(counted)
  BY DEF Fits
<1> QED BY <1>1 DEF Doing

-----------------------------------------------------------------------------
(* The steps that change nothing but what a process is doing               *)

LEMMA ProcessIsRecord ==
    ASSUME CountInv, NEW p \in Process
    PROVE  /\ IsProc(proc[p])
           /\ proc[p].pc \in Step \union DOMAIN proc[p].found
           /\ proc[p].legacy \in Nat /\ proc[p].todo \in SUBSET DOMAIN proc[p].found
           /\ proc[p].exists \in BOOLEAN /\ DOMAIN proc[p].found \subseteq Hash
<1>1. Fits(proc[p], incidents, opened)
  BY DEF CountInv
<1> QED BY <1>1, FitsIsRecord DEF IsProc

\* Such a step keeps what the process has counted.
LEMMA StepCounts ==
    ASSUME CountInv, NEW p \in Process,
           NEW s \in Step \union DOMAIN proc[p].found, s \in {"look", "split"} => Clean(incidents),
           NEW i \in Nat, NEW todo \in SUBSET DOMAIN proc[p].found, NEW e \in BOOLEAN,
           NEW y, y = [pc |-> s, legacy |-> i, found |-> proc[p].found, todo |-> todo,
                       exists |-> e],
           proc' = [proc EXCEPT ![p] = y],
           UNCHANGED <<incidents, patterns, opened>>, gates' \in 0..MaxGates
    PROVE  CountInv'
<1>1. Fits(proc[p], incidents, opened)
  BY DEF CountInv
<1>2. Fits(y, incidents, opened)
  <2>1. /\ y.pc = s /\ y.legacy = i /\ y.todo = todo /\ y.exists = e
        /\ y = [pc |-> y.pc, legacy |-> y.legacy, found |-> proc[p].found, todo |-> y.todo,
                exists |-> y.exists]
    OBVIOUS
  <2> QED BY <1>1, <2>1, StepFits
<1> QED BY <1>2, OneProcessMoves

LEMMA ReadIncidentsCounts ==
    ASSUME CountInv, NEW p \in Process, ReadIncidents(p) PROVE CountInv'
<1>0. IsProc(proc[p])
  BY ProcessIsRecord
<1>1. PICK s : s = IF Migratable = {} THEN "look" ELSE "migrate"
  OBVIOUS
<1>2. PICK y : y = [proc[p] EXCEPT !.pc = s] /\ proc' = [proc EXCEPT ![p] = y]
  BY <1>1 DEF ReadIncidents
<1>3. y = [pc |-> s, legacy |-> proc[p].legacy, found |-> proc[p].found,
           todo |-> proc[p].todo, exists |-> proc[p].exists]
  BY <1>0, <1>2 DEF IsProc
<1>4. s \in Step /\ s # "split"
  BY <1>1 DEF Step, Starting
<1>5. s = "look" => Clean(incidents)
  <2>1. \A a \in Actions : incidents[Legacy(a)] \in Nat
    BY Kinds DEF CountInv
  <2> QED BY <1>1, <2>1 DEF Migratable, Clean
<1>6. gates' \in 0..MaxGates /\ UNCHANGED <<incidents, patterns, opened>>
  BY DEF ReadIncidents, CountInv
<1> QED BY <1>2, <1>3, <1>4, <1>5, <1>6, ProcessIsRecord, StepCounts

LEMMA FindPatternCounts ==
    ASSUME CountInv, NEW p \in Process, NEW h \in Hash, FindPattern(p, h) PROVE CountInv'
<1>0. IsProc(proc[p])
  BY ProcessIsRecord
<1>1. PICK e \in BOOLEAN : e = (RowsOf(patterns, h) # {})
  OBVIOUS
<1>2. PICK y : y = [proc[p] EXCEPT !.pc = h, !.exists = e] /\ proc' = [proc EXCEPT ![p] = y]
  BY <1>1 DEF FindPattern
<1>3. y = [pc |-> h, legacy |-> proc[p].legacy, found |-> proc[p].found,
           todo |-> proc[p].todo, exists |-> e]
  BY <1>0, <1>2 DEF IsProc
<1>4. h \in DOMAIN proc[p].found
  BY ProcessIsRecord DEF FindPattern
<1>5. h \notin {"look", "split"}
  BY StepAssumption DEF Step, Starting
<1>6. gates' \in 0..MaxGates /\ UNCHANGED <<incidents, patterns, opened>>
  BY DEF FindPattern, CountInv
<1> QED BY <1>2, <1>3, <1>4, <1>5, <1>6, ProcessIsRecord, StepCounts

LEMMA RecordRunCounts ==
    ASSUME CountInv, NEW p \in Process, RecordRun(p) PROVE CountInv'
<1>0. IsProc(proc[p])
  BY ProcessIsRecord
<1>1. PICK y : y = [proc[p] EXCEPT !.pc = "record"] /\ proc' = [proc EXCEPT ![p] = y]
  BY DEF RecordRun
<1>2. y = [pc |-> "record", legacy |-> proc[p].legacy, found |-> proc[p].found,
           todo |-> proc[p].todo, exists |-> proc[p].exists]
  BY <1>0, <1>1 DEF IsProc
<1>3. "record" \in Step
  BY DEF Step
<1>4. gates' \in 0..MaxGates /\ UNCHANGED <<incidents, patterns, opened>>
  BY IncidentsAssumption DEF RecordRun, CountInv
<1> QED BY <1>1, <1>2, <1>3, <1>4, ProcessIsRecord, StepCounts

LEMMA AnalyzeWithAgentsCounts ==
    ASSUME CountInv, NEW p \in Process, AnalyzeWithAgents(p) PROVE CountInv'
<1>0. IsProc(proc[p])
  BY ProcessIsRecord
<1>1. PICK todo : todo = DOMAIN proc[p].found \ {Broad}
  OBVIOUS
<1>2. PICK y : y = [proc[p] EXCEPT !.pc = "save", !.todo = todo] /\ proc' = [proc EXCEPT ![p] = y]
  BY <1>1 DEF AnalyzeWithAgents
<1>3. y = [pc |-> "save", legacy |-> proc[p].legacy, found |-> proc[p].found,
           todo |-> todo, exists |-> proc[p].exists]
  BY <1>0, <1>2 DEF IsProc
<1>4. "save" \in Step /\ todo \in SUBSET DOMAIN proc[p].found
  BY <1>1 DEF Step
<1>5. gates' \in 0..MaxGates /\ UNCHANGED <<incidents, patterns, opened>>
  BY DEF AnalyzeWithAgents, CountInv
<1> QED BY <1>2, <1>3, <1>4, <1>5, ProcessIsRecord, StepCounts

\* What analyze_incidents counts is witnessed at that moment.
LEMMA CountIncidentsCounts ==
    ASSUME IInv, CountInv, NEW p \in Process, CountIncidents(p) PROVE CountInv'
<1>0. IsProc(proc[p])
  BY ProcessIsRecord
<1>1. PICK recurring : recurring = {h \in Hash : Count(h) >= MinIncidents}
  OBVIOUS
<1>2. PICK found : found = [h \in recurring |-> Count(h)]
  OBVIOUS
<1>3. PICK y : /\ y = [proc[p] EXCEPT !.pc = "find", !.found = found, !.todo = recurring]
               /\ proc' = [proc EXCEPT ![p] = y]
  BY <1>1, <1>2 DEF CountIncidents
<1>4. y = [pc |-> "find", legacy |-> proc[p].legacy, found |-> found,
           todo |-> recurring, exists |-> proc[p].exists]
  BY <1>0, <1>3 DEF IsProc
<1>5. opened
  BY Opened_Or_Starting DEF CountIncidents, Starting
<1>6. \A h \in recurring : Count(h) \in Nat /\ Count(h) = incidents[Qualified(h)]
  <2>1. incidents \in [Kind -> Nat] /\ Clean(incidents)
    BY <1>5 DEF CountInv
  <2>2. \A h \in Hash : Count(h) = incidents[Qualified(h)] /\ incidents[Qualified(h)] \in Nat
    BY <2>1, CleanCounts, Kinds
  <2> QED BY <1>1, <2>2
<1>7. y \in Doing(recurring) /\ \A h \in recurring : y.found[h] <= incidents[Qualified(h)]
  <2>1. found \in [recurring -> Nat]
    BY <1>2, <1>6
  <2>2. "find" \in Step /\ proc[p].legacy \in Nat /\ proc[p].exists \in BOOLEAN
    BY ProcessIsRecord DEF Step
  <2>3. y \in Doing(recurring)
    BY <1>4, <2>1, <2>2 DEF Doing
  <2>4. \A h \in recurring : found[h] = incidents[Qualified(h)] /\ found[h] \in Nat
    BY <1>2, <1>6
  <2> QED BY <1>4, <2>3, <2>4
<1>8. Fits(y, incidents, opened)
  BY <1>1, <1>4, <1>5, <1>7 DEF Fits
<1>9. gates' \in 0..MaxGates /\ UNCHANGED <<incidents, patterns, opened>>
  BY DEF CountIncidents, CountInv
<1> QED BY <1>3, <1>8, <1>9, OneProcessMoves

LEMMA ForgettingCounts ==
    ASSUME CountInv, NEW p \in Process,
           Finish(p) \/ Die(p) \/ \E h \in Hash : InsertFails(p, h)
    PROVE  CountInv'
<1>1. PICK x \in {Absent, Ready} : proc' = [proc EXCEPT ![p] = x]
  BY DEF Finish, Die, InsertFails
<1>2. gates' \in 0..MaxGates /\ UNCHANGED <<incidents, patterns, opened>>
  BY DEF Finish, Die, InsertFails, CountInv
<1> QED BY <1>1, <1>2, AbsentFits, OneProcessMoves

-----------------------------------------------------------------------------
(* The steps that change incidents or counts                               *)

\* More incidents witness whatever fewer did.
LEMMA FitsMore ==
    ASSUME NEW x, NEW f \in [Kind -> Nat], NEW g \in [Kind -> Nat], NEW started,
           Fits(x, f, started), Clean(f) => Clean(g),
           \A h \in Hash : f[Qualified(h)] <= g[Qualified(h)]
    PROVE  Fits(x, g, started)
<1>1. PICK counted \in SUBSET Hash :
          /\ x \in Doing(counted)
          /\ \A h \in counted : x.found[h] <= f[Qualified(h)]
          /\ ~started => counted = {}
  BY DEF Fits
<1>2. ASSUME NEW h \in counted
      PROVE  x.found[h] <= g[Qualified(h)]
  <2>1. x.found \in [counted -> Nat]
    BY <1>1 DEF Doing
  <2>2. x.found[h] \in Nat
    BY <2>1
  <2>3. f[Qualified(h)] \in Nat /\ g[Qualified(h)] \in Nat
    BY Kinds
  <2>4. x.found[h] <= f[Qualified(h)] /\ f[Qualified(h)] <= g[Qualified(h)]
    BY <1>1
  <2> QED BY <2>2, <2>3, <2>4
<1> QED BY <1>1, <1>2 DEF Fits

LEMMA RecordIncidentCounts ==
    ASSUME IInv, CountInv, NEW p \in Process, RecordIncident(p) PROVE CountInv'
<1>1. PICK a \in Hash : incidents' = [incidents EXCEPT ![Qualified(a)] = @ + 1]
  BY DEF RecordIncident
<1>2. UNCHANGED <<patterns, proc, gates, opened>>
  BY DEF RecordIncident
<1>3. opened
  BY Opened_Or_Starting DEF RecordIncident, Starting
<1>4. /\ incidents \in [Kind -> Nat] /\ Clean(incidents)
      /\ \A i \in DOMAIN patterns : Covered(patterns[i], incidents)
  BY <1>3 DEF CountInv
<1>5. Qualified(a) \in Kind
  BY Kinds
<1>6. incidents' \in [Kind -> Nat] /\ \A k \in Kind : incidents[k] <= incidents'[k]
  BY <1>1, <1>4, <1>5
<1>7. Clean(incidents')
  <2>1. \A b \in Actions : Legacy(b) \in Kind /\ Legacy(b) # Qualified(a)
    <3>1. \A b \in Actions : Legacy(b).hash # Legacy(b).actions
      BY Kinds
    <3>2. Qualified(a).hash = Qualified(a).actions
      BY Kinds
    <3> QED BY <3>1, <3>2, Kinds
  <2> QED BY <1>1, <1>4, <2>1 DEF Clean
<1>8. \A h \in Hash : /\ incidents[Qualified(h)] \in Nat /\ incidents'[Qualified(h)] \in Nat
                      /\ incidents[Qualified(h)] <= incidents'[Qualified(h)]
  BY <1>4, <1>6, Kinds
<1>9. \A q \in Process : Fits(proc[q], incidents', opened)
  <2> TAKE q \in Process
  <2>1. Fits(proc[q], incidents, opened)
    BY DEF CountInv
  <2> QED BY <1>4, <1>6, <1>7, <1>8, <2>1, FitsMore
<1>10. \A i \in DOMAIN patterns : Covered(patterns[i], incidents')
  <2> TAKE i \in DOMAIN patterns
  <2>1. patterns[i].hash \in Hash
    BY DEF IInv, RowsInv, IsRows, IsRow
  <2> QED BY <1>4, <1>8, <2>1 DEF Covered
<1> QED BY <1>2, <1>3, <1>6, <1>7, <1>9, <1>10 DEF CountInv

\* A start completes: what the processes have counted and what the rows claim
\* must be witnessed by the migrated incidents.
LEMMA OpeningCounts ==
    ASSUME CountInv, NEW p \in Process, Opened(p), UNCHANGED gates,
           incidents' \in [Kind -> Nat], Clean(incidents'),
           opened => incidents' = incidents,
           \A i \in DOMAIN patterns' : Covered(patterns'[i], incidents')
    PROVE  CountInv'
<1>1. /\ proc' = [q \in Process |-> proc'[q]]
      /\ proc'[p] = Ready
      /\ \A q \in Process \ {p} : proc'[q] = proc[q]
      /\ opened' = TRUE
  BY DEF Opened, CountInv
<1>2. ASSUME NEW q \in Process
      PROVE  Fits(proc'[q], incidents', TRUE)
  <2>1. CASE q = p
    BY <1>1, <2>1, AbsentFits
  <2>2. CASE q # p
    <3>1. Fits(proc[q], incidents, opened)
      BY DEF CountInv
    <3>2. PICK counted \in SUBSET Hash :
              /\ proc[q] \in Doing(counted)
              /\ \A h \in counted : proc[q].found[h] <= incidents[Qualified(h)]
              /\ ~opened => counted = {}
      BY <3>1 DEF Fits
    <3>3. \A h \in counted : proc[q].found[h] <= incidents'[Qualified(h)]
      BY <3>2
    <3> QED BY <1>1, <2>2, <3>2, <3>3 DEF Fits
  <2> QED BY <2>1, <2>2
<1>3. gates' \in 0..MaxGates
  BY DEF CountInv
<1> QED BY <1>1, <1>2, <1>3 DEF CountInv

\* _migrate_legacy_pattern_hashes moves the incidents of the old version to the
\* hash of their actions, and changes nothing when there are none.
LEMMA Migrating ==
    ASSUME incidents \in [Kind -> Nat]
    PROVE  /\ Migrated \in [Kind -> Nat]
           /\ Clean(Migrated)
           /\ Clean(incidents) => Migrated = incidents
           /\ Migrated[Qualified(Broad)] = incidents[Qualified(Broad)]
           /\ \A a \in Actions :
                 Migrated[Qualified(a)] = incidents[Qualified(a)] + incidents[Legacy(a)]
<1>1. \A a \in Actions : /\ Recorded(a) = incidents[Qualified(a)] + incidents[Legacy(a)]
                         /\ incidents[Qualified(a)] \in Nat /\ incidents[Legacy(a)] \in Nat
  BY CleanCounts, Kinds
<1>2. PICK f : f = Migrated
  OBVIOUS
<1>3. f = [k \in Kind |-> IF k.actions \notin Actions THEN incidents[k]
                          ELSE IF k.hash = Broad THEN 0 ELSE Recorded(k.actions)]
  BY <1>2 DEF Migrated
<1>4. f[Qualified(Broad)] = incidents[Qualified(Broad)]
  BY <1>3, Kinds
<1>5. \A a \in Actions : /\ f[Qualified(a)] = incidents[Qualified(a)] + incidents[Legacy(a)]
                         /\ f[Legacy(a)] = 0
  <2> TAKE a \in Actions
  <2>1. Qualified(a) \in Kind /\ Qualified(a).actions = a /\ Qualified(a).hash = a /\ a # Broad
    BY Kinds
  <2>2. Legacy(a) \in Kind /\ Legacy(a).actions = a /\ Legacy(a).hash = Broad
    BY Kinds
  <2> QED BY <1>1, <1>3, <2>1, <2>2
<1>6. ASSUME NEW k \in Kind
      PROVE  f[k] \in Nat /\ (Clean(incidents) => f[k] = incidents[k])
  <2>1. incidents[k] \in Nat
    OBVIOUS
  <2>2. \/ k = Qualified(k.hash) /\ k.hash \in Hash
        \/ k.actions \in Actions /\ k = Legacy(k.actions)
    BY Kinds
  <2>3. CASE k.actions \in Actions /\ k = Legacy(k.actions)
    BY <1>5, <2>3 DEF Clean
  <2>4. CASE k = Qualified(k.hash) /\ k.hash \in Actions
    <3>1. f[k] = incidents[k] + incidents[Legacy(k.hash)]
      BY <1>5, <2>4
    <3> QED BY <1>1, <2>1, <2>4, <3>1 DEF Clean
  <2>5. CASE k = Qualified(k.hash) /\ k.hash = Broad
    BY <1>4, <2>1, <2>5
  <2> QED BY <2>2, <2>3, <2>4, <2>5 DEF Hash
<1>7. f = [k \in Kind |-> f[k]]
  BY <1>3
<1>8. f \in [Kind -> Nat]
  BY <1>6, <1>7
<1>9. Clean(f)
  BY <1>5 DEF Clean
<1>10. Clean(incidents) => f = incidents
  BY <1>6, <1>7
<1> QED BY <1>2, <1>4, <1>5, <1>8, <1>9, <1>10

\* With nothing left to migrate, every row is witnessed, whether or not a start
\* has completed.
LEMMA CleanIsCovered ==
    ASSUME IInv, CountInv, Clean(incidents)
    PROVE  \A i \in DOMAIN patterns : Covered(patterns[i], incidents)
<1>1. CASE opened
  BY <1>1 DEF CountInv
<1>2. CASE ~opened
  <2>1. Count(Broad) = incidents[Qualified(Broad)]
    BY CleanCounts, Kinds DEF CountInv
  <2>2. \A i \in DOMAIN patterns : patterns[i].hash = Broad
    BY <1>2 DEF IInv, StartInv
  <2> QED BY <1>2, <2>1, <2>2 DEF CountInv, Covered
<1> QED BY <1>1, <1>2

LEMMA MigrateCounts ==
    ASSUME IInv, CountInv, NEW p \in Process, Migrate(p) PROVE CountInv'
<1>1. incidents' = Migrated /\ Opened(p) /\ UNCHANGED gates
  BY DEF Migrate
<1>2. /\ Migrated \in [Kind -> Nat] /\ Clean(Migrated)
      /\ Clean(incidents) => Migrated = incidents
      /\ \A a \in Actions : Migrated[Qualified(a)] = incidents[Qualified(a)] + incidents[Legacy(a)]
  BY Migrating DEF CountInv
<1>3. opened => Migrated = incidents
  BY <1>2 DEF CountInv
<1>4. CASE RowsOf(patterns, Broad) = {}
  <2>1. UNCHANGED patterns
    BY <1>4 DEF Migrate
  <2>2. \A i \in DOMAIN patterns : Covered(patterns[i], Migrated)
    <3>1. CASE opened
      BY <1>3, <3>1 DEF CountInv
    <3>2. CASE ~opened
      <4>1. DOMAIN patterns = {}
        BY <1>4, <3>2 DEF IInv, StartInv, RowsOf
      <4> QED BY <4>1
    <3> QED BY <3>1, <3>2
  <2> QED BY <1>1, <1>2, <1>3, <2>1, <2>2, OpeningCounts
<1>5. CASE RowsOf(patterns, Broad) # {}
  <2>1. PICK i \in RowsOf(patterns, Broad) : Split(i, Migrated)
    BY <1>5 DEF Migrate
  <2>2. i \in DOMAIN patterns /\ patterns[i].hash = Broad
    BY DEF RowsOf
  <2>3. \A j \in DOMAIN patterns \ {i} : Covered(patterns[j], Migrated)
    <3>1. CASE opened
      BY <1>3, <3>1 DEF CountInv
    <3>2. CASE ~opened
      BY <2>2, <3>2 DEF IInv, StartInv
    <3> QED BY <3>1, <3>2
  <2>4. \/ Covered(patterns[i], Migrated)
        \/ \E a \in Actions : Migrated[Qualified(a)] > 0
    <3> SUFFICES ASSUME ~ \E a \in Actions : Migrated[Qualified(a)] > 0
                 PROVE  Covered(patterns[i], Migrated)
      OBVIOUS
    <3>1. \A a \in Actions : incidents[Qualified(a)] \in Nat /\ incidents[Legacy(a)] \in Nat
      BY Kinds DEF CountInv
    <3>2. Clean(incidents)
      <4> SUFFICES ASSUME NEW a \in Actions PROVE incidents[Legacy(a)] = 0
        BY DEF Clean
      <4>1. ~(incidents[Qualified(a)] + incidents[Legacy(a)] > 0)
        BY <1>2
      <4> QED BY <3>1, <4>1
    <3> QED BY <1>2, <2>2, <3>2, CleanIsCovered
  <2>5. RowsInv
    BY DEF IInv
  <2>6. \A j \in DOMAIN patterns' : Covered(patterns'[j], Migrated)
    BY <1>2, <2>1, <2>2, <2>3, <2>4, <2>5, SplitCovers
  <2> QED BY <1>1, <1>2, <1>3, <2>6, OpeningCounts
<1> QED BY <1>4, <1>5

LEMMA ReadPatternsCounts ==
    ASSUME IInv, CountInv, NEW p \in Process, ReadPatterns(p) PROVE CountInv'
<1>1. UNCHANGED <<incidents, patterns, gates>> /\ proc[p].pc = "look"
  BY DEF ReadPatterns
<1>2. Clean(incidents)
  BY <1>1 DEF CountInv, Fits
<1>3. CASE RowsOf(patterns, Broad) = {}
  <2>1. Opened(p)
    BY <1>3 DEF ReadPatterns
  <2>2. \A i \in DOMAIN patterns : Covered(patterns[i], incidents)
    BY <1>2, CleanIsCovered
  <2>3. incidents' \in [Kind -> Nat] /\ Clean(incidents')
    BY <1>1, <1>2 DEF CountInv
  <2> QED BY <1>1, <2>1, <2>2, <2>3, OpeningCounts
<1>4. CASE RowsOf(patterns, Broad) # {}
  <2>0. IsProc(proc[p])
    BY ProcessIsRecord
  <2>1. PICK i \in RowsOf(patterns, Broad) :
          proc' = [proc EXCEPT ![p].pc = "split", ![p].legacy = i]
    BY <1>4 DEF ReadPatterns
  <2>2. PICK y : y = [proc[p] EXCEPT !.pc = "split", !.legacy = i]
    OBVIOUS
  <2>3. y = [pc |-> "split", legacy |-> i, found |-> proc[p].found,
             todo |-> proc[p].todo, exists |-> proc[p].exists]
    BY <2>0, <2>2 DEF IsProc
  <2>4. proc' = [proc EXCEPT ![p] = y]
    <3>1. proc = [q \in Process |-> proc[q]]
      BY DEF CountInv
    <3>2. /\ proc' = [q \in Process |-> proc'[q]]
          /\ proc'[p] = y
          /\ \A q \in Process \ {p} : proc'[q] = proc[q]
      BY <2>1, <2>2, <3>1
    <3> QED BY <3>1, <3>2
  <2>5. i \in Nat
    BY DEF RowsOf, IInv, RowsInv, IsRows
  <2>6. "split" \in Step
    BY DEF Step, Starting
  <2>7. UNCHANGED opened /\ gates' \in 0..MaxGates
    BY <1>1, <1>4 DEF ReadPatterns, CountInv
  <2> QED BY <1>1, <1>2, <2>3, <2>4, <2>5, <2>6, <2>7, ProcessIsRecord, StepCounts
<1> QED BY <1>3, <1>4

LEMMA SplitReadCounts ==
    ASSUME IInv, CountInv, NEW p \in Process, SplitRead(p) PROVE CountInv'
<1>1. /\ proc[p].pc = "split" /\ Split(proc[p].legacy, incidents) /\ Opened(p)
      /\ UNCHANGED <<incidents, gates>>
  BY DEF SplitRead
<1>2. incidents \in [Kind -> Nat] /\ Clean(incidents) /\ RowsInv
  BY <1>1 DEF CountInv, Fits, IInv
<1>3. \A i \in DOMAIN patterns : Covered(patterns[i], incidents)
  BY <1>2, CleanIsCovered
<1>4. \A i \in DOMAIN patterns' : Covered(patterns'[i], incidents)
  BY <1>1, <1>2, <1>3, SplitCovers
<1>5. incidents' = incidents /\ incidents' \in [Kind -> Nat] /\ Clean(incidents')
  BY <1>1, <1>2
<1> QED BY <1>1, <1>4, <1>5, OpeningCounts

\* The count that is written was witnessed when it was read, and still is.
LEMMA WritePatternCounts ==
    ASSUME IInv, CountInv, NEW p \in Process, NEW h \in Hash, WritePattern(p, h) PROVE CountInv'
<1>0. IsProc(proc[p])
  BY ProcessIsRecord
<1>1. /\ proc[p].pc = h
      /\ UNCHANGED <<incidents, gates, opened>>
  BY DEF WritePattern
<1>2. opened
  BY <1>1, StepAssumption, Opened_Or_Starting DEF Step
<1>3. PICK counted \in SUBSET Hash :
          /\ proc[p] \in Doing(counted)
          /\ \A g \in counted : proc[p].found[g] <= incidents[Qualified(g)]
  BY DEF CountInv, Fits
<1>4. /\ h \in counted /\ proc[p].found[h] \in Nat
      /\ proc[p].found[h] <= incidents[Qualified(h)]
  <2>1. h \notin Step
    BY StepAssumption
  <2>2. h \in counted /\ proc[p].found \in [counted -> Nat]
    BY <1>1, <1>3, <2>1 DEF Doing
  <2> QED BY <1>3, <2>2
<1>5. PICK n \in Nat : n = proc[p].found[h] /\ n <= incidents[Qualified(h)]
  BY <1>4
<1>6. \A i \in DOMAIN patterns : Covered(patterns[i], incidents)
  BY <1>2 DEF CountInv
<1>7. Covered(Row(h, n, "pending"), incidents) /\ IsRow(Row(h, n, "pending"))
  BY <1>5 DEF Covered, Row, IsRow, Status
<1>8. IsRows(patterns)
  BY DEF IInv, RowsInv
<1>9. \A i \in DOMAIN patterns' : Covered(patterns'[i], incidents)
  <2>1. CASE proc[p].exists
    <3>1. patterns' = [i \in DOMAIN patterns |->
                         IF patterns[i].hash # h THEN patterns[i]
                         ELSE [patterns[i] EXCEPT !.count = n]]
      BY <1>5, <2>1 DEF WritePattern
    <3> SUFFICES ASSUME NEW i \in DOMAIN patterns PROVE Covered(patterns'[i], incidents)
      BY <3>1
    <3>2. CASE patterns[i].hash # h
      BY <1>6, <3>1, <3>2
    <3>3. CASE patterns[i].hash = h
      <4>1. patterns'[i] = [patterns[i] EXCEPT !.count = n]
        BY <3>1, <3>3
      <4>2. IsRow(patterns[i])
        BY <1>8 DEF IsRows
      <4>3. patterns'[i] = [hash |-> h, count |-> n, status |-> patterns[i].status]
        BY <3>3, <4>1, <4>2 DEF IsRow
      <4> QED BY <1>5, <4>3 DEF Covered
    <3> QED BY <3>2, <3>3
  <2>2. CASE ~proc[p].exists
    <3>1. PICK new : new = <<Row(h, n, "pending")>>
      OBVIOUS
    <3>2. patterns' = Insert(patterns, new)
      BY <1>5, <2>2, <3>1 DEF WritePattern
    <3>3. PICK one \in Nat : one = 1
      OBVIOUS
    <3>4. DOMAIN new = 1..one /\ Len(new) = one /\ \A k \in 1..one : new[k] = Row(h, n, "pending")
      BY <3>1, <3>3
    <3>5. \A k \in 1..one : IsRow(new[k]) /\ Covered(new[k], incidents)
      BY <1>7, <3>4
    <3>6. Extended(patterns, Insert(patterns, new), new, one)
      BY <1>8, <3>4, <3>5, InsertAddsRows
    <3> QED BY <1>6, <3>2, <3>5, <3>6 DEF Extended
  <2> QED BY <2>1, <2>2
<1>10. PICK y : y = [proc[p] EXCEPT !.pc = "find", !.todo = @ \ {h}] /\ proc' = [proc EXCEPT ![p] = y]
  BY DEF WritePattern
<1>11. y = [pc |-> "find", legacy |-> proc[p].legacy, found |-> proc[p].found,
            todo |-> proc[p].todo \ {h}, exists |-> proc[p].exists]
  BY <1>0, <1>10 DEF IsProc
<1>12. "find" \in Step
  BY DEF Step
<1>13. Fits(y, incidents, opened)
  <2>1. Fits(proc[p], incidents, opened)
    BY DEF CountInv
  <2>2. /\ y.pc = "find" /\ y.legacy = proc[p].legacy /\ y.todo = proc[p].todo \ {h}
        /\ y.exists = proc[p].exists
        /\ y = [pc |-> y.pc, legacy |-> y.legacy, found |-> proc[p].found, todo |-> y.todo,
                exists |-> y.exists]
    BY <1>11
  <2> QED BY <1>12, <2>1, <2>2, ProcessIsRecord, StepFits
<1>14. /\ proc' = [q \in Process |-> proc'[q]]
       /\ \A q \in Process : Fits(proc'[q], incidents, opened)
  BY <1>10, <1>13 DEF CountInv
<1> QED BY <1>1, <1>2, <1>9, <1>14 DEF CountInv

\* A change of status leaves what the rows claim.
LEMMA StatusCounts ==
    ASSUME IInv, CountInv, opened, NEW i \in DOMAIN patterns, NEW s,
           patterns' = [patterns EXCEPT ![i].status = s],
           UNCHANGED <<incidents, gates, opened>>,
           proc' = [q \in Process |-> proc'[q]],
           \A q \in Process : Fits(proc'[q], incidents, opened)
    PROVE  CountInv'
<1>1. \A j \in DOMAIN patterns : Covered(patterns[j], incidents)
  BY DEF CountInv
<1>2. /\ patterns = [j \in DOMAIN patterns |-> patterns[j]]
      /\ IsRow(patterns[i])
  BY DEF IInv, RowsInv, IsRows
<1>3. /\ DOMAIN patterns' = DOMAIN patterns
      /\ patterns'[i] = [patterns[i] EXCEPT !.status = s]
      /\ \A j \in DOMAIN patterns \ {i} : patterns'[j] = patterns[j]
  BY <1>2
<1>4. patterns'[i] = [hash |-> patterns[i].hash, count |-> patterns[i].count, status |-> s]
  BY <1>2, <1>3 DEF IsRow
<1>5. \A j \in DOMAIN patterns' : Covered(patterns'[j], incidents)
  BY <1>1, <1>3, <1>4 DEF Covered
<1> QED BY <1>5 DEF CountInv

LEMMA SaveEvolvedRuleCounts ==
    ASSUME IInv, CountInv, NEW p \in Process, NEW h \in Actions,
           NEW s \in {"pr-ready", "disabled"}, SaveEvolvedRule(p, h, s)
    PROVE  CountInv'
<1>0. IsProc(proc[p])
  BY ProcessIsRecord
<1>1. opened
  BY Opened_Or_Starting DEF SaveEvolvedRule, Starting
<1>2. PICK y : y = [proc[p] EXCEPT !.todo = @ \ {h}] /\ proc' = [proc EXCEPT ![p] = y]
  BY DEF SaveEvolvedRule
<1>3. y = [pc |-> proc[p].pc, legacy |-> proc[p].legacy, found |-> proc[p].found,
           todo |-> proc[p].todo \ {h}, exists |-> proc[p].exists]
  BY <1>0, <1>2 DEF IsProc
<1>4. UNCHANGED <<incidents, gates, opened>>
  BY DEF SaveEvolvedRule
<1>5. Fits(y, incidents, opened)
  <2>1. Fits(proc[p], incidents, opened)
    BY DEF CountInv
  <2>2. /\ y.pc = proc[p].pc /\ y.legacy = proc[p].legacy /\ y.todo = proc[p].todo \ {h}
        /\ y.exists = proc[p].exists
        /\ y = [pc |-> y.pc, legacy |-> y.legacy, found |-> proc[p].found, todo |-> y.todo,
                exists |-> y.exists]
    BY <1>3
  <2>3. y.pc \in {"look", "split"} => Clean(incidents)
    BY <2>1, <2>2 DEF Fits
  <2> QED BY <2>1, <2>2, <2>3, ProcessIsRecord, StepFits
<1>6. CASE RowsOf(patterns, h) = {}
  <2>1. UNCHANGED patterns
    BY <1>6 DEF SaveEvolvedRule
  <2>2. gates' \in 0..MaxGates
    BY <1>4 DEF CountInv
  <2> QED BY <1>2, <1>4, <1>5, <2>1, <2>2, OneProcessMoves
<1>7. CASE RowsOf(patterns, h) # {}
  <2>1. PICK i \in RowsOf(patterns, h) : patterns' = [patterns EXCEPT ![i].status = s]
    BY <1>7 DEF SaveEvolvedRule
  <2>2. i \in DOMAIN patterns
    BY DEF RowsOf
  <2>3. /\ proc' = [q \in Process |-> proc'[q]]
        /\ \A q \in Process : Fits(proc'[q], incidents, opened)
    BY <1>2, <1>5 DEF CountInv
  <2> QED BY <1>1, <1>4, <2>1, <2>2, <2>3, StatusCounts
<1> QED BY <1>6, <1>7

LEMMA ApproveRuleCounts ==
    ASSUME IInv, CountInv, NEW h \in Hash, ApproveRule(h) PROVE CountInv'
<1>1. PICK i \in RowsOf(patterns, h) :
        /\ h # Broad
        /\ patterns' = [patterns EXCEPT ![i].status = "approved"]
        /\ UNCHANGED <<incidents, proc, gates, opened>>
  BY DEF ApproveRule
<1>2. i \in DOMAIN patterns /\ patterns[i].hash = h
  BY DEF RowsOf
<1>3. opened
  BY <1>1, <1>2 DEF IInv, StartInv
<1>4. /\ proc' = [q \in Process |-> proc'[q]]
      /\ \A q \in Process : Fits(proc'[q], incidents, opened)
  BY <1>1 DEF CountInv
<1> QED BY <1>1, <1>2, <1>3, <1>4, StatusCounts

LEMMA NextCounts == IInv /\ CountInv /\ [Next]_vars => CountInv'
<1> SUFFICES ASSUME IInv, CountInv, [Next]_vars PROVE CountInv'
  OBVIOUS
<1>1. ASSUME NEW p \in Process,
             ReadIncidents(p) \/ Migrate(p) \/ ReadPatterns(p) \/ SplitRead(p)
      PROVE  CountInv'
  BY <1>1, ReadIncidentsCounts, MigrateCounts, ReadPatternsCounts, SplitReadCounts
<1>2. ASSUME NEW p \in Process,
             \/ RecordRun(p) \/ RecordIncident(p) \/ CountIncidents(p)
             \/ AnalyzeWithAgents(p) \/ Finish(p) \/ Die(p)
      PROVE  CountInv'
  BY <1>2, RecordRunCounts, RecordIncidentCounts, CountIncidentsCounts,
     AnalyzeWithAgentsCounts, ForgettingCounts
<1>3. ASSUME NEW p \in Process, NEW h \in Hash,
             FindPattern(p, h) \/ WritePattern(p, h) \/ InsertFails(p, h)
      PROVE  CountInv'
  BY <1>3, FindPatternCounts, WritePatternCounts, ForgettingCounts
<1>4. ASSUME NEW p \in Process, NEW h \in Actions, NEW s \in {"pr-ready", "disabled"},
             SaveEvolvedRule(p, h, s)
      PROVE  CountInv'
  BY <1>4, SaveEvolvedRuleCounts
<1>5. ASSUME NEW h \in Hash, ApproveRule(h) PROVE CountInv'
  BY <1>5, ApproveRuleCounts
<1>6. CASE UNCHANGED vars
  <2>1. Count(Broad)' = Count(Broad)
    BY <1>6, CountIsSum, CountIsSumNext DEF CountsAreSums, vars
  <2> QED BY <1>6, <2>1 DEF CountInv, vars
<1> QED BY <1>1, <1>2, <1>3, <1>4, <1>5, <1>6 DEF Next

LEMMA CountInvariance == Spec => [](IInv /\ CountInv)
BY Init_IInv, Next_IInv, InitCountInv, NextCounts, PTL DEF Spec

-----------------------------------------------------------------------------
(* The theorems                                                            *)

\* What _migrate_legacy_pattern_hashes disables stays disabled: after the first
\* start no rule made for a hash without actions is proposed or approved,
\* however many processes start from rows they read before.
THEOREM QuarantineHolds == Spec => []LegacyQuarantined
BY Invariance, PTL DEF IInv

\* A proposed or approved rule names a pattern row that exists and has the hash
\* the rule was made for, although the migration renames and deletes rows and
\* SQLite gives the ids of deleted rows again.
THEOREM LiveRulesKeepTheirPattern == Spec => []LiveRuleHasItsPattern
BY Invariance, PTL DEF IInv

\* The type invariant: the rows of both tables keep the columns of the schema,
\* and a process writes only a count that it has read (analyze_incidents).
THEOREM TypesHold == Spec => []TypeOK
<1>1. IInv /\ CountInv => TypeOK
  <2> SUFFICES ASSUME IInv, CountInv PROVE TypeOK
    OBVIOUS
  <2>1. ASSUME NEW i \in DOMAIN patterns
        PROVE  i \in Nat \ {0} /\ patterns[i] \in [hash: Hash, count: Nat, status: Status]
    <3>1. i \in Nat \ {0} /\ IsRow(patterns[i])
      BY DEF IInv, RowsInv, IsRows
    <3>2. patterns[i].count \in Nat
      BY DEF CountInv, Covered
    <3> QED BY <3>1, <3>2 DEF IsRow
  <2>2. catalog \in Seq([pattern: Nat, code: Hash, status: Status])
    BY DEF IInv, RowsInv, Rule
  <2>3. \A p \in Process : \E counted \in SUBSET Hash : proc[p] \in Doing(counted)
    BY DEF CountInv, Fits
  <2> QED BY <2>1, <2>2, <2>3 DEF CountInv, TypeOK
<1> QED BY <1>1, CountInvariance, PTL

\* A pattern never claims more incidents than were recorded with its hash: for
\* any number of processes, whichever stale count is written last and however the
\* migration moves the incidents (analyze_incidents, _migrate_legacy_pattern_hashes).
THEOREM CountsAreWitnessed == Spec => []CountIsWitnessed
<1>1. IInv /\ CountInv => CountIsWitnessed
  <2> SUFFICES ASSUME IInv, CountInv, opened, NEW i \in DOMAIN patterns
               PROVE  patterns[i].count <= Count(patterns[i].hash)
    BY DEF CountIsWitnessed
  <2>1. incidents \in [Kind -> Nat] /\ Clean(incidents) /\ Covered(patterns[i], incidents)
    BY DEF CountInv
  <2>2. patterns[i].hash \in Hash
    BY DEF IInv, RowsInv, IsRows, IsRow
  <2>3. Count(patterns[i].hash) = incidents[Qualified(patterns[i].hash)]
    BY <2>1, <2>2, CleanCounts
  <2> QED BY <2>1, <2>3 DEF Covered
<1> QED BY <1>1, CountInvariance, PTL

-----------------------------------------------------------------------------
(***************************************************************************)
(* Handoffs                                                                *)
(***************************************************************************)
DispatchCall == [pc: {"idle", "scan", "json", "md", "unlink"}, todo: SUBSET File,
                 file: Candidate \union {None}, read: Handoff \union {None}]

\* Ids count the handoffs written.
WrittenInv ==
    /\ IsFiniteSet(written)
    /\ \A h \in written : h.id <= Cardinality(written)
    /\ \A h \in Handoff : reported[h] > 0 => h \in written

\* A rule's file holds a handoff of that rule.
OutboxInv == \A r \in Candidate : outbox[r] # None => outbox[r] \in written /\ outbox[r].rule = r

\* What a call is copying was written for the file it will delete, and has
\* been copied as far as the call has come.
CallInv(c) ==
    c.pc \in {"json", "md", "unlink"} =>
        /\ c.read \in written
        /\ c.file \in Candidate
        /\ c.read.rule = c.file
        /\ c.pc \in {"md", "unlink"} => c.read \in json
        /\ c.pc = "unlink" => c.read \in md

CallsInv == \A d \in Dispatcher : CallInv(disp[d])

\* The handoffs of h's rule that are not older than h.
Since(h, w) == {g \in w : g.rule = h.rule /\ g.id >= h.id}

\* A handoff was listed once for each file of its rule that was written since
\* and deleted again.
ListedInv ==
    \A h \in written :
        reported[h] + (IF outbox[h.rule] = None THEN 0 ELSE 1)
            <= Cardinality(Since(h, written))

HandoffsInv ==
    /\ HandoffsTypeOK
    /\ WrittenInv
    /\ OutboxInv
    /\ CallsInv
    /\ ListedInv
    /\ ListedIsDelivered
    /\ RuleIsHandedOff
    /\ PendingIsNotListed

LEMMA SinceFinite ==
    ASSUME NEW w, IsFiniteSet(w), NEW h
    PROVE  IsFiniteSet(Since(h, w)) /\ Cardinality(Since(h, w)) \in Nat
<1>1. Since(h, w) \subseteq w
  BY DEF Since
<1> QED BY <1>1, FS_Subset, FS_CardinalityType

-----------------------------------------------------------------------------
LEMMA HandoffsStart == HandoffsInit => HandoffsInv
<1> SUFFICES ASSUME HandoffsInit PROVE HandoffsInv
  OBVIOUS
<1> USE DEF HandoffsInit
<1>1. Idle \in DispatchCall
  BY DEF Idle, DispatchCall
<1>2. disp \in [Dispatcher -> DispatchCall]
  BY <1>1
<1>3. HandoffsTypeOK
  BY <1>2, BoundsAssumption DEF HandoffsTypeOK, DispatchCall
<1>4. WrittenInv
  BY FS_EmptySet DEF WrittenInv
<1>5. OutboxInv /\ ListedInv /\ RuleIsHandedOff /\ PendingIsNotListed
  BY DEF OutboxInv, ListedInv, RuleIsHandedOff, PendingIsNotListed
<1>6. CallsInv
  BY DEF CallsInv, CallInv, Idle
<1>7. ListedIsDelivered
  BY DEF ListedIsDelivered
<1> QED BY <1>3, <1>4, <1>5, <1>6, <1>7 DEF HandoffsInv

\* A gate run writes a handoff with a fresh id over the rule's file.
LEMMA WriteHandoff_Inv == ASSUME HandoffsInv, NEW r \in Candidate, WriteHandoff(r) PROVE HandoffsInv'
<1>1. PICK h \in Handoff :
        /\ h.rule = r
        /\ h.id = Cardinality(written) + 1
        /\ outbox' = [outbox EXCEPT ![r] = h]
        /\ written' = written \union {h}
  BY DEF WriteHandoff
<1>2. UNCHANGED <<json, md, disp, reported, faults>>
  BY DEF WriteHandoff
<1>3. IsFiniteSet(written) /\ Cardinality(written) \in Nat
  BY FS_CardinalityType DEF HandoffsInv, WrittenInv
<1>4. written \subseteq Handoff /\ outbox \in [Candidate -> Handoff \union {None}]
      /\ reported \in [Handoff -> Nat]
  BY DEF HandoffsInv, HandoffsTypeOK
<1>5. h \notin written /\ h # None
  BY <1>1, <1>3, NamesAssumption DEF HandoffsInv, WrittenInv
<1>6. IsFiniteSet(written') /\ Cardinality(written') = Cardinality(written) + 1
  BY <1>1, <1>3, <1>5, FS_AddElement
<1>7. /\ outbox' \in [Candidate -> Handoff \union {None}]
      /\ outbox'[r] = h
      /\ \A q \in Candidate : q # r => outbox'[q] = outbox[q]
  BY <1>1, <1>4
<1>8. reported[h] = 0
  BY <1>4, <1>5 DEF HandoffsInv, WrittenInv
<1>9. HandoffsTypeOK'
  BY <1>1, <1>2, <1>4, <1>7 DEF HandoffsInv, HandoffsTypeOK
<1>10. WrittenInv'
  <2>1. \A g \in Handoff : g.id \in Nat
    BY BoundsAssumption DEF Handoff
  <2>2. \A g \in written' : g.id <= Cardinality(written')
    BY <1>1, <1>3, <1>4, <1>6, <2>1 DEF HandoffsInv, WrittenInv
  <2> QED BY <1>1, <1>2, <1>6, <2>2 DEF HandoffsInv, WrittenInv
<1>11. OutboxInv'
  BY <1>1, <1>7 DEF HandoffsInv, OutboxInv
<1>12. CallsInv'
  BY <1>1, <1>2 DEF HandoffsInv, CallsInv, CallInv
<1>13. ListedInv'
  <2> SUFFICES ASSUME NEW g \in written'
               PROVE  reported[g] + (IF outbox'[g.rule] = None THEN 0 ELSE 1)
                        <= Cardinality(Since(g, written'))
    BY <1>2 DEF ListedInv
  <2>1. g \in Handoff /\ g.rule \in Candidate /\ reported[g] \in Nat /\ g.id \in Nat
    <3>1. g \in Handoff
      BY <1>1, <1>4
    <3>2. g.rule \in Candidate /\ g.id \in 1..MaxWrites
      BY <3>1 DEF Handoff
    <3> QED BY <3>1, <3>2, <1>4, BoundsAssumption
  <2>2. h.id \in Nat /\ h.id >= g.id
    BY <1>1, <1>3, <1>4, <2>1 DEF HandoffsInv, WrittenInv
  <2>3. CASE g.rule = r
    <3>1. Since(g, written') = Since(g, written) \union {h} /\ h \notin Since(g, written)
      BY <1>1, <1>5, <2>2, <2>3 DEF Since
    <3>2. /\ IsFiniteSet(Since(g, written)) /\ Cardinality(Since(g, written)) \in Nat
          /\ Cardinality(Since(g, written')) = Cardinality(Since(g, written)) + 1
      BY <1>3, <3>1, SinceFinite, FS_AddElement
    <3>3. reported[g] <= Cardinality(Since(g, written))
      <4>1. CASE g = h
        BY <4>1, <1>8, <3>2
      <4>2. CASE g \in written
        BY <4>2, <2>1, <3>2 DEF HandoffsInv, ListedInv
      <4> QED BY <4>1, <4>2, <1>1
    <3> QED BY <1>5, <1>7, <2>1, <2>3, <3>2, <3>3
  <2>4. CASE g.rule # r
    <3>1. g \in written
      BY <1>1, <2>4
    <3>2. Since(g, written') = Since(g, written)
      BY <1>1, <2>4 DEF Since
    <3> QED BY <1>7, <2>1, <2>4, <3>1, <3>2 DEF HandoffsInv, ListedInv
  <2> QED BY <2>3, <2>4
<1>14. ListedIsDelivered'
  BY <1>2 DEF HandoffsInv, ListedIsDelivered, Delivered
<1>15. RuleIsHandedOff'
  BY <1>1, <1>2, <1>5, <1>7 DEF HandoffsInv, RuleIsHandedOff, Delivered
<1>16. PendingIsNotListed'
  BY <1>2, <1>7, <1>8 DEF HandoffsInv, PendingIsNotListed
<1> QED BY <1>9, <1>10, <1>11, <1>12, <1>13, <1>14, <1>15, <1>16 DEF HandoffsInv

\* A call moves on without touching the outbox or the lists.
LEMMA CallMoves_Inv ==
    ASSUME HandoffsInv, NEW d \in Dispatcher, NEW c \in DispatchCall,
           disp' = [disp EXCEPT ![d] = c],
           json' \subseteq written, md' \subseteq written,
           json \subseteq json', md \subseteq md', md' \subseteq json',
           faults' \in 0..MaxFaults,
           CallInv(c)', UNCHANGED <<outbox, written, reported>>
    PROVE  HandoffsInv'
<1>1. disp \in [Dispatcher -> DispatchCall]
  BY DEF HandoffsInv, HandoffsTypeOK, DispatchCall
<1>2. /\ disp' \in [Dispatcher -> DispatchCall]
      /\ disp'[d] = c
      /\ \A e \in Dispatcher : e # d => disp'[e] = disp[e]
  BY <1>1
<1>3. HandoffsTypeOK'
  BY <1>2 DEF HandoffsInv, HandoffsTypeOK, DispatchCall
<1>4. WrittenInv' /\ OutboxInv' /\ ListedInv' /\ PendingIsNotListed'
  BY DEF HandoffsInv, WrittenInv, OutboxInv, ListedInv, PendingIsNotListed
<1>5. CallsInv'
  BY <1>2 DEF HandoffsInv, CallsInv, CallInv
<1>6. ListedIsDelivered' /\ RuleIsHandedOff'
  BY DEF HandoffsInv, ListedIsDelivered, RuleIsHandedOff, Delivered
<1> QED BY <1>3, <1>4, <1>5, <1>6 DEF HandoffsInv

\* Deleting the file that was copied, whatever it holds by now.
LEMMA Unlink_Inv == ASSUME HandoffsInv, NEW d \in Dispatcher, Unlink(d) PROVE HandoffsInv'
<1> DEFINE h == disp[d].read
           r == disp[d].file
           c == [disp[d] EXCEPT !.pc = "scan", !.file = None, !.read = None]
<1>1. /\ r \in Candidate /\ h \in written /\ h.rule = r
      /\ h \in json /\ h \in md
  BY DEF Unlink, HandoffsInv, CallsInv, CallInv
<1>2. /\ disp \in [Dispatcher -> DispatchCall]
      /\ outbox \in [Candidate -> Handoff \union {None}]
      /\ reported \in [Handoff -> Nat]
      /\ written \subseteq Handoff
  BY DEF HandoffsInv, HandoffsTypeOK, DispatchCall
<1>3. disp[d] \in DispatchCall /\ c \in DispatchCall /\ c.pc = "scan"
  BY <1>2 DEF DispatchCall
<1>4. disp' = [disp EXCEPT ![d] = c]
  BY <1>2 DEF Unlink, NextFile, DispatchCall
<1>5. /\ disp' \in [Dispatcher -> DispatchCall]
      /\ disp'[d] = c
      /\ \A e \in Dispatcher : e # d => disp'[e] = disp[e]
  BY <1>2, <1>3, <1>4
<1>6. outbox' = [outbox EXCEPT ![r] = None] /\ UNCHANGED <<json, md, written, faults>>
  BY DEF Unlink
<1>7. /\ outbox' \in [Candidate -> Handoff \union {None}]
      /\ outbox'[r] = None
      /\ \A q \in Candidate : q # r => outbox'[q] = outbox[q]
  BY <1>1, <1>2, <1>6
<1>8. reported' = IF outbox[r] # None THEN [reported EXCEPT ![h] = reported[h] + 1]
                                      ELSE reported
  BY <1>1, <1>2 DEF Unlink
<1>9. /\ reported' \in [Handoff -> Nat]
      /\ reported'[h] = reported[h] + (IF outbox[r] # None THEN 1 ELSE 0)
      /\ \A g \in Handoff : g # h => reported'[g] = reported[g]
  BY <1>1, <1>2, <1>8
<1> HIDE DEF h, r, c
<1>10. HandoffsTypeOK'
  BY <1>5, <1>6, <1>7, <1>9 DEF HandoffsInv, HandoffsTypeOK, DispatchCall
<1>11. WrittenInv'
  <2>1. \A g \in Handoff : reported'[g] > 0 => g \in written
    BY <1>1, <1>2, <1>9 DEF HandoffsInv, WrittenInv
  <2> QED BY <1>6, <2>1 DEF HandoffsInv, WrittenInv
<1>12. OutboxInv'
  BY <1>6, <1>7 DEF HandoffsInv, OutboxInv
<1>13. CallsInv'
  BY <1>3, <1>5, <1>6 DEF HandoffsInv, CallsInv, CallInv
<1>14. ListedInv'
  <2> SUFFICES ASSUME NEW g \in written
               PROVE  reported'[g] + (IF outbox'[g.rule] = None THEN 0 ELSE 1)
                        <= Cardinality(Since(g, written))
    BY <1>6 DEF ListedInv
  <2>1. /\ g \in Handoff /\ g.rule \in Candidate /\ reported[g] \in Nat
        /\ Cardinality(Since(g, written)) \in Nat
    BY <1>2, SinceFinite DEF Handoff, HandoffsInv, WrittenInv
  <2>2. reported[g] + (IF outbox[g.rule] = None THEN 0 ELSE 1)
           <= Cardinality(Since(g, written))
    BY DEF HandoffsInv, ListedInv
  <2>3. CASE g = h
    BY <2>1, <2>2, <2>3, <1>1, <1>7, <1>9
  <2>4. CASE g # h
    BY <2>1, <2>2, <2>4, <1>7, <1>9
  <2> QED BY <2>3, <2>4
<1>15. ListedIsDelivered'
  BY <1>1, <1>6, <1>9 DEF HandoffsInv, ListedIsDelivered, Delivered
<1>16. RuleIsHandedOff'
  <2>1. h \in Delivered
    BY <1>1 DEF Delivered
  <2>2. ASSUME NEW g \in written
        PROVE  outbox'[g.rule] # None \/ \E x \in Delivered : x.rule = g.rule
    <3>1. CASE g.rule = r
      BY <3>1, <2>1, <1>1
    <3>2. CASE g.rule # r
      BY <3>2, <1>2, <1>7 DEF HandoffsInv, RuleIsHandedOff, Handoff
    <3> QED BY <3>1, <3>2
  <2> QED BY <1>6, <2>2 DEF RuleIsHandedOff, Delivered
<1>17. PendingIsNotListed'
  <2> SUFFICES ASSUME NEW q \in Candidate, outbox'[q] # None
               PROVE  reported'[outbox'[q]] = 0
    BY DEF PendingIsNotListed
  <2>1. q # r /\ outbox'[q] = outbox[q]
    BY <1>7
  <2>2. outbox[q] \in Handoff /\ outbox[q].rule = q /\ reported[outbox[q]] = 0
    BY <2>1, <1>2 DEF HandoffsInv, OutboxInv, PendingIsNotListed
  <2> QED BY <2>1, <2>2, <1>1, <1>9
<1> QED BY <1>10, <1>11, <1>12, <1>13, <1>14, <1>15, <1>16, <1>17 DEF HandoffsInv

-----------------------------------------------------------------------------
LEMMA Dispatch_Inv ==
    ASSUME HandoffsInv, NEW d \in Dispatcher,
           \/ Start(d) \/ Read(d) \/ WriteJson(d) \/ WriteMd(d)
           \/ OperationFails(d) \/ FinishDispatch(d) \/ DispatcherDies(d)
    PROVE  HandoffsInv'
<1>1. disp \in [Dispatcher -> DispatchCall] /\ disp[d] \in DispatchCall
  BY DEF HandoffsInv, HandoffsTypeOK, DispatchCall
<1>2. /\ json \subseteq written /\ md \subseteq written /\ md \subseteq json
      /\ faults \in 0..MaxFaults /\ CallInv(disp[d])
  BY DEF HandoffsInv, HandoffsTypeOK, ListedIsDelivered, CallsInv
<1>3. CASE Start(d)
  <2>1. PICK c : c = [disp[d] EXCEPT !.pc = "scan",
                                     !.todo = {r \in Candidate : outbox[r] # None} \union Junk]
    OBVIOUS
  <2>2. c \in DispatchCall /\ c.pc = "scan"
    BY <1>1, <2>1 DEF DispatchCall, File
  <2>3. disp' = [disp EXCEPT ![d] = c]
    BY <1>1, <1>3, <2>1 DEF Start, DispatchCall
  <2>4. CallInv(c)'
    BY <2>2 DEF CallInv
  <2> QED BY <1>2, <1>3, <2>2, <2>3, <2>4, CallMoves_Inv DEF Start
<1>4. CASE Read(d)
  <2>1. PICK f \in disp[d].todo :
          disp' = IF f \in Candidate /\ outbox[f] # None
                  THEN [disp EXCEPT ![d].pc = "json", ![d].todo = @ \ {f},
                                    ![d].file = f, ![d].read = outbox[f]]
                  ELSE [disp EXCEPT ![d].todo = @ \ {f}]
    BY <1>4 DEF Read
  <2>2. UNCHANGED <<outbox, json, md, written, reported, faults>> /\ disp[d].pc = "scan"
    BY <1>4 DEF Read
  <2>3. CASE f \in Candidate /\ outbox[f] # None
    <3>1. outbox[f] \in written /\ outbox[f].rule = f /\ outbox[f] \in Handoff
      BY <2>3 DEF HandoffsInv, OutboxInv, HandoffsTypeOK
    <3>2. PICK c : c = [disp[d] EXCEPT !.pc = "json", !.todo = @ \ {f},
                                       !.file = f, !.read = outbox[f]]
      OBVIOUS
    <3>3. c \in DispatchCall /\ c.pc = "json" /\ c.file = f /\ c.read = outbox[f]
      BY <1>1, <2>3, <3>1, <3>2 DEF DispatchCall
    <3>4. disp' = [disp EXCEPT ![d] = c]
      BY <1>1, <2>1, <2>3, <3>2 DEF DispatchCall
    <3>5. CallInv(c)'
      BY <2>2, <2>3, <3>1, <3>3 DEF CallInv
    <3> QED BY <1>2, <2>2, <3>3, <3>4, <3>5, CallMoves_Inv
  <2>4. CASE ~(f \in Candidate /\ outbox[f] # None)
    <3>1. PICK c : c = [disp[d] EXCEPT !.todo = @ \ {f}]
      OBVIOUS
    <3>2. c \in DispatchCall /\ c.pc = "scan"
      BY <1>1, <2>2, <3>1 DEF DispatchCall
    <3>3. disp' = [disp EXCEPT ![d] = c]
      BY <1>1, <2>1, <2>4, <3>1 DEF DispatchCall
    <3>4. CallInv(c)'
      BY <3>2 DEF CallInv
    <3> QED BY <1>2, <2>2, <3>2, <3>3, <3>4, CallMoves_Inv
  <2> QED BY <2>3, <2>4
<1>5. CASE WriteJson(d)
  <2>1. PICK c : c = [disp[d] EXCEPT !.pc = "md"]
    OBVIOUS
  <2>2. /\ c \in DispatchCall /\ c.pc = "md" /\ disp[d].pc = "json"
        /\ c.file = disp[d].file /\ c.read = disp[d].read
    BY <1>1, <1>5, <2>1 DEF DispatchCall, WriteJson
  <2>3. disp' = [disp EXCEPT ![d] = c] /\ json' = json \union {c.read}
        /\ UNCHANGED <<outbox, md, written, reported, faults>>
    BY <1>1, <1>5, <2>1, <2>2 DEF DispatchCall, WriteJson
  <2>4. CallInv(c)' /\ c.read \in written
    BY <1>2, <2>2, <2>3 DEF CallInv
  <2> QED BY <1>2, <2>2, <2>3, <2>4, CallMoves_Inv
<1>6. CASE WriteMd(d)
  <2>1. PICK c : c = [disp[d] EXCEPT !.pc = "unlink"]
    OBVIOUS
  <2>2. /\ c \in DispatchCall /\ c.pc = "unlink" /\ disp[d].pc = "md"
        /\ c.file = disp[d].file /\ c.read = disp[d].read
    BY <1>1, <1>6, <2>1 DEF DispatchCall, WriteMd
  <2>3. disp' = [disp EXCEPT ![d] = c] /\ md' = md \union {c.read}
        /\ UNCHANGED <<outbox, json, written, reported, faults>>
    BY <1>1, <1>6, <2>1, <2>2 DEF DispatchCall, WriteMd
  <2>4. CallInv(c)' /\ c.read \in written /\ c.read \in json
    BY <1>2, <2>2, <2>3 DEF CallInv
  <2> QED BY <1>2, <2>2, <2>3, <2>4, CallMoves_Inv
<1>7. CASE OperationFails(d)
  <2>1. PICK c : c = [disp[d] EXCEPT !.pc = "scan", !.file = None, !.read = None]
    OBVIOUS
  <2>2. c \in DispatchCall /\ c.pc = "scan"
    BY <1>1, <2>1 DEF DispatchCall
  <2>3. disp' = [disp EXCEPT ![d] = c]
    BY <1>1, <1>7, <2>1 DEF DispatchCall, OperationFails, NextFile
  <2>4. faults' \in 0..MaxFaults
    BY <1>2, <1>7, BoundsAssumption DEF OperationFails
  <2>5. CallInv(c)'
    BY <2>2 DEF CallInv
  <2> QED BY <1>2, <1>7, <2>2, <2>3, <2>4, <2>5, CallMoves_Inv DEF OperationFails
<1>8. CASE FinishDispatch(d)
  <2>1. Idle \in DispatchCall /\ CallInv(Idle)'
    BY DEF Idle, DispatchCall, CallInv
  <2> QED BY <1>2, <1>8, <2>1, CallMoves_Inv DEF FinishDispatch
<1>9. CASE DispatcherDies(d)
  <2>1. Idle \in DispatchCall /\ CallInv(Idle)'
    BY DEF Idle, DispatchCall, CallInv
  <2>2. faults' \in 0..MaxFaults
    BY <1>2, <1>9, BoundsAssumption DEF DispatcherDies
  <2> QED BY <1>2, <1>9, <2>1, <2>2, CallMoves_Inv DEF DispatcherDies
<1> QED BY <1>3, <1>4, <1>5, <1>6, <1>7, <1>8, <1>9

LEMMA HandoffsStep == HandoffsInv /\ [HandoffsNext]_handoffVars => HandoffsInv'
<1> SUFFICES ASSUME HandoffsInv, [HandoffsNext]_handoffVars PROVE HandoffsInv'
  OBVIOUS
<1>1. ASSUME NEW r \in Candidate, WriteHandoff(r) PROVE HandoffsInv'
  BY <1>1, WriteHandoff_Inv
<1>2. ASSUME NEW d \in Dispatcher, Unlink(d) PROVE HandoffsInv'
  BY <1>2, Unlink_Inv
<1>3. CASE UNCHANGED handoffVars
  BY <1>3 DEF handoffVars, HandoffsInv, HandoffsTypeOK, WrittenInv, OutboxInv, CallsInv, CallInv, ListedInv,
              ListedIsDelivered, RuleIsHandedOff, PendingIsNotListed, Delivered
<1> QED BY <1>1, <1>2, <1>3, Dispatch_Inv DEF HandoffsNext

LEMMA HandoffsInvariance == HandoffsSpec => []HandoffsInv
BY HandoffsStart, HandoffsStep, PTL DEF HandoffsSpec

-----------------------------------------------------------------------------
(* The theorems                                                            *)

\* Every variable keeps its type: no call copies or deletes a file whose
\* handoff id is unusable.
THEOREM HandoffsHaveTheirTypes == HandoffsSpec => []HandoffsTypeOK
BY HandoffsInvariance, PTL DEF HandoffsInv

\* What dispatch_handoffs returns has been delivered in both formats.
THEOREM ListedMeansDelivered == HandoffsSpec => []ListedIsDelivered
BY HandoffsInvariance, PTL DEF HandoffsInv

\* No failure or death, at any step of any dispatcher, makes a rule's handoff
\* vanish before one of that rule has been delivered.
THEOREM NoRuleVanishes == HandoffsSpec => []RuleIsHandedOff
BY HandoffsInvariance, PTL DEF HandoffsInv

\* A handoff that is still in the outbox has not been listed.
THEOREM PendingMeansNotListed == HandoffsSpec => []PendingIsNotListed
BY HandoffsInvariance, PTL DEF HandoffsInv

\* Any number of dispatchers list a handoff once, and once more at most for
\* each newer handoff of its rule.
THEOREM NoDoubleListing == HandoffsSpec => []ListedAgainOnlyIfSuperseded
<1>1. HandoffsInv => ListedAgainOnlyIfSuperseded
  <2> SUFFICES ASSUME HandoffsInv, NEW h \in Handoff
               PROVE  reported[h] <= Cardinality(Since(h, written))
    BY DEF ListedAgainOnlyIfSuperseded, Since
  <2>1. reported[h] \in Nat /\ Cardinality(Since(h, written)) \in Nat
    BY SinceFinite DEF HandoffsInv, HandoffsTypeOK, WrittenInv
  <2>2. CASE h \in written
    BY <2>1, <2>2 DEF HandoffsInv, ListedInv
  <2>3. CASE h \notin written
    BY <2>1, <2>3 DEF HandoffsInv, WrittenInv
  <2> QED BY <2>2, <2>3
<1> QED BY HandoffsInvariance, <1>1, PTL
=============================================================================
