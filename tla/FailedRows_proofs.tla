-------------------------- MODULE FailedRows_proofs --------------------------
(***************************************************************************)
(* Rows that fail, for any number of them: how a missing handler fails a   *)
(* row, and how a client finds the failed rows.                            *)
(*                                                                         *)
(* Pages.  A walk through the failed rows gives every row that stays       *)
(* failed, and none twice, for any page sizes.  The first part is about    *)
(* the pages of any finite ordered set: the first of its members, as many  *)
(* as the limit, come before all the others, and one of them is the last.  *)
(* The second part is the walk.  At any moment its cursor parts the failed *)
(* rows: what is still owed lies after it, and of what was given nothing   *)
(* that is failed does, because a row can fail only at an instant the      *)
(* cursor has not passed.                                                  *)
(*                                                                         *)
(* Fleet.  Rows whose handler is missing do not wait for each other's      *)
(* horizons.  Each sweep of a replica that passes over a row notes as many *)
(* others as its budget, and none that has had its turn: a noted row goes  *)
(* behind the rows without a miss, a row whose horizon goes on is behind   *)
(* one whose horizon is over, and an ended row stays ended.  So the number *)
(* of sweeps a row has waited for, times the budget, is at most the number *)
(* of rows behind it - before its own clock starts, and again after its    *)
(* horizon.                                                                *)
(***************************************************************************)
EXTENDS FailedPages, MissingHandlers, JobTable_proofs, FiniteSetTheorems,
        WellFoundedInduction

-----------------------------------------------------------------------------
(* Pages of a finite ordered set. *)

\* R is a strict total order on S.
Orders(R, S) ==
    /\ \A x \in S : <<x, x>> \notin R
    /\ \A x, y, z \in S : <<x, y>> \in R /\ <<y, z>> \in R => <<x, z>> \in R
    /\ \A x, y \in S : x = y \/ <<x, y>> \in R \/ <<y, x>> \in R

PageOf(R, S, limit) == {x \in S : Cardinality(SetLessThan(x, R, S)) < limit}

\* A finite ordered set that is not empty has a first member.
LEMMA FirstExists ==
    ASSUME NEW S, IsFiniteSet(S), S # {}, NEW R, Orders(R, S)
    PROVE  \E m \in S : SetLessThan(m, R, S) = {}
    <1> DEFINE T == {SetLessThan(x, R, S) : x \in S}
    <1>1. T \subseteq FiniteSubsetsOf(S) /\ T # {}
        <2>1. ASSUME NEW x \in S PROVE SetLessThan(x, R, S) \in FiniteSubsetsOf(S)
            <3>1. SetLessThan(x, R, S) \in SUBSET S
                BY DEF SetLessThan
            <3>2. IsFiniteSet(SetLessThan(x, R, S))
                BY <3>1, FS_Subset
            <3>3. QED
                BY <3>1, <3>2 DEF FiniteSubsetsOf
        <2>2. QED
            BY <2>1
    <1>2. PICK least \in T : \A other \in T : ~ (<<other, least>> \in StrictSubsetOrdering(S))
        BY <1>1, FS_StrictSubsetOrderingWellFounded, WFMin
    <1>3. PICK m \in S : least = SetLessThan(m, R, S)
        OBVIOUS
    <1>4. ASSUME NEW y \in SetLessThan(m, R, S) PROVE FALSE
        <2>1. y \in S /\ <<y, m>> \in R
            BY <1>4 DEF SetLessThan
        <2>2. SetLessThan(y, R, S) \subseteq SetLessThan(m, R, S)
            BY <2>1 DEF SetLessThan, Orders
        <2>3. y \notin SetLessThan(y, R, S)
            BY <2>1 DEF SetLessThan, Orders
        <2>4. SetLessThan(y, R, S) \in SUBSET S /\ SetLessThan(m, R, S) \in SUBSET S
            BY DEF SetLessThan
        <2>5. <<SetLessThan(y, R, S), SetLessThan(m, R, S)>> \in StrictSubsetOrdering(S)
            BY <1>4, <2>2, <2>3, <2>4 DEF StrictSubsetOrdering
        <2>6. QED
            BY <1>2, <1>3, <2>1, <2>5
    <1>5. QED
        BY <1>4

\* And a last one, which is the first of the order turned round.
LEMMA LastExists ==
    ASSUME NEW S, IsFiniteSet(S), S # {}, NEW R, Orders(R, S)
    PROVE  \E m \in S : \A y \in S \ {m} : <<y, m>> \in R
    <1> DEFINE Turned == {pair \in S \X S : <<pair[2], pair[1]>> \in R}
    <1>1. \A x, y \in S : <<x, y>> \in Turned <=> <<y, x>> \in R
        OBVIOUS
    <1> HIDE DEF Turned
    <1>2. Orders(Turned, S)
        BY <1>1 DEF Orders
    <1>3. PICK m \in S : SetLessThan(m, Turned, S) = {}
        BY <1>2, FirstExists
    <1>4. \A y \in S \ {m} : <<y, m>> \in R
        BY <1>1, <1>3 DEF SetLessThan, Orders
    <1>5. QED
        BY <1>4

LEMMA BeforeFinite ==
    ASSUME NEW S, IsFiniteSet(S), NEW R, NEW x
    PROVE  /\ SetLessThan(x, R, S) \subseteq S /\ IsFiniteSet(SetLessThan(x, R, S))
           /\ Cardinality(SetLessThan(x, R, S)) \in Nat
    <1>1. SetLessThan(x, R, S) \in SUBSET S
        BY DEF SetLessThan
    <1>2. IsFiniteSet(SetLessThan(x, R, S))
        BY <1>1, FS_Subset
    <1>3. QED
        BY <1>1, <1>2, FS_CardinalityType

\* The page comes before the rest, it has members if the set has, and the whole
\* set is the page when the limit is not exceeded.
LEMMA PageIsFirst ==
    ASSUME NEW S, IsFiniteSet(S), NEW R, Orders(R, S), NEW limit \in Nat \ {0}
    PROVE  /\ \A p \in PageOf(R, S, limit), x \in S \ PageOf(R, S, limit) : <<p, x>> \in R
           /\ S # {} => PageOf(R, S, limit) # {}
           /\ Cardinality(S) <= limit => PageOf(R, S, limit) = S
    <1>1. ASSUME NEW p \in PageOf(R, S, limit), NEW x \in S \ PageOf(R, S, limit)
          PROVE  <<p, x>> \in R
        <2>1. p \in S /\ x \in S /\ p # x
            BY DEF PageOf
        <2>2. CASE <<x, p>> \in R
            <3>1. SetLessThan(x, R, S) \in SUBSET SetLessThan(p, R, S)
                BY <2>1, <2>2 DEF SetLessThan, Orders
            <3>2. Cardinality(SetLessThan(x, R, S)) <= Cardinality(SetLessThan(p, R, S))
                BY <3>1, BeforeFinite, FS_Subset
            <3>3. Cardinality(SetLessThan(x, R, S)) < limit
                <4>1. Cardinality(SetLessThan(p, R, S)) < limit
                    BY DEF PageOf
                <4>2. QED
                    BY <3>2, <4>1, BeforeFinite
            <3>4. QED
                BY <2>1, <3>3 DEF PageOf
        <2>3. QED
            BY <2>1, <2>2 DEF Orders
    <1>2. ASSUME S # {} PROVE PageOf(R, S, limit) # {}
        <2>1. PICK m \in S : SetLessThan(m, R, S) = {}
            BY <1>2, FirstExists
        <2>2. Cardinality(SetLessThan(m, R, S)) < limit
            BY <2>1, FS_EmptySet
        <2>3. QED
            BY <2>2 DEF PageOf
    <1>3. ASSUME Cardinality(S) <= limit PROVE PageOf(R, S, limit) = S
        <2>1. ASSUME NEW x \in S PROVE Cardinality(SetLessThan(x, R, S)) < limit
            <3>1. SetLessThan(x, R, S) \in SUBSET (S \ {x})
                BY DEF SetLessThan, Orders
            <3>2. IsFiniteSet(S \ {x}) /\ Cardinality(S \ {x}) = Cardinality(S) - 1
                BY FS_RemoveElement
            <3>3. Cardinality(SetLessThan(x, R, S)) <= Cardinality(S) - 1
                BY <3>1, <3>2, FS_Subset
            <3>4. Cardinality(S) \in Nat /\ Cardinality(SetLessThan(x, R, S)) \in Nat
                BY FS_CardinalityType, BeforeFinite
            <3>5. QED
                BY <1>3, <3>3, <3>4
        <2>2. QED
            BY <2>1 DEF PageOf
    <1>4. QED
        BY <1>1, <1>2, <1>3

-----------------------------------------------------------------------------
(* The inductive invariant. *)

\* Rows are issued and failures lie in the past; there are finitely many rows.
RowsDated ==
    /\ IsFiniteSet(issued)
    /\ \A id \in JobId : Present(id) => id \in issued
    /\ \A id \in FailedRows : jobs[id].completedAt <= now

Given == walk.returned \cup walk.page

\* What is owed is failed, and was given or lies after the cursor.
WalkOwes ==
    /\ owed \subseteq FailedRows
    /\ walk.pc = "walking" => \A id \in owed \ Given : After(id, walk.cursor)
    /\ walk.pc = "done" => owed \subseteq Given
    /\ walk.pc = "idle" => owed = {}

\* Time has come as far as the cursor and no row that was given lies after it,
\* nor would it if it failed now.
GivenBefore ==
    walk.pc = "walking" =>
        /\ walk.cursor # None /\ walk.limit \in Limits
        /\ \A id \in Given :
              /\ now > walk.cursor.at \/ (now = walk.cursor.at /\ id >= walk.cursor.id)
              /\ id \in FailedRows => ~ After(id, walk.cursor)

IInv == TypeOK /\ TableInv /\ RowsDated /\ WalkOwes /\ GivenBefore /\ NothingTwice

-----------------------------------------------------------------------------
(* The pages of the failed rows. *)

Newest == {pair \in FailedRows \X FailedRows : Precedes(pair[1], pair[2])}

LEMMA FailedRow ==
    ASSUME TableInv, NEW id \in FailedRows
    PROVE  /\ id \in JobId /\ id \in Nat /\ Present(id) /\ jobs[id] \in Job
           /\ jobs[id].status = "failed" /\ jobs[id].completedAt \in Nat
    BY PresentRow, PagesAssumption DEF FailedRows, Job, TimeOrNull, Time

LEMMA FailedFinite ==
    ASSUME TableInv, RowsDated, NEW S \in SUBSET FailedRows
    PROVE  IsFiniteSet(S)
    <1>1. S \in SUBSET issued
        BY FailedRow DEF RowsDated
    <1>2. QED
        BY <1>1, FS_Subset DEF RowsDated

LEMMA NewestOrders ==
    ASSUME TableInv, NEW S \in SUBSET FailedRows
    PROVE  Orders(Newest, S)
    <1>1. \A x, y \in S : <<x, y>> \in Newest <=> Precedes(x, y)
        BY DEF Newest
    <1>2. \A x \in S : x \in Nat /\ jobs[x].completedAt \in Nat
        BY FailedRow
    <1>3. \A x \in S : ~ Precedes(x, x)
        BY <1>2 DEF Precedes
    <1>4. \A x, y, z \in S : Precedes(x, y) /\ Precedes(y, z) => Precedes(x, z)
        BY <1>2 DEF Precedes
    <1>5. \A x, y \in S : x = y \/ Precedes(x, y) \/ Precedes(y, x)
        BY <1>2 DEF Precedes
    <1>6. QED
        BY <1>1, <1>3, <1>4, <1>5 DEF Orders

LEMMA FirstOfIsPage ==
    ASSUME NEW S \in SUBSET FailedRows, NEW limit
    PROVE  FirstOf(S, limit) = PageOf(Newest, S, limit)
    <1>1. ASSUME NEW id \in S
          PROVE  {other \in S : Precedes(other, id)} = SetLessThan(id, Newest, S)
        BY DEF SetLessThan, Newest
    <1>2. QED
        BY <1>1 DEF FirstOf, PageOf

\* LIMIT and the row that gives the cursor, of any set of failed rows.
LEMMA PageOfFailed ==
    ASSUME TableInv, RowsDated, NEW S \in SUBSET FailedRows, NEW limit \in Nat \ {0}
    PROVE  /\ FirstOf(S, limit) \subseteq S
           /\ Cardinality(S) <= limit => FirstOf(S, limit) = S
           /\ \A p \in FirstOf(S, limit), id \in S \ FirstOf(S, limit) : Precedes(p, id)
           /\ Cardinality(S) > limit =>
                 LET last == LastOf(FirstOf(S, limit))
                 IN  /\ last \in FirstOf(S, limit)
                     /\ \A p \in FirstOf(S, limit) \ {last} : Precedes(p, last)
    <1> DEFINE page == FirstOf(S, limit)
    <1>1. page = PageOf(Newest, S, limit) /\ IsFiniteSet(S) /\ Orders(Newest, S)
        BY FirstOfIsPage, FailedFinite, NewestOrders
    <1>2. page \subseteq S
        BY DEF FirstOf
    <1>3. /\ \A p \in page, id \in S \ page : <<p, id>> \in Newest
          /\ S # {} => page # {}
          /\ Cardinality(S) <= limit => page = S
        BY <1>1, PageIsFirst
    <1>4. \A p \in page, id \in S \ page : Precedes(p, id)
        BY <1>3 DEF Newest
    <1>5. ASSUME Cardinality(S) > limit
          PROVE  \E last \in page : \A p \in page \ {last} : Precedes(p, last)
        <2>1. S # {}
            BY <1>5, FS_EmptySet
        <2>2. page \in SUBSET FailedRows /\ page # {}
            BY <1>2, <1>3, <2>1
        <2>3. IsFiniteSet(page) /\ Orders(Newest, page)
            BY <2>2, FailedFinite, NewestOrders
        <2>4. PICK last \in page : \A p \in page \ {last} : <<p, last>> \in Newest
            BY <2>2, <2>3, LastExists
        <2>5. QED
            BY <2>4 DEF Newest
    <1>6. QED
        BY <1>2, <1>3, <1>4, <1>5 DEF LastOf

\* What one call of listFailed gives: the matches themselves if there is no next
\* page; else the rows of the page are not after the new cursor, the other
\* matches are, and the cursor is the place of one of the matches.
LEMMA PageGiven ==
    ASSUME TableInv, RowsDated, NEW limit \in Limits, NEW cursor, NEW returned,
           listFailed(limit, cursor, returned)
    PROVE  /\ walk' = [pc |-> walk'.pc, limit |-> limit, cursor |-> walk'.cursor,
                       page |-> walk'.page, returned |-> returned]
           /\ walk'.page \subseteq Matches(cursor)
           /\ walk'.pc \in {"walking", "done"}
           /\ walk'.pc = "done" => walk'.cursor = None /\ walk'.page = Matches(cursor)
           /\ walk'.pc = "walking" =>
                 \E last \in Matches(cursor) :
                    /\ walk'.cursor = CursorOf(last)
                    /\ \A id \in walk'.page : ~ After(id, CursorOf(last))
                    /\ \A id \in Matches(cursor) \ walk'.page : After(id, CursorOf(last))
    <1> DEFINE matches == Matches(cursor)
               page == FirstOf(matches, limit)
               more == Cardinality(matches) > limit
               last == LastOf(page)
    <1>1. /\ walk' = [pc |-> IF more THEN "walking" ELSE "done", limit |-> limit,
                      cursor |-> IF more THEN CursorOf(last) ELSE None,
                      page |-> page, returned |-> returned]
        BY DEF listFailed
    <1>2. matches \in SUBSET FailedRows /\ limit \in Nat \ {0}
        BY PagesAssumption DEF Matches
    <1>3. /\ page \subseteq matches
          /\ Cardinality(matches) <= limit => page = matches
          /\ \A p \in page, id \in matches \ page : Precedes(p, id)
          /\ more => last \in page /\ \A p \in page \ {last} : Precedes(p, last)
        BY <1>2, PageOfFailed
    <1>4. Cardinality(matches) \in Nat
        BY <1>2, FailedFinite, FS_CardinalityType
    <1>5. \A id \in matches : id \in Nat /\ jobs[id].completedAt \in Nat
        BY <1>2, FailedRow
    <1> HIDE DEF matches, page, more, last
    <1>6. ASSUME more
          PROVE  /\ last \in matches
                 /\ \A id \in page : ~ After(id, CursorOf(last))
                 /\ \A id \in matches \ page : After(id, CursorOf(last))
        <2>1. last \in page /\ last \in matches
            BY <1>3, <1>6
        <2>2. ASSUME NEW id \in page PROVE ~ After(id, CursorOf(last))
            <3>1. id = last \/ Precedes(id, last)
                BY <1>3, <1>6
            <3>2. QED
                BY <1>3, <1>5, <2>1, <3>1 DEF After, CursorOf, Precedes
        <2>3. ASSUME NEW id \in matches \ page PROVE After(id, CursorOf(last))
            <3>1. Precedes(last, id)
                BY <1>3, <2>1
            <3>2. QED
                BY <1>5, <2>1, <3>1 DEF After, CursorOf, Precedes
        <2>4. QED
            BY <2>1, <2>2, <2>3
    <1>7. walk'.page = page /\ page \subseteq matches
        BY <1>1, <1>3
    <1>8. CASE more
        BY <1>1, <1>6, <1>7, <1>8 DEF matches
    <1>9. CASE ~ more
        <2>1. Cardinality(matches) <= limit
            BY <1>2, <1>4, <1>9 DEF more
        <2>2. QED
            BY <1>1, <1>3, <1>7, <1>9, <2>1 DEF matches
    <1>10. QED
        BY <1>8, <1>9

-----------------------------------------------------------------------------
(* The caller's steps. *)

LEMMA CursorType ==
    ASSUME TableInv, NEW id \in FailedRows
    PROVE  /\ CursorOf(id) \in Cursor /\ CursorOf(id) # None
           /\ CursorOf(id).at = jobs[id].completedAt /\ CursorOf(id).id = id
    <1>1. id \in JobId /\ jobs[id].completedAt \in Nat
        BY FailedRow
    <1>2. CursorOf(id) \in [at : Nat, id : JobId]
        BY <1>1 DEF CursorOf
    <1>3. QED
        BY <1>2, PagesAssumption DEF CursorOf, Cursor, Time

\* A page asked for with what was given before, when that is all before the cursor.
LEMMA PageInv ==
    ASSUME IInv, NEW limit \in Limits, NEW cursor \in Cursor, NEW returned \in SUBSET JobId,
           listFailed(limit, cursor, returned), UNCHANGED tableVars,
           owed' \subseteq FailedRows, owed' \subseteq JobId,
           owed' \ returned \subseteq Matches(cursor),
           cursor = None => returned = {},
           cursor # None =>
              \A id \in returned :
                 /\ now > cursor.at \/ (now = cursor.at /\ id >= cursor.id)
                 /\ id \in FailedRows => ~ After(id, cursor)
    PROVE  IInv'
    <1> DEFINE page == walk'.page
               matches == Matches(cursor)
    <1>1. /\ walk' = [pc |-> walk'.pc, limit |-> limit, cursor |-> walk'.cursor,
                      page |-> page, returned |-> returned]
          /\ page \subseteq matches
          /\ walk'.pc \in {"walking", "done"}
          /\ walk'.pc = "done" => walk'.cursor = None /\ page = matches
          /\ walk'.pc = "walking" =>
                \E last \in matches :
                   /\ walk'.cursor = CursorOf(last)
                   /\ \A id \in page : ~ After(id, CursorOf(last))
                   /\ \A id \in matches \ page : After(id, CursorOf(last))
        BY PageGiven DEF IInv
    <1>2. matches \subseteq FailedRows /\ FailedRows \subseteq JobId
        BY DEF Matches, FailedRows
    <1>3. jobs' = jobs /\ now' = now /\ issued' = issued
        BY DEF tableVars
    <1>4. FailedRows' = FailedRows /\ \A id, place : After(id, place)' = After(id, place)
        BY <1>3 DEF FailedRows, Present, After
    <1>5. TableInv' /\ RowsDated'
        BY <1>3, <1>4, RowsUntouchedInv DEF IInv, TableInv, RowsTyped, RowsDated, Present
    <1>6. limit \in Nat \ {0} /\ \A id \in JobId : id \in Nat
        BY PagesAssumption
    <1>7. walk'.returned = returned /\ walk'.limit = limit
        BY <1>1
    <1>8. Given' = returned \cup page
        BY <1>7 DEF Given
    <1>9. ASSUME NEW id \in returned, cursor # None, NEW last \in matches
          PROVE  /\ now > jobs[last].completedAt
                    \/ (now = jobs[last].completedAt /\ id >= last)
                 /\ id \in FailedRows => ~ After(id, CursorOf(last))
        <2>1. /\ now > cursor.at \/ (now = cursor.at /\ id >= cursor.id)
              /\ id \in FailedRows => ~ After(id, cursor)
            BY <1>9
        <2>2. After(last, cursor)
            BY <1>9 DEF Matches
        <2>3. /\ cursor.at \in Nat /\ cursor.id \in Nat /\ id \in Nat /\ last \in Nat
              /\ jobs[last].completedAt \in Nat /\ now \in Nat
              /\ id \in FailedRows => jobs[id].completedAt \in Nat
            BY <1>2, <1>6, <1>9, FailedRow DEF Cursor, Time, IInv, TypeOK
        <2>4. CursorOf(last).at = jobs[last].completedAt /\ CursorOf(last).id = last
            BY DEF CursorOf
        <2>5. QED
            BY <2>1, <2>2, <2>3, <2>4 DEF After
    <1>10. NothingTwice'
        <2>1. ASSUME NEW id \in page, id \in returned PROVE FALSE
            <3>1. cursor # None /\ id \in FailedRows /\ After(id, cursor)
                BY <1>1, <1>2, <2>1 DEF Matches
            <3>2. QED
                BY <2>1, <3>1
        <2>2. QED
            BY <1>7, <2>1 DEF NothingTwice
    <1>11. CASE walk'.pc = "done"
        <2>1. walk'.cursor = None /\ page = matches
            BY <1>1, <1>11
        <2>2. TypeOK'
            BY <1>1, <1>2, <1>3, <1>6, <1>11, <2>1 DEF TypeOK, IInv, Cursor
        <2>3. WalkOwes'
            BY <1>4, <1>8, <1>11, <2>1 DEF WalkOwes
        <2>4. GivenBefore'
            BY <1>11 DEF GivenBefore
        <2>5. QED
            BY <1>5, <1>10, <2>2, <2>3, <2>4 DEF IInv
    <1>12. CASE walk'.pc = "walking"
        <2>1. PICK last \in matches :
                 /\ walk'.cursor = CursorOf(last)
                 /\ \A id \in page : ~ After(id, CursorOf(last))
                 /\ \A id \in matches \ page : After(id, CursorOf(last))
            BY <1>1, <1>12
        <2>2. /\ CursorOf(last) \in Cursor /\ CursorOf(last) # None
              /\ CursorOf(last).at = jobs[last].completedAt /\ CursorOf(last).id = last
            BY <1>2, CursorType DEF IInv
        <2>3. TypeOK'
            BY <1>1, <1>2, <1>3, <1>6, <1>12, <2>1, <2>2 DEF TypeOK, IInv
        <2>4. WalkOwes'
            <3>1. ASSUME NEW id \in owed' \ Given' PROVE After(id, CursorOf(last))
                BY <1>8, <2>1, <3>1
            <3>2. QED
                BY <1>4, <1>12, <2>1, <3>1 DEF WalkOwes
        <2>5. ASSUME NEW id \in Given'
              PROVE  /\ now > jobs[last].completedAt
                        \/ (now = jobs[last].completedAt /\ id >= last)
                     /\ id \in FailedRows => ~ After(id, CursorOf(last))
            <3>1. CASE id \in returned
                <4>1. cursor # None
                    BY <3>1
                <4>2. QED
                    BY <1>9, <3>1, <4>1
            <3>2. CASE id \in page
                <4>1. id \in FailedRows /\ last \in FailedRows /\ ~ After(id, CursorOf(last))
                    BY <1>1, <1>2, <2>1, <3>2
                <4>2. jobs[id].completedAt <= now /\ jobs[last].completedAt <= now
                    BY <4>1 DEF IInv, RowsDated
                <4>3. /\ id \in Nat /\ last \in Nat /\ now \in Nat
                      /\ jobs[id].completedAt \in Nat /\ jobs[last].completedAt \in Nat
                    BY <4>1, FailedRow DEF IInv, TypeOK, Time
                <4>4. QED
                    BY <2>2, <4>1, <4>2, <4>3 DEF After
            <3>3. QED
                BY <1>8, <2>5, <3>1, <3>2
        <2>6. GivenBefore'
            BY <1>3, <1>4, <1>7, <2>1, <2>2, <2>5 DEF GivenBefore
        <2>7. QED
            BY <1>5, <1>10, <2>3, <2>4, <2>6 DEF IInv
    <1>13. QED
        BY <1>1, <1>11, <1>12

LEMMA BeginWalkInv ==
    ASSUME IInv, NEW limit \in Limits, BeginWalk(limit)
    PROVE  IInv'
    <1>1. FailedRows \subseteq JobId /\ Matches(None) = FailedRows
        BY DEF Matches, FailedRows
    <1>2. None \in Cursor /\ {} \in SUBSET JobId
        BY DEF Cursor
    <1>3. listFailed(limit, None, {}) /\ owed' = FailedRows /\ UNCHANGED tableVars
        BY DEF BeginWalk
    <1>4. QED
        BY <1>1, <1>2, <1>3, PageInv

LEMMA NextPageInv ==
    ASSUME IInv, NextPage
    PROVE  IInv'
    <1>1. /\ walk.pc = "walking" /\ listFailed(walk.limit, walk.cursor, Given)
          /\ owed' = owed /\ UNCHANGED tableVars
        BY DEF NextPage, Given, tableVars
    <1>2. /\ walk.limit \in Limits /\ walk.cursor \in Cursor /\ walk.cursor # None
          /\ Given \in SUBSET JobId /\ owed \subseteq JobId
        BY <1>1 DEF IInv, TypeOK, GivenBefore, Given
    <1>3. owed \subseteq FailedRows /\ owed \ Given \subseteq Matches(walk.cursor)
        BY <1>1 DEF IInv, WalkOwes, Matches
    <1>4. \A id \in Given :
             /\ now > walk.cursor.at \/ (now = walk.cursor.at /\ id >= walk.cursor.id)
             /\ id \in FailedRows => ~ After(id, walk.cursor)
        BY <1>1 DEF IInv, GivenBefore
    <1>5. QED
        BY <1>1, <1>2, <1>3, <1>4, PageInv

-----------------------------------------------------------------------------
(* Everybody else's steps. *)

\* What another's step does to a row: nothing, or it is not failed afterwards, or
\* it fails now.
Touched(id) ==
    \/ jobs'[id] = jobs[id]
    \/ id \notin FailedRows'
    \/ id \notin FailedRows /\ jobs'[id].completedAt = now'

\* Any such step keeps the walk's part of the invariant.
LEMMA OthersKeepWalk ==
    ASSUME IInv, TableInv', RowsDated', UNCHANGED walk, now' >= now,
           \A id \in JobId : Touched(id),
           owed' = {id \in owed : /\ jobs'[id] # None /\ jobs'[id].status = "failed"
                                  /\ jobs'[id].version = jobs[id].version},
           \A id \in FailedRows : jobs'[id] # None /\ jobs'[id].status = "failed"
                                     => jobs'[id] = jobs[id]
    PROVE  IInv'
    <1>1. TypeOK'
        BY DEF IInv, TypeOK, TableInv, RowsTyped
    <1>2. \A id \in owed' : id \in owed /\ id \in FailedRows /\ jobs'[id] = jobs[id]
        BY DEF IInv, WalkOwes
    <1>3. \A id \in owed' : id \in FailedRows'
        BY <1>2 DEF FailedRows, Present
    <1>4. Given' = Given
        BY DEF Given
    <1>5. WalkOwes'
        BY <1>2, <1>3, <1>4 DEF IInv, WalkOwes, After
    <1>6. NothingTwice'
        BY DEF IInv, NothingTwice
    <1>7. ASSUME walk.pc = "walking", NEW id \in Given
          PROVE  /\ now' > walk.cursor.at \/ (now' = walk.cursor.at /\ id >= walk.cursor.id)
                 /\ id \in FailedRows' => ~ After(id, walk.cursor)'
        <2>1. /\ walk.cursor.at \in Nat /\ walk.cursor.id \in Nat
              /\ now \in Nat /\ now' \in Nat /\ id \in JobId /\ id \in Nat
            BY <1>1, <1>7, PagesAssumption DEF IInv, TypeOK, Given, GivenBefore, Cursor, Time
        <2>2. /\ now > walk.cursor.at \/ (now = walk.cursor.at /\ id >= walk.cursor.id)
              /\ id \in FailedRows => ~ After(id, walk.cursor)
            BY <1>7 DEF IInv, GivenBefore
        <2>3. now' > walk.cursor.at \/ (now' = walk.cursor.at /\ id >= walk.cursor.id)
            BY <2>1, <2>2
        <2>4. ASSUME id \in FailedRows' PROVE ~ After(id, walk.cursor)'
            <3>1. CASE jobs'[id] = jobs[id]
                <4>1. id \in FailedRows
                    BY <2>4, <3>1 DEF FailedRows, Present
                <4>2. QED
                    BY <2>2, <3>1, <4>1 DEF After
            <3>2. CASE jobs'[id].completedAt = now'
                BY <2>1, <2>3, <3>2 DEF After
            <3>3. QED
                BY <2>1, <2>4, <3>1, <3>2 DEF Touched
        <2>5. QED
            BY <2>3, <2>4
    <1>8. GivenBefore'
        BY <1>4, <1>7 DEF IInv, GivenBefore
    <1>9. QED
        BY <1>1, <1>5, <1>6, <1>8 DEF IInv

\* The statements on one row: the row is not failed before and after.
LEMMA OneRowTouched ==
    ASSUME IInv, NEW id \in JobId, NEW row \in Job,
           jobs' = [jobs EXCEPT ![id] = row], issued' = issued \cup {id}, now' = now,
           TableInv',
           id \notin FailedRows \/ row.status # "failed",
           row.status = "failed" => row.completedAt = now
    PROVE  /\ RowsDated' /\ \A other \in JobId : Touched(other)
           /\ \A other \in FailedRows : jobs'[other] # None /\ jobs'[other].status = "failed"
                                           => jobs'[other] = jobs[other]
    <1>1. jobs'[id] = row /\ \A other \in JobId \ {id} : jobs'[other] = jobs[other]
        BY DEF IInv, TypeOK
    <1>2. now \in Nat
        BY DEF IInv, TypeOK, Time
    <1>3. FailedRows' \ {id} = FailedRows \ {id} /\ FailedRows \subseteq JobId
        BY <1>1 DEF FailedRows, Present
    <1>4. id \in FailedRows' => row.status = "failed"
        BY <1>1 DEF FailedRows
    <1>5. \A other \in JobId : Touched(other)
        BY <1>1, <1>3, <1>4 DEF Touched
    <1>6. \A other \in FailedRows : jobs'[other] # None /\ jobs'[other].status = "failed"
                                       => jobs'[other] = jobs[other]
        BY <1>1, <1>3
    <1>7. RowsDated'
        <2>1. IsFiniteSet(issued')
            BY FS_AddElement DEF IInv, RowsDated
        <2>2. \A other \in JobId : Present(other)' => other \in issued'
            BY <1>1 DEF IInv, RowsDated, Present
        <2>3. \A other \in FailedRows' : jobs'[other].completedAt <= now'
            <3>1. \A other \in FailedRows' : other = id \/ other \in FailedRows
                BY <1>3
            <3>2. QED
                BY <1>1, <1>2, <1>3, <1>4, <3>1 DEF IInv, RowsDated
        <2>4. QED
            BY <2>1, <2>2, <2>3 DEF RowsDated
    <1>8. QED
        BY <1>5, <1>6, <1>7

LEMMA RowStatuses ==
    ASSUME NEW job \in Job, NEW at
    PROVE  /\ markRunningRow(job, at).status = "running"
           /\ markCompletedRow(job, at).status = "completed"
           /\ resetJobRow(job, at).status = "pending"
    BY DEF markRunningRow, markCompletedRow, resetJobRow, rescheduleJobRow, retryJobRow,
           resetDeferFields, Job

LEMMA OthersInv ==
    ASSUME IInv, Others
    PROVE  IInv'
    <1> DEFINE Kept ==
            /\ TableInv' /\ RowsDated' /\ now' >= now /\ \A id \in JobId : Touched(id)
            /\ \A id \in FailedRows : jobs'[id] # None /\ jobs'[id].status = "failed"
                                         => jobs'[id] = jobs[id]
    <1>1. now \in Time /\ now >= now /\ TableInv
        BY DEF IInv, TypeOK, Time
    <1>2. ASSUME NEW id \in JobId, NEW row \in Job, TableInv',
                 jobs' = [jobs EXCEPT ![id] = row], issued' = issued \cup {id}, now' = now,
                 id \notin FailedRows \/ row.status # "failed",
                 row.status = "failed" => row.completedAt = now
          PROVE  Kept
        BY <1>1, <1>2, OneRowTouched
    <1>3. ASSUME NEW id \in JobId, Schedule(id) PROVE Kept
        <2>1. PICK h \in Handler, k \in Key, n \in Attempts :
                 id \notin issued /\ createJob(id, NewOnceJob(h, k, now, n, None))
            BY <1>3 DEF Schedule
        <2> DEFINE row == NewOnceJob(h, k, now, n, None)
        <2>2. row \in Job /\ RowFits(row)
            BY <1>1, PagesAssumption, NewOnceJobFits
        <2>3. row.status = "pending"
            BY DEF NewOnceJob, NewJob
        <2> HIDE DEF row
        <2>4. id \notin FailedRows
            BY <2>1 DEF IInv, RowsDated, FailedRows
        <2>5. /\ jobs' = [jobs EXCEPT ![id] = row]
              /\ issued' = issued \cup {id} /\ now' = now /\ SlotFree(row, id)
            BY <2>1 DEF createJob, row
        <2>6. TableInv'
            <3>1. issued' \in SUBSET JobId
                BY <2>5 DEF IInv, TypeOK
            <3>2. QED
                BY <1>1, <2>2, <2>5, <3>1, PutInv
        <2>7. QED
            BY <1>2, <2>2, <2>3, <2>4, <2>5, <2>6
    <1>4. ASSUME NEW id \in JobId, Present(id), NEW row \in Job, Update(id, row), TableInv',
                 id \notin FailedRows \/ row.status # "failed",
                 row.status = "failed" => row.completedAt = now
          PROVE  Kept
        <2>1. /\ jobs' = [jobs EXCEPT ![id] = row]
              /\ issued' = issued \cup {id} /\ now' = now
            BY <1>4 DEF Update, IInv, RowsDated
        <2>2. QED
            BY <1>2, <1>4, <2>1
    <1>5. ASSUME NEW id \in JobId, Present(id), Claim(id) \/ Settle(id) PROVE Kept
        <2> DEFINE job == jobs[id]
        <2>1. job \in Job /\ RowFits(job)
            BY <1>1, <1>5, PresentRow
        <2>2. \A row : Keeps(job, row) /\ Update(id, row) => row \in Job /\ TableInv'
            BY <1>1, <1>5, UpdateInv DEF Keeps
        <2>3. CASE Claim(id)
            <3>1. Keeps(job, markRunningRow(job, now)) /\ Update(id, markRunningRow(job, now))
                BY <1>1, <2>1, <2>3, MarkRunningKeeps DEF Claim, markRunning
            <3>2. QED
                BY <1>4, <1>5, <2>1, <2>2, <3>1, RowStatuses
        <2>4. CASE markCompleted(id)
            <3>1. Keeps(job, markCompletedRow(job, now))
                  /\ Update(id, markCompletedRow(job, now))
                BY <1>1, <2>1, <2>4, MarkCompletedKeeps DEF markCompleted
            <3>2. QED
                BY <1>4, <1>5, <2>1, <2>2, <3>1, RowStatuses
        <2>5. CASE markFailed(id, "handler_error")
            <3> DEFINE row == markFailedRow(job, "handler_error", now)
            <3>1. Keeps(job, row) /\ Update(id, row)
                BY <1>1, <2>1, <2>5, MarkFailedKeeps DEF markFailed, FailureReason
            <3>2. row.completedAt = now
                BY <2>1 DEF markFailedRow, resetDeferFields, Job
            <3>3. id \notin FailedRows
                BY <2>5 DEF FailedRows, markFailed, CanMarkFailed, IsRunningAt
            <3> HIDE DEF row
            <3>4. QED
                BY <1>4, <1>5, <2>2, <3>1, <3>2, <3>3
        <2>6. QED
            BY <1>5, <2>3, <2>4, <2>5 DEF Settle
    <1>6. ASSUME NEW id \in JobId, Present(id), ManualRetry(id) PROVE Kept
        <2> DEFINE row == resetJobRow(jobs[id], now)
        <2>1. jobs[id] \in Job /\ RowFits(jobs[id]) /\ CanResetJob(jobs[id])
            BY <1>1, <1>6, PresentRow DEF ManualRetry, resetJob
        <2>2. row \in Job /\ row.status = "pending"
            BY <1>1, <2>1, ResetJobRevives, RowStatuses
        <2>3. TableInv' /\ Update(id, row)
            BY <1>1, <1>6, ResetInv DEF ManualRetry, resetJob
        <2> HIDE DEF row
        <2>4. QED
            BY <1>4, <1>6, <2>2, <2>3
    <1>7. ASSUME NEW ids \in SUBSET TerminalRows, pruneTerminal(ids) PROVE Kept
        <2>1. Delete(ids)
            BY <1>7 DEF pruneTerminal
        <2>2. TableInv'
            BY <1>1, <2>1, DeleteInv
        <2>3. \A id \in JobId : jobs'[id] = IF id \in ids THEN None ELSE jobs[id]
            BY <2>1 DEF Delete
        <2>4. now' = now /\ issued' = issued
            BY <2>1 DEF Delete
        <2>5. \A id \in JobId : jobs'[id] = jobs[id] \/ id \notin FailedRows'
            BY <2>3 DEF FailedRows, Present
        <2>6. RowsDated'
            BY <2>3, <2>4 DEF IInv, RowsDated, FailedRows, Present
        <2>7. QED
            BY <1>1, <2>2, <2>3, <2>4, <2>5, <2>6 DEF Touched, FailedRows
    <1>8. ASSUME Tick PROVE Kept
        <2>1. jobs' = jobs /\ issued' = issued /\ now' = now + 1 /\ now' \in Time /\ now' >= now
            BY <1>1, <1>8 DEF Tick, Time
        <2>2. TableInv'
            BY <1>1, <2>1, RowsUntouchedInv
        <2>3. RowsDated'
            <3>1. FailedRows' = FailedRows /\ \A id \in JobId : Present(id)' = Present(id)
                BY <2>1 DEF FailedRows, Present
            <3>2. \A id \in FailedRows : jobs[id].completedAt \in Nat
                BY <1>1, FailedRow
            <3>3. QED
                BY <1>1, <2>1, <3>1, <3>2 DEF IInv, RowsDated, Time
        <2>4. QED
            BY <2>1, <2>2, <2>3 DEF Touched
    <1>9. Kept
        BY <1>3, <1>5, <1>6, <1>7, <1>8 DEF Others
    <1>10. QED
        BY <1>9, OthersKeepWalk DEF Others

-----------------------------------------------------------------------------
(* The theorems. *)

THEOREM WalkInvariant == Spec => []IInv
    <1>1. Init => IInv
        <2> SUFFICES ASSUME Init PROVE IInv
            OBVIOUS
        <2>1. /\ jobs = [id \in JobId |-> None] /\ issued = {} /\ now = 0
              /\ walk = NoWalk /\ owed = {}
            BY DEF Init, TableInit
        <2>2. TableInv
            BY <2>1 DEF TableInv, RowsTyped, RowsFit, AtMostOneActive, Present, Time
        <2>3. RowsDated
            BY <2>1, FS_EmptySet DEF RowsDated, FailedRows, Present
        <2>4. TypeOK
            BY <2>1 DEF TypeOK, NoWalk, Cursor, Time
        <2>5. WalkOwes /\ GivenBefore /\ NothingTwice
            BY <2>1 DEF WalkOwes, GivenBefore, NothingTwice, NoWalk
        <2>6. QED
            BY <2>2, <2>3, <2>4, <2>5 DEF IInv
    <1>2. IInv /\ [Next]_vars => IInv'
        <2> SUFFICES ASSUME IInv, [Next]_vars PROVE IInv'
            OBVIOUS
        <2>1. CASE Next
            BY <2>1, BeginWalkInv, NextPageInv, OthersInv DEF Next
        <2>2. CASE UNCHANGED vars
            BY <2>2 DEF vars, IInv, TypeOK, TableInv, RowsTyped, RowsFit, AtMostOneActive,
               RowsDated, WalkOwes, GivenBefore, NothingTwice, Given, FailedRows, Present, After
        <2>3. QED
            BY <2>1, <2>2
    <1>3. QED
        BY <1>1, <1>2, PTL DEF Spec

\* Rows, the walk and its cursor keep their shapes.
THEOREM TypeCorrect == Spec => []TypeOK
    BY WalkInvariant, PTL DEF IInv

\* A walk that has ended was given every row that was failed when it began and
\* has stayed so: any number of rows at an instant, any page sizes, and whatever
\* is failed, retried or pruned between two pages.
THEOREM WalksAreComplete == Spec => []WalkComplete
    <1>1. IInv => WalkComplete
        BY DEF IInv, WalkOwes, WalkComplete, Given
    <1>2. QED
        BY <1>1, WalkInvariant, PTL

\* No walk is given a row twice.
THEOREM GivenOnce == Spec => []NothingTwice
    BY WalkInvariant, PTL DEF IInv

-----------------------------------------------------------------------------
(* The fleet: what is known of its rows and replicas. *)

\* Rows of the fleet are once rows.
FleetRows == \A id \in JobId : Present(id) => id \in issued /\ jobs[id].kind = "once"

\* Misses are dated after the last claim; a row that waits with one has a horizon left.
MissesDated ==
    \A id \in JobId :
        /\ touched[id] <= now
        /\ Present(id) /\ jobs[id].deferredSince # None
           => touched[id] <= jobs[id].deferredSince /\ jobs[id].deferredSince <= now

\* A steady replica is complete, and what runs does so where it has the handler.
SteadyReplicas ==
    \A r \in Replica :
        /\ steady[r] <= now
        /\ steady[r] < now =>
              /\ Complete(r)
              /\ \A id \in JobId : Present(id) /\ jobs[id].status = "running"
                                   => jobs[id].handler \in known[r]

\* A miss has ended the row, or its horizon goes on.
Missed(id) ==
    \/ jobs[id].status = "failed"
    \/ jobs[id].deferredSince # None /\ now - jobs[id].deferredSince < horizonMs

\* What a steady replica has listed waits as it was listed, or has been noted since.
ListingsHold ==
    \A r \in Replica : \A pair \in orphans[r] :
        /\ r \in swept
        /\ steady[r] < now =>
              /\ Present(pair[1]) /\ jobs[pair[1]].handler \notin known[r]
              /\ \/ jobs[pair[1]].status = "pending" /\ jobs[pair[1]].version = pair[2]
                 \/ Missed(pair[1])

\* A row waits for a replica without its handler since it is due and the replica
\* steady; its turns count from there, or from the last instant of its horizon.
Waiting(r, id) ==
    Present(id) /\ jobs[id].status = "pending" /\ jobs[id].handler \notin known[r]
Since(r, id) ==
    IF steady[r] > jobs[id].scheduledFor THEN steady[r] ELSE jobs[id].scheduledFor
Expiry(id) == jobs[id].deferredSince + horizonMs - 1
From(r, id) ==
    IF jobs[id].deferredSince = None \/ Expiry(id) <= Since(r, id)
    THEN Since(r, id) ELSE Expiry(id)
\* The replica's other orphans that are not listed before this one: they have ended
\* or run, or were missed first while this one was not, or later than this one.
Behind(r, id) ==
    {other \in JobId :
        /\ Present(other) /\ jobs[other].handler \notin known[r]
        /\ \/ jobs[other].status # "pending"
           \/ /\ jobs[other].deferredSince # None
              /\ \/ jobs[id].deferredSince = None
                 \/ jobs[other].deferredSince > jobs[id].deferredSince}
Listed(r) == {id \in JobId : \E version \in Nat : <<id, version>> \in orphans[r]}

\* The sweeps that have gone by were spent on rows behind it; the last one, on the
\* rows it listed as well.
Turn(r, id) ==
    /\ UNKNOWN_DUE_BUDGET * (now - 1 - From(r, id)) <= Cardinality(Behind(r, id))
    /\ r \in swept /\ id \notin Listed(r) =>
          UNKNOWN_DUE_BUDGET * (now - From(r, id)) <= Cardinality(Behind(r, id) \cup Listed(r))
\* Its clock started after one turn at most of each other row.
ClockStarts(r, id) ==
    jobs[id].deferredSince # None =>
        UNKNOWN_DUE_BUDGET * (jobs[id].deferredSince - 1 - Since(r, id)) <= Cardinality(JobId) - 1
TurnsTaken ==
    \A r \in Replica, id \in JobId : Waiting(r, id) => Turn(r, id) /\ ClockStarts(r, id)

-----------------------------------------------------------------------------
(* A miss. *)

\* The miss is dated when the streak began, and it ends the row at the horizon.
MissOf(job, new, t) ==
    /\ new.handler = job.handler /\ new.kind = job.kind
    /\ new.version = job.version + 1
    /\ new.deferredSince = FirstDefer(job, t)
    /\ \/ new.status = "failed" /\ t - FirstDefer(job, t) >= horizonMs
       \/ new.status = "pending" /\ t - FirstDefer(job, t) < horizonMs

LEMMA NoteEffects ==
    ASSUME NEW job \in Job, RowFits(job), job.status = "pending", NEW t \in Time
    PROVE  LET new == noteMissingHandlerRow(job, t, horizonMs)
           IN  /\ Keeps(job, new) /\ MissOf(job, new, t)
               /\ new.scheduledFor = job.scheduledFor
    <1> DEFINE noted == [job EXCEPT !.version = @ + 1, !.deferAttempts = @ + 1,
                                    !.deferredSince = FirstDefer(job, t)]
               gone == [noted EXCEPT !.status = "failed", !.completedAt = t,
                                     !.failureReason = "defer_horizon"]
               new == noteMissingHandlerRow(job, t, horizonMs)
    <1>1. Keeps(job, new)
        BY NoteMissKeeps, MissingAssumption
    <1>2. FirstDefer(job, t) \in Nat /\ t \in Nat /\ horizonMs \in Nat
        BY MissingAssumption, NoneAssumption DEF FirstDefer, Job, Time, TimeOrNull
    <1>3. new = IF t - FirstDefer(job, t) < horizonMs THEN noted ELSE gone
        BY DEF noteMissingHandlerRow
    <1>4. /\ noted.handler = job.handler /\ noted.kind = job.kind
          /\ noted.version = job.version + 1 /\ noted.deferredSince = FirstDefer(job, t)
          /\ noted.status = job.status /\ noted.scheduledFor = job.scheduledFor
        BY DEF Job
    <1>5. /\ gone.handler = noted.handler /\ gone.kind = noted.kind
          /\ gone.version = noted.version /\ gone.deferredSince = noted.deferredSince
          /\ gone.status = "failed" /\ gone.scheduledFor = noted.scheduledFor
        BY DEF Job
    <1> HIDE DEF noted, gone, new
    <1>6. MissOf(job, new, t) /\ new.scheduledFor = job.scheduledFor
        BY <1>2, <1>3, <1>4, <1>5 DEF MissOf
    <1>7. QED
        BY <1>1, <1>6 DEF new

\* A deferral moves the row to its next delivery as well, unless it ends it.
LEMMA DeferEffects ==
    ASSUME NEW job \in Job, RowFits(job), job.status = "pending", NEW t \in Time,
           NEW at \in Time
    PROVE  LET new == deferJobRow(job, at, t, horizonMs)
           IN  /\ Keeps(job, new) /\ MissOf(job, new, t)
               /\ new.status = "pending" => new.scheduledFor = at
    <1> DEFINE noted == noteMissingHandlerRow(job, t, horizonMs)
               new == deferJobRow(job, at, t, horizonMs)
               moved == [noted EXCEPT !.scheduledFor = at]
    <1>1. Keeps(job, new)
        BY DeferKeeps, MissingAssumption
    <1>2. Keeps(job, noted) /\ MissOf(job, noted, t)
        BY NoteEffects
    <1>3. noted \in Job
        BY <1>2 DEF Keeps
    <1>4. new = IF noted.status = "pending" THEN moved ELSE noted
        BY DEF deferJobRow
    <1> HIDE DEF noted, new
    <1>5. /\ moved.handler = noted.handler /\ moved.kind = noted.kind
          /\ moved.version = noted.version /\ moved.deferredSince = noted.deferredSince
          /\ moved.status = noted.status /\ moved.scheduledFor = at
        BY <1>3 DEF Job
    <1> HIDE DEF moved
    <1>6. MissOf(job, new, t) /\ (new.status = "pending" => new.scheduledFor = at)
        BY <1>2, <1>4, <1>5 DEF MissOf
    <1>7. QED
        BY <1>1, <1>6 DEF new

-----------------------------------------------------------------------------
(* Turns. *)

FleetBase ==
    /\ FleetTypeOK /\ TableInv /\ FleetRows /\ MissesDated
    /\ SteadyReplicas /\ ListingsHold
FleetInv == FleetBase /\ TurnsTaken

\* The fields of a row that counts.
LEMMA FleetRow ==
    ASSUME FleetBase, NEW id \in JobId, Present(id)
    PROVE  /\ jobs[id] \in Job /\ RowFits(jobs[id]) /\ jobs[id].kind = "once"
           /\ jobs[id].scheduledFor \in Nat /\ jobs[id].deferredSince \in Nat \cup {None}
           /\ jobs[id].version \in Nat /\ now \in Nat
           /\ jobs[id].deferredSince # None =>
                 jobs[id].deferredSince \in Nat /\ jobs[id].deferredSince <= now
    <1>1. jobs[id] \in Job /\ RowFits(jobs[id])
        BY PresentRow DEF FleetBase
    <1>2. jobs[id].kind = "once" /\ now \in Nat
        BY DEF FleetBase, FleetRows, FleetTypeOK, Time
    <1>3. /\ jobs[id].scheduledFor \in Nat /\ jobs[id].deferredSince \in Nat \cup {None}
          /\ jobs[id].version \in Nat
        BY <1>1 DEF Job, Time, TimeOrNull
    <1>4. jobs[id].deferredSince # None => jobs[id].deferredSince <= now
        BY DEF FleetBase, MissesDated
    <1>5. QED
        BY <1>1, <1>2, <1>3, <1>4

\* Sets of rows are finite.
LEMMA RowSets ==
    ASSUME NEW S, S \subseteq JobId
    PROVE  /\ IsFiniteSet(S) /\ Cardinality(S) \in Nat
           /\ \A T \in SUBSET S : Cardinality(T) <= Cardinality(S)
    <1>1. S \in SUBSET JobId /\ IsFiniteSet(JobId)
        BY MissingAssumption
    <1>2. IsFiniteSet(S)
        BY <1>1, FS_Subset
    <1>3. \A T \in SUBSET S : Cardinality(T) <= Cardinality(S)
        BY <1>2, FS_Subset
    <1>4. QED
        BY <1>2, <1>3, FS_CardinalityType

LEMMA Scaling ==
    ASSUME NEW b \in Nat, NEW x \in Int
    PROVE  /\ b * x \in Int
           /\ b * (x + 1) = b * x + b
           /\ x <= 0 => b * x <= 0
    OBVIOUS

\* Where a row that waits stands.
Placed(r, id) ==
    /\ now \in Nat /\ steady[r] \in Nat /\ steady[r] <= now
    /\ Since(r, id) \in Nat /\ From(r, id) \in Int
    /\ Since(r, id) <= From(r, id)
    /\ steady[r] <= Since(r, id) /\ jobs[id].scheduledFor <= Since(r, id)
    /\ Behind(r, id) \subseteq JobId \ {id} /\ Listed(r) \subseteq JobId
Places == \A r \in Replica : \A id \in JobId : Waiting(r, id) => Placed(r, id)

LEMMA PlacesHold == FleetBase => Places
    <1> SUFFICES ASSUME FleetBase, NEW r \in Replica, NEW id \in JobId, Waiting(r, id)
                 PROVE  Placed(r, id)
        BY DEF Places
    <1>1. /\ jobs[id].scheduledFor \in Nat /\ jobs[id].deferredSince \in Nat \cup {None}
          /\ now \in Nat
        BY FleetRow DEF Waiting
    <1>2. steady[r] \in Nat /\ steady[r] <= now
        BY DEF FleetBase, FleetTypeOK, SteadyReplicas, Time
    <1>3. horizonMs \in Nat
        BY MissingAssumption
    <1>4. /\ Since(r, id) \in Nat /\ steady[r] <= Since(r, id)
          /\ jobs[id].scheduledFor <= Since(r, id)
        BY <1>1, <1>2 DEF Since
    <1>5. jobs[id].deferredSince # None => Expiry(id) \in Int
        BY <1>1, <1>3 DEF Expiry
    <1>6. From(r, id) \in Int /\ Since(r, id) <= From(r, id)
        BY <1>4, <1>5 DEF From
    <1>7. Behind(r, id) \subseteq JobId \ {id}
        <2>1. id \notin Behind(r, id)
            BY <1>1 DEF Behind, Waiting
        <2>2. QED
            BY <2>1 DEF Behind
    <1>8. QED
        BY <1>1, <1>2, <1>4, <1>6, <1>7 DEF Listed, Placed

\* A row whose counting begins no earlier than now owes nothing yet.
LEMMA LateTurn ==
    ASSUME NEW r \in Replica, NEW id \in JobId, Placed(r, id)', From(r, id)' >= now'
    PROVE  Turn(r, id)'
    <1>1. /\ now' \in Nat /\ From(r, id)' \in Int /\ UNKNOWN_DUE_BUDGET \in Nat
          /\ Behind(r, id)' \subseteq JobId /\ Behind(r, id)' \cup Listed(r)' \subseteq JobId
        BY MissingAssumption DEF Placed
    <1>2. /\ UNKNOWN_DUE_BUDGET * (now' - 1 - From(r, id)') <= 0
          /\ UNKNOWN_DUE_BUDGET * (now' - From(r, id)') <= 0
          /\ UNKNOWN_DUE_BUDGET * (now' - 1 - From(r, id)') \in Int
          /\ UNKNOWN_DUE_BUDGET * (now' - From(r, id)') \in Int
        BY <1>1, Scaling
    <1>3. /\ Cardinality(Behind(r, id)') \in Nat
          /\ Cardinality(Behind(r, id)' \cup Listed(r)') \in Nat
        BY <1>1, RowSets
    <1>4. QED
        BY <1>2, <1>3 DEF Turn

\* A step that takes nothing from those that have had their turn.
LEMMA KeptTurn ==
    ASSUME FleetInv, NEW r \in Replica, NEW id \in JobId, Waiting(r, id),
           Placed(r, id), Placed(r, id)', now' = now, From(r, id)' = From(r, id),
           Behind(r, id) \subseteq Behind(r, id)',
           r \in swept' /\ id \notin Listed(r)' =>
              /\ r \in swept /\ id \notin Listed(r)
              /\ Listed(r) \subseteq Behind(r, id)' \cup Listed(r)'
    PROVE  Turn(r, id)'
    <1>1. Turn(r, id)
        BY DEF FleetInv, TurnsTaken
    <1>2. /\ now \in Nat /\ From(r, id) \in Int /\ UNKNOWN_DUE_BUDGET \in Nat
          /\ Behind(r, id)' \subseteq JobId /\ Behind(r, id)' \cup Listed(r)' \subseteq JobId
          /\ Behind(r, id) \subseteq JobId /\ Behind(r, id) \cup Listed(r) \subseteq JobId
        BY MissingAssumption DEF Placed
    <1> DEFINE spent == UNKNOWN_DUE_BUDGET * (now - 1 - From(r, id))
               due == UNKNOWN_DUE_BUDGET * (now - From(r, id))
    <1>3. spent \in Int /\ due \in Int
        BY <1>2, Scaling
    <1>4. spent' = spent /\ due' = due
        OBVIOUS
    <1>5. /\ spent <= Cardinality(Behind(r, id))
          /\ r \in swept /\ id \notin Listed(r) =>
                due <= Cardinality(Behind(r, id) \cup Listed(r))
        BY <1>1 DEF Turn
    <1>6. /\ Cardinality(Behind(r, id)) <= Cardinality(Behind(r, id)')
          /\ Cardinality(Behind(r, id)) \in Nat /\ Cardinality(Behind(r, id)') \in Nat
        BY <1>2, RowSets
    <1>7. ASSUME r \in swept', id \notin Listed(r)'
          PROVE  due <= Cardinality(Behind(r, id)' \cup Listed(r)')
        <2>1. Behind(r, id) \cup Listed(r) \in SUBSET (Behind(r, id)' \cup Listed(r)')
            BY <1>7
        <2>2. /\ Cardinality(Behind(r, id) \cup Listed(r))
                 <= Cardinality(Behind(r, id)' \cup Listed(r)')
              /\ Cardinality(Behind(r, id) \cup Listed(r)) \in Nat
              /\ Cardinality(Behind(r, id)' \cup Listed(r)') \in Nat
            BY <1>2, <2>1, RowSets
        <2>3. QED
            BY <1>3, <1>5, <1>7, <2>2
    <1> HIDE DEF spent, due
    <1>8. spent <= Cardinality(Behind(r, id)')
        BY <1>3, <1>5, <1>6
    <1>9. QED
        BY <1>7, <1>8, <1>4 DEF Turn, spent, due

LEMMA LateClock ==
    ASSUME NEW r \in Replica, NEW id \in JobId, Placed(r, id)',
           jobs'[id].deferredSince # None =>
              jobs'[id].deferredSince \in Nat /\ jobs'[id].deferredSince <= Since(r, id)'
    PROVE  ClockStarts(r, id)'
    <1> SUFFICES ASSUME jobs'[id].deferredSince # None
                 PROVE  UNKNOWN_DUE_BUDGET * (jobs'[id].deferredSince - 1 - Since(r, id)')
                        <= Cardinality(JobId) - 1
        BY DEF ClockStarts
    <1>1. /\ jobs'[id].deferredSince \in Nat /\ Since(r, id)' \in Nat
          /\ jobs'[id].deferredSince <= Since(r, id)' /\ UNKNOWN_DUE_BUDGET \in Nat
        BY MissingAssumption DEF Placed
    <1>2. /\ UNKNOWN_DUE_BUDGET * (jobs'[id].deferredSince - 1 - Since(r, id)') <= 0
          /\ UNKNOWN_DUE_BUDGET * (jobs'[id].deferredSince - 1 - Since(r, id)') \in Int
        BY <1>1, Scaling
    <1>3. Cardinality(JobId) \in Nat /\ Cardinality(JobId) >= 1
        <2>1. Cardinality(JobId \ {id}) \in Nat /\ Cardinality(JobId) \in Nat
            BY RowSets
        <2>2. Cardinality(JobId \ {id}) = Cardinality(JobId) - 1
            BY MissingAssumption, FS_RemoveElement
        <2>3. QED
            BY <2>1, <2>2
    <1>4. QED
        BY <1>2, <1>3

LEMMA KeptClock ==
    ASSUME FleetInv, NEW r \in Replica, NEW id \in JobId, Waiting(r, id),
           jobs'[id].deferredSince = jobs[id].deferredSince, Since(r, id)' = Since(r, id)
    PROVE  ClockStarts(r, id)'
    <1>1. ClockStarts(r, id)
        BY DEF FleetInv, TurnsTaken
    <1>2. QED
        BY <1>1 DEF ClockStarts

\* A step that leaves a row and its replica alone leaves the count where it was.
LEMMA SameRow ==
    ASSUME NEW r \in Replica, NEW id \in JobId, jobs'[id] = jobs[id],
           known'[r] = known[r], steady'[r] = steady[r]
    PROVE  /\ Waiting(r, id)' <=> Waiting(r, id)
           /\ Since(r, id)' = Since(r, id) /\ From(r, id)' = From(r, id)
           /\ jobs'[id].deferredSince = jobs[id].deferredSince
    BY DEF Waiting, Present, Since, From, Expiry

LEMMA BehindKept ==
    ASSUME NEW r \in Replica, NEW id \in JobId, jobs'[id] = jobs[id], known'[r] = known[r],
           \A other \in Behind(r, id) : jobs'[other] = jobs[other]
    PROVE  Behind(r, id) \subseteq Behind(r, id)'
    BY DEF Behind, Present

\* The row and its place both as they were, and nobody ahead of it comes back.
LEMMA SameTurn ==
    ASSUME FleetInv, NEW r \in Replica, NEW id \in JobId, Waiting(r, id)', Placed(r, id)',
           now' = now, jobs'[id] = jobs[id], known'[r] = known[r], steady'[r] = steady[r],
           \A other \in Behind(r, id) : jobs'[other] = jobs[other],
           orphans'[r] = orphans[r], r \in swept' => r \in swept
    PROVE  Turn(r, id)' /\ ClockStarts(r, id)'
    <1>1. /\ Waiting(r, id) /\ Since(r, id)' = Since(r, id) /\ From(r, id)' = From(r, id)
          /\ jobs'[id].deferredSince = jobs[id].deferredSince
        BY SameRow
    <1>2. Behind(r, id) \subseteq Behind(r, id)'
        BY BehindKept
    <1>3. Listed(r)' = Listed(r)
        BY DEF Listed
    <1>4. Placed(r, id)
        BY <1>1, PlacesHold DEF Places, FleetInv
    <1>5. Turn(r, id)'
        BY <1>1, <1>2, <1>3, <1>4, KeptTurn
    <1>6. ClockStarts(r, id)'
        BY <1>1, KeptClock
    <1>7. QED
        BY <1>5, <1>6

\* Steps that write no row and move no clock.
LEMMA RowsStay ==
    ASSUME FleetBase, UNCHANGED <<jobs, issued, now, known, touched, steady>>
    PROVE  TableInv' /\ FleetRows' /\ MissesDated' /\ SteadyReplicas'
    <1>1. TableInv'
        BY RowsUntouchedInv DEF FleetBase, FleetTypeOK
    <1>2. FleetRows' /\ MissesDated'
        BY DEF FleetBase, FleetRows, MissesDated, Present
    <1>3. SteadyReplicas'
        BY DEF FleetBase, SteadyReplicas, Complete, Present
    <1>4. QED
        BY <1>1, <1>2, <1>3

-----------------------------------------------------------------------------
(* The sweep lists rows. *)

\* A row that is passed over is so for as many rows as the budget, none of which
\* has had its turn.
LEMMA PassedOver ==
    ASSUME FleetInv, NEW r \in Replica, NEW id \in JobId, Waiting(r, id), From(r, id) < now,
           NEW ids \in unknownDueJobs(known[r], UNKNOWN_DUE_BUDGET), id \notin ids
    PROVE  Cardinality(ids) = UNKNOWN_DUE_BUDGET /\ ids \cap Behind(r, id) = {}
    <1> DEFINE due == OrphansOf(known[r])
    <1>1. ids \subseteq due /\ Cardinality(ids) = Least(UNKNOWN_DUE_BUDGET, Cardinality(due))
        BY DEF unknownDueJobs
    <1>2. \A other \in ids : \A late \in due \ ids : ~ ListedBefore(jobs[late], jobs[other])
        BY DEF unknownDueJobs
    <1>3. due \subseteq JobId
        BY DEF OrphansOf
    <1>4. id \in due
        <2>1. /\ Present(id) /\ jobs[id].status = "pending" /\ jobs[id].handler \notin known[r]
              /\ jobs[id].kind = "once" /\ jobs[id].scheduledFor \in Nat
            BY FleetRow DEF Waiting, FleetInv
        <2>2. jobs[id].scheduledFor <= now
            <3>1. Placed(r, id)
                BY PlacesHold DEF Places, FleetInv
            <3>2. QED
                BY <2>1, <3>1 DEF Placed
        <2>3. IsDue(jobs[id], now) /\ isDebounceSettled(jobs[id], now)
            BY <2>1, <2>2 DEF IsDue, isDebounceSettled
        <2>4. QED
            BY <2>1, <2>3 DEF OrphansOf
    <1> HIDE DEF due
    <1>5. Cardinality(ids) = UNKNOWN_DUE_BUDGET
        <2>1. IsFiniteSet(due) /\ Cardinality(due) \in Nat /\ UNKNOWN_DUE_BUDGET \in Nat
            BY <1>3, RowSets, MissingAssumption
        <2>2. ids # due
            BY <1>4
        <2>3. Cardinality(ids) # Cardinality(due)
            BY <1>1, <2>1, <2>2, FS_Subset
        <2>4. QED
            BY <1>1, <2>1, <2>3 DEF Least
    <1>6. ASSUME NEW other \in ids, other \in Behind(r, id) PROVE FALSE
        <2>1. ~ ListedBefore(jobs[id], jobs[other])
            BY <1>2, <1>4
        <2>2. jobs[other].status = "pending" /\ other \in JobId /\ Present(other)
            BY <1>1, <1>6 DEF due, OrphansOf, IsDue
        <2>3. /\ jobs[other].deferredSince # None
              /\ \/ jobs[id].deferredSince = None
                 \/ jobs[other].deferredSince > jobs[id].deferredSince
            BY <1>6, <2>2 DEF Behind
        <2>4. /\ jobs[other].deferredSince \in Nat
              /\ jobs[id].deferredSince # None => jobs[id].deferredSince \in Nat
            BY <2>2, <2>3, FleetRow DEF FleetInv, Waiting
        <2>5. ListedBefore(jobs[id], jobs[other])
            BY <2>3, <2>4 DEF ListedBefore
        <2>6. QED
            BY <2>1, <2>5
    <1>7. QED
        BY <1>5, <1>6

LEMMA ListingTurn ==
    ASSUME FleetInv, NEW r \in Replica, NEW id \in JobId, Waiting(r, id), Placed(r, id)',
           NEW ids \in unknownDueJobs(known[r], UNKNOWN_DUE_BUDGET), Listed(r)' = ids,
           UNCHANGED <<jobs, now, known, steady>>
    PROVE  Turn(r, id)'
    <1>1. /\ Since(r, id)' = Since(r, id) /\ From(r, id)' = From(r, id)
          /\ Behind(r, id)' = Behind(r, id)
        BY DEF Since, From, Expiry, Behind, Present
    <1>2. Placed(r, id) /\ Turn(r, id)
        BY PlacesHold DEF Places, FleetInv, TurnsTaken
    <1>3. CASE From(r, id) >= now
        BY <1>1, <1>3, LateTurn
    <1>4. CASE From(r, id) < now
        <2>1. UNKNOWN_DUE_BUDGET * (now - 1 - From(r, id)) <= Cardinality(Behind(r, id))
            BY <1>2 DEF Turn
        <2>2. ASSUME id \notin ids
              PROVE  UNKNOWN_DUE_BUDGET * (now - From(r, id))
                     <= Cardinality(Behind(r, id) \cup ids)
            <3>1. Cardinality(ids) = UNKNOWN_DUE_BUDGET /\ ids \cap Behind(r, id) = {}
                BY <1>4, <2>2, PassedOver
            <3>2. ids \subseteq JobId /\ Behind(r, id) \subseteq JobId
                BY <1>2 DEF unknownDueJobs, OrphansOf, Placed
            <3>3. Cardinality(Behind(r, id) \cup ids)
                  = Cardinality(Behind(r, id)) + Cardinality(ids)
                <4>1. IsFiniteSet(ids) /\ IsFiniteSet(Behind(r, id))
                    BY <3>2, RowSets
                <4>2. Behind(r, id) \cap ids = {}
                    BY <3>1
                <4>3. /\ Cardinality(ids) \in Nat /\ Cardinality(Behind(r, id)) \in Nat
                    BY <3>2, RowSets
                <4>4. Cardinality(Behind(r, id) \cup ids)
                      = Cardinality(Behind(r, id)) + Cardinality(ids) - Cardinality({})
                    BY <4>1, <4>2, FS_Union
                <4>5. QED
                    BY <4>3, <4>4, FS_EmptySet
            <3>4. UNKNOWN_DUE_BUDGET \in Nat /\ now \in Nat /\ From(r, id) \in Int
                BY <1>2, MissingAssumption DEF Placed
            <3>5. UNKNOWN_DUE_BUDGET * (now - From(r, id))
                  = UNKNOWN_DUE_BUDGET * (now - 1 - From(r, id)) + UNKNOWN_DUE_BUDGET
                <4>1. now - From(r, id) = (now - 1 - From(r, id)) + 1
                    BY <3>4
                <4>2. QED
                    BY <3>4, <4>1, Scaling
            <3>6. UNKNOWN_DUE_BUDGET * (now - 1 - From(r, id)) \in Int
                BY <3>4, Scaling
            <3>7. Cardinality(Behind(r, id)) \in Nat
                BY <3>2, RowSets
            <3>8. QED
                BY <2>1, <3>1, <3>3, <3>4, <3>5, <3>6, <3>7
        <2>3. QED
            BY <1>1, <2>1, <2>2 DEF Turn
    <1>5. QED
        BY <1>2, <1>3, <1>4 DEF Placed

LEMMA SweepInv ==
    ASSUME FleetInv, NEW r \in Replica, sweepStalled(r)
    PROVE  FleetInv'
    <1>1. PICK ids \in unknownDueJobs(known[r], UNKNOWN_DUE_BUDGET) :
             orphans' = [orphans EXCEPT ![r] = {<<id, jobs[id].version>> : id \in ids}]
        BY DEF sweepStalled
    <1>2. /\ swept' = swept \cup {r} /\ r \notin swept
          /\ UNCHANGED <<jobs, issued, now, known, defers, touched, steady>>
        BY DEF sweepStalled, tableVars
    <1>3. /\ ids \subseteq JobId
          /\ \A id \in ids : /\ Present(id) /\ jobs[id].status = "pending"
                             /\ jobs[id].handler \notin known[r] /\ jobs[id].version \in Nat
        <2>1. ids \subseteq OrphansOf(known[r])
            BY DEF unknownDueJobs
        <2>2. QED
            BY <2>1, FleetRow DEF OrphansOf, IsDue, FleetInv
    <1> DEFINE listing == {<<id, jobs[id].version>> : id \in ids}
    <1>4. listing \in SUBSET Snapshot
        BY <1>3 DEF Snapshot
    <1>5. \A pair \in listing :
             /\ Present(pair[1]) /\ jobs[pair[1]].status = "pending"
             /\ jobs[pair[1]].handler \notin known[r]
             /\ jobs[pair[1]].version = pair[2]
        BY <1>3
    <1>6. \A id \in JobId : id \in ids <=> \E version \in Nat : <<id, version>> \in listing
        BY <1>3
    <1>7. orphans \in [Replica -> SUBSET Snapshot]
        BY DEF FleetInv, FleetBase, FleetTypeOK
    <1> HIDE DEF listing
    <1>8. /\ orphans'[r] = listing /\ orphans' \in [Replica -> SUBSET Snapshot]
          /\ \A q \in Replica \ {r} : orphans'[q] = orphans[q]
        BY <1>1, <1>4, <1>7 DEF listing
    <1>9. FleetTypeOK'
        BY <1>2, <1>8 DEF FleetInv, FleetBase, FleetTypeOK
    <1>10. TableInv' /\ FleetRows' /\ MissesDated' /\ SteadyReplicas'
        BY <1>2, RowsStay DEF FleetInv
    <1>11. ListingsHold'
        <2>1. \A q \in Replica : \A pair \in orphans[q] :
                 /\ q \in swept
                 /\ steady[q] < now =>
                       /\ Present(pair[1]) /\ jobs[pair[1]].handler \notin known[q]
                       /\ \/ jobs[pair[1]].status = "pending" /\ jobs[pair[1]].version = pair[2]
                          \/ Missed(pair[1])
            BY DEF FleetInv, FleetBase, ListingsHold
        <2>2. QED
            BY <1>2, <1>5, <1>8, <2>1 DEF ListingsHold, Present, Missed
    <1>12. FleetBase'
        BY <1>9, <1>10, <1>11 DEF FleetBase
    <1>13. (FleetBase => Places)'
        BY PlacesHold, PTL
    <1>14. ASSUME NEW q \in Replica, NEW id \in JobId, Waiting(q, id)'
           PROVE  Turn(q, id)' /\ ClockStarts(q, id)'
        <2>1. Placed(q, id)' /\ Waiting(q, id)
            BY <1>2, <1>12, <1>13, <1>14 DEF Places, Waiting, Present
        <2>2. CASE q = r
            <3>1. Listed(r)' = ids
                BY <1>3, <1>6, <1>8 DEF Listed
            <3>2. Turn(r, id)'
                BY <1>2, <2>1, <2>2, <3>1, ListingTurn
            <3>3. ClockStarts(r, id)'
                BY <1>2, <2>1, <2>2, SameRow, KeptClock
            <3>4. QED
                BY <2>2, <3>2, <3>3
        <2>3. CASE q # r
            BY <1>2, <1>8, <1>14, <2>1, <2>3, SameTurn
        <2>4. QED
            BY <2>2, <2>3
    <1>15. QED
        BY <1>12, <1>14 DEF FleetInv, TurnsTaken

-----------------------------------------------------------------------------
(* Rows are noted, by a sweep or by a delivery. *)

\* A row that was noted within the last horizon has had its turn before any row
\* whose own horizon is over.
LEMMA MissedIsBehind ==
    ASSUME NEW r \in Replica, NEW id \in JobId, NEW other \in JobId,
           Placed(r, id)', From(r, id)' < now',
           jobs'[id].deferredSince \in Nat \cup {None},
           jobs'[other].deferredSince \in Nat \cup {None},
           Present(other)', jobs'[other].handler \notin known'[r], Missed(other)'
    PROVE  other \in Behind(r, id)'
    <1>1. now' \in Nat /\ From(r, id)' \in Int /\ Since(r, id)' \in Nat /\ horizonMs \in Nat
        BY MissingAssumption DEF Placed
    <1>2. CASE jobs'[other].status = "failed"
        BY <1>2 DEF Behind
    <1>3. CASE jobs'[other].deferredSince # None /\ now' - jobs'[other].deferredSince < horizonMs
        <2>1. CASE jobs'[id].deferredSince = None
            BY <1>3, <2>1 DEF Behind
        <2>2. CASE jobs'[id].deferredSince # None
            <3>1. jobs'[id].deferredSince + horizonMs - 1 <= From(r, id)'
                BY <1>1, <2>2 DEF From, Expiry
            <3>2. jobs'[other].deferredSince > jobs'[id].deferredSince
                BY <1>1, <1>3, <2>2, <3>1
            <3>3. QED
                BY <1>3, <3>2 DEF Behind
        <2>3. QED
            BY <2>1, <2>2
    <1>4. QED
        BY <1>2, <1>3 DEF Missed

\* The step of one row that is noted.
MissStep(x, new) ==
    /\ Present(x) /\ jobs[x].status = "pending"
    /\ Keeps(jobs[x], new) /\ MissOf(jobs[x], new, now)
    /\ new.status = "pending" => \/ new.scheduledFor = jobs[x].scheduledFor
                                 \/ new.scheduledFor >= now
    /\ Update(x, new)
    /\ UNCHANGED <<known, swept, touched, steady>>
    /\ \A r \in Replica :
          /\ orphans'[r] \subseteq orphans[r]
          /\ \A pair \in orphans[r] : pair \in orphans'[r] \/ pair[1] = x

LEMMA MissBase ==
    ASSUME FleetInv, FleetTypeOK', NEW x \in JobId, NEW new, MissStep(x, new)
    PROVE  /\ FleetBase'
           /\ jobs'[x] = new /\ \A id \in JobId \ {x} : jobs'[id] = jobs[id]
           /\ now' = now /\ now \in Nat
           /\ Present(x)' /\ Missed(x)'
           /\ jobs'[x].handler = jobs[x].handler
           /\ jobs'[x].deferredSince = FirstDefer(jobs[x], now)
           /\ FirstDefer(jobs[x], now) \in Nat
           /\ jobs'[x].status = "pending" => now - FirstDefer(jobs[x], now) < horizonMs
           /\ jobs'[x].status \in {"pending", "failed"}
    <1>1. /\ jobs' = [jobs EXCEPT ![x] = new] /\ issued' = issued /\ now' = now
          /\ UNCHANGED <<known, swept, touched, steady>>
        BY DEF MissStep, Update
    <1>2. jobs \in [JobId -> Job \cup {None}] /\ now \in Nat
        BY DEF FleetInv, FleetBase, FleetTypeOK, Time
    <1>3. jobs'[x] = new /\ \A id \in JobId \ {x} : jobs'[id] = jobs[id]
        BY <1>1, <1>2
    <1>4. /\ new \in Job /\ new.handler = jobs[x].handler /\ new.kind = jobs[x].kind
          /\ new.deferredSince = FirstDefer(jobs[x], now)
          /\ new.status \in {"pending", "failed"}
          /\ new.status = "pending" => now - FirstDefer(jobs[x], now) < horizonMs
        BY DEF MissStep, Keeps, MissOf
    <1>5. Present(x) /\ new # None
        BY <1>4, MissingAssumption DEF MissStep
    <1>6. /\ jobs[x].deferredSince # None =>
                /\ jobs[x].deferredSince \in Nat /\ jobs[x].deferredSince <= now
                /\ touched[x] <= jobs[x].deferredSince
          /\ touched[x] <= now
        BY <1>5, FleetRow DEF FleetInv, FleetBase, MissesDated
    <1>7. /\ FirstDefer(jobs[x], now) \in Nat /\ FirstDefer(jobs[x], now) <= now
          /\ touched[x] <= FirstDefer(jobs[x], now)
        BY <1>2, <1>6 DEF FirstDefer
    <1>8. Present(x)' /\ Missed(x)'
        <2>1. new.deferredSince # None
            BY <1>4, <1>7, NoneAssumption
        <2>2. QED
            BY <1>1, <1>3, <1>4, <1>5, <2>1 DEF Present, Missed
    <1>9. TableInv'
        BY <1>5, UpdateInv DEF MissStep, FleetInv, FleetBase
    <1>10. FleetRows'
        BY <1>1, <1>3, <1>4, <1>5 DEF FleetInv, FleetBase, FleetRows, Present
    <1>11. MissesDated'
        BY <1>1, <1>3, <1>4, <1>7 DEF FleetInv, FleetBase, MissesDated, Present
    <1>12. SteadyReplicas'
        BY <1>1, <1>3, <1>4 DEF FleetInv, FleetBase, SteadyReplicas, Complete, Present
    <1>13. ListingsHold'
        <2> SUFFICES ASSUME NEW r \in Replica, NEW pair \in orphans'[r]
                     PROVE  /\ r \in swept'
                            /\ steady'[r] < now' =>
                                  /\ Present(pair[1])' /\ jobs'[pair[1]].handler \notin known'[r]
                                  /\ \/ /\ jobs'[pair[1]].status = "pending"
                                        /\ jobs'[pair[1]].version = pair[2]
                                     \/ Missed(pair[1])'
            BY DEF ListingsHold
        <2>1. pair \in orphans[r]
            BY DEF MissStep
        <2>2. pair[1] \in JobId
            BY <2>1 DEF FleetInv, FleetBase, FleetTypeOK, Snapshot
        <2>3. /\ r \in swept
              /\ steady[r] < now =>
                    /\ Present(pair[1]) /\ jobs[pair[1]].handler \notin known[r]
                    /\ \/ jobs[pair[1]].status = "pending" /\ jobs[pair[1]].version = pair[2]
                       \/ Missed(pair[1])
            BY <2>1 DEF FleetInv, FleetBase, ListingsHold
        <2>4. CASE pair[1] = x
            BY <1>1, <1>3, <1>4, <1>8, <2>3, <2>4
        <2>5. CASE pair[1] # x
            BY <1>1, <1>3, <2>2, <2>3, <2>5 DEF Present, Missed
        <2>6. QED
            BY <2>4, <2>5
    <1>14. FleetBase'
        BY <1>9, <1>10, <1>11, <1>12, <1>13 DEF FleetBase
    <1>15. QED
        BY <1>1, <1>2, <1>3, <1>4, <1>7, <1>8, <1>14

\* The row that was noted: its horizon starts or goes on.
LEMMA NotedTurn ==
    ASSUME FleetInv, FleetTypeOK', NEW x \in JobId, NEW new, MissStep(x, new),
           NEW r \in Replica, Waiting(r, x)', Placed(r, x)'
    PROVE  Turn(r, x)' /\ ClockStarts(r, x)'
    <1>1. /\ jobs'[x] = new /\ now' = now /\ now \in Nat
          /\ jobs'[x].handler = jobs[x].handler
          /\ jobs'[x].deferredSince = FirstDefer(jobs[x], now)
          /\ FirstDefer(jobs[x], now) \in Nat
          /\ jobs'[x].status = "pending" => now - FirstDefer(jobs[x], now) < horizonMs
        BY MissBase
    <1>2. /\ Present(x) /\ jobs[x].status = "pending"
          /\ known'[r] = known[r] /\ steady'[r] = steady[r]
          /\ \/ new.scheduledFor = jobs[x].scheduledFor
             \/ new.scheduledFor >= now
        BY <1>1 DEF MissStep, Waiting
    <1>3. Waiting(r, x)
        BY <1>1, <1>2 DEF Waiting
    <1>4. /\ now - FirstDefer(jobs[x], now) < horizonMs /\ horizonMs \in Nat
          /\ jobs'[x].deferredSince \in Nat /\ jobs'[x].deferredSince # None
          /\ FirstDefer(jobs[x], now) <= now
        <2>1. FirstDefer(jobs[x], now) <= now
            BY <1>1, <1>2, FleetRow DEF FleetInv, FirstDefer
        <2>2. QED
            BY <1>1, <2>1, MissingAssumption, NoneAssumption DEF Waiting
    <1>5. From(r, x)' >= now'
        <2>1. Expiry(x)' = FirstDefer(jobs[x], now) + horizonMs - 1
            BY <1>1 DEF Expiry
        <2>2. From(r, x)' >= Expiry(x)'
            BY <1>4, <2>1 DEF From, Placed
        <2>3. From(r, x)' \in Int
            BY DEF Placed
        <2>4. QED
            BY <1>1, <1>4, <2>1, <2>2, <2>3
    <1>6. Turn(r, x)'
        BY <1>5, LateTurn
    <1>7. CASE new.scheduledFor >= now
        <2>1. Since(r, x)' >= now /\ Since(r, x)' \in Nat
            <3>1. new.scheduledFor \in Nat
                BY DEF MissStep, Keeps, Job, Time
            <3>2. Since(r, x)' \in Nat /\ new.scheduledFor <= Since(r, x)'
                BY <1>1 DEF Placed
            <3>3. QED
                BY <1>1, <1>7, <3>1, <3>2
        <2>2. jobs'[x].deferredSince <= Since(r, x)'
            BY <1>1, <1>4, <2>1
        <2>3. QED
            BY <1>4, <1>6, <2>2, LateClock
    <1>8. CASE new.scheduledFor = jobs[x].scheduledFor
        <2>1. Since(r, x)' = Since(r, x)
            BY <1>1, <1>2, <1>8 DEF Since
        <2>2. CASE jobs[x].deferredSince # None
            <3>1. jobs'[x].deferredSince = jobs[x].deferredSince
                BY <1>1, <2>2 DEF FirstDefer
            <3>2. QED
                BY <1>3, <1>6, <2>1, <3>1, KeptClock
        <2>3. CASE jobs[x].deferredSince = None
            <3>1. jobs'[x].deferredSince = now /\ From(r, x) = Since(r, x)
                BY <1>1, <2>3 DEF FirstDefer, From
            <3>2. Placed(r, x) /\ Turn(r, x)
                BY <1>3, PlacesHold DEF Places, FleetInv, TurnsTaken
            <3>3. UNKNOWN_DUE_BUDGET * (now - 1 - Since(r, x)) <= Cardinality(Behind(r, x))
                BY <3>1, <3>2 DEF Turn
            <3>4. Behind(r, x) \in SUBSET (JobId \ {x})
                BY <3>2 DEF Placed
            <3>5. /\ Cardinality(Behind(r, x)) <= Cardinality(JobId \ {x})
                  /\ Cardinality(Behind(r, x)) \in Nat
                  /\ Cardinality(JobId \ {x}) \in Nat
                BY <3>4, RowSets
            <3>6. Cardinality(JobId \ {x}) = Cardinality(JobId) - 1
                BY MissingAssumption, FS_RemoveElement
            <3>7. UNKNOWN_DUE_BUDGET * (now - 1 - Since(r, x)) \in Int
                BY <3>2, MissingAssumption, Scaling DEF Placed
            <3>8. Cardinality(JobId) \in Nat
                BY RowSets
            <3>9. ClockStarts(r, x)'
                BY <2>1, <3>1, <3>3, <3>5, <3>6, <3>7, <3>8 DEF ClockStarts
            <3>10. QED
                BY <1>6, <3>9
        <2>4. QED
            BY <2>2, <2>3
    <1>9. QED
        BY <1>2, <1>7, <1>8

\* The others keep their place.
LEMMA OthersTurn ==
    ASSUME FleetInv, FleetTypeOK', NEW x \in JobId, NEW new, MissStep(x, new),
           NEW r \in Replica, NEW id \in JobId \ {x}, Waiting(r, id)', Placed(r, id)'
    PROVE  Turn(r, id)' /\ ClockStarts(r, id)'
    <1>1. /\ \A other \in JobId \ {x} : jobs'[other] = jobs[other]
          /\ now' = now /\ now \in Nat /\ Present(x)' /\ Missed(x)'
          /\ jobs'[x].handler = jobs[x].handler
          /\ jobs'[x].deferredSince = FirstDefer(jobs[x], now)
          /\ FirstDefer(jobs[x], now) \in Nat
        BY MissBase
    <1>2. /\ known'[r] = known[r] /\ steady'[r] = steady[r] /\ swept' = swept
          /\ orphans'[r] \subseteq orphans[r]
          /\ \A pair \in orphans[r] : pair \in orphans'[r] \/ pair[1] = x
          /\ Present(x) /\ jobs[x].status = "pending"
        BY DEF MissStep
    <1>3. /\ Waiting(r, id) /\ Since(r, id)' = Since(r, id) /\ From(r, id)' = From(r, id)
          /\ jobs'[id].deferredSince = jobs[id].deferredSince
        BY <1>1, <1>2, SameRow
    <1>4. Placed(r, id)
        BY <1>3, PlacesHold DEF Places, FleetInv
    <1>5. jobs[id].deferredSince \in Nat \cup {None}
        BY <1>3, FleetRow DEF FleetInv, Waiting
    <1>6. ClockStarts(r, id)'
        BY <1>3, KeptClock
    <1>7. CASE From(r, id)' >= now'
        BY <1>6, <1>7, LateTurn
    <1>8. CASE From(r, id)' < now'
        <2>1. Behind(r, id) \subseteq Behind(r, id)'
            <3> SUFFICES ASSUME NEW other \in Behind(r, id)
                         PROVE  other \in Behind(r, id)'
                OBVIOUS
            <3>1. CASE other # x
                BY <1>1, <1>2, <1>3, <3>1 DEF Behind, Present
            <3>2. CASE other = x
                <4>1. /\ jobs[x].handler \notin known[r] /\ jobs[x].deferredSince # None
                      /\ \/ jobs[id].deferredSince = None
                         \/ jobs[x].deferredSince > jobs[id].deferredSince
                    BY <1>2, <3>2 DEF Behind
                <4>2. jobs'[x].deferredSince = jobs[x].deferredSince
                    BY <1>1, <4>1 DEF FirstDefer
                <4>3. QED
                    BY <1>1, <1>2, <1>3, <3>2, <4>1, <4>2 DEF Behind
            <3>3. QED
                BY <3>1, <3>2
        <2>2. Listed(r)' \subseteq Listed(r) /\ Listed(r) \subseteq Listed(r)' \cup {x}
            BY <1>2 DEF Listed
        <2>3. ASSUME x \in Listed(r) PROVE x \in Behind(r, id)'
            <3>1. PICK version \in Nat : <<x, version>> \in orphans[r]
                BY <2>3 DEF Listed
            <3>2. steady[r] < now
                BY <1>1, <1>3, <1>4, <1>8 DEF Placed
            <3>3. jobs[x].handler \notin known[r]
                BY <3>1, <3>2 DEF FleetInv, FleetBase, ListingsHold
            <3>4. jobs'[x].deferredSince \in Nat \cup {None}
                BY <1>1
            <3>5. QED
                BY <1>1, <1>2, <1>3, <1>5, <1>8, <3>3, <3>4, MissedIsBehind
        <2>4. r \in swept' /\ id \notin Listed(r)' =>
                 /\ r \in swept /\ id \notin Listed(r)
                 /\ Listed(r) \subseteq Behind(r, id)' \cup Listed(r)'
            BY <1>2, <2>2, <2>3
        <2>5. Turn(r, id)'
            BY <1>1, <1>3, <1>4, <2>1, <2>4, KeptTurn
        <2>6. QED
            BY <1>6, <2>5
    <1>9. QED
        <2>1. now' \in Nat /\ From(r, id)' \in Int
            BY DEF Placed
        <2>2. QED
            BY <1>7, <1>8, <2>1

LEMMA MissInv ==
    ASSUME FleetInv, FleetTypeOK', NEW x \in JobId, NEW new, MissStep(x, new)
    PROVE  FleetInv'
    <1>1. FleetBase'
        BY MissBase
    <1>2. (FleetBase => Places)'
        BY PlacesHold, PTL
    <1>3. ASSUME NEW r \in Replica, NEW id \in JobId, Waiting(r, id)'
          PROVE  Turn(r, id)' /\ ClockStarts(r, id)'
        <2>1. Placed(r, id)'
            BY <1>1, <1>2, <1>3 DEF Places
        <2>2. QED
            BY <1>3, <2>1, NotedTurn, OthersTurn
    <1>4. QED
        BY <1>1, <1>3 DEF FleetInv, TurnsTaken

LEMMA RowWritten ==
    ASSUME FleetTypeOK, NEW x \in JobId, NEW new \in Job, Update(x, new)
    PROVE  jobs' \in [JobId -> Job \cup {None}] /\ now' \in Time
    BY DEF FleetTypeOK, Update

LEMMA HorizonInv ==
    ASSUME FleetInv, NEW r \in Replica, NEW id \in JobId, NEW version \in Nat,
           applyMissingHandlerHorizon(r, id, version)
    PROVE  FleetInv'
    <1>1. /\ <<id, version>> \in orphans[r]
          /\ orphans' = [orphans EXCEPT ![r] = @ \ {<<id, version>>}]
          /\ UNCHANGED <<known, swept, defers, touched, steady>>
        BY DEF applyMissingHandlerHorizon
    <1>2. orphans \in [Replica -> SUBSET Snapshot]
        BY DEF FleetInv, FleetBase, FleetTypeOK
    <1>3. /\ orphans'[r] = orphans[r] \ {<<id, version>>}
          /\ \A q \in Replica \ {r} : orphans'[q] = orphans[q]
        BY <1>1, <1>2
    <1>types. FleetTypeOK /\ orphans' \in [Replica -> SUBSET Snapshot]
        BY <1>1, <1>2 DEF FleetInv, FleetBase
    <1>4. CASE Present(id) /\ CanDeferJob(jobs[id], version)
        <2> DEFINE new == noteMissingHandlerRow(jobs[id], now, horizonMs)
        <2>1. noteMissingHandler(id)
            BY <1>4 DEF applyMissingHandlerHorizon
        <2>2. jobs[id] \in Job /\ RowFits(jobs[id]) /\ now \in Time
            BY <1>4, FleetRow DEF FleetInv, FleetBase, FleetTypeOK
        <2>3. jobs[id].status = "pending"
            BY <1>4 DEF CanDeferJob, IsPendingAt
        <2>4. /\ Keeps(jobs[id], new) /\ MissOf(jobs[id], new, now)
              /\ new.scheduledFor = jobs[id].scheduledFor
            BY <2>2, <2>3, NoteEffects
        <2>5. Update(id, new)
            BY <2>1 DEF noteMissingHandler
        <2> HIDE DEF new
        <2>6. \A q \in Replica :
                 /\ orphans'[q] \subseteq orphans[q]
                 /\ \A pair \in orphans[q] : pair \in orphans'[q] \/ pair[1] = id
            BY <1>3
        <2>7. MissStep(id, new)
            BY <1>1, <1>4, <2>3, <2>4, <2>5, <2>6 DEF MissStep
        <2>8. FleetTypeOK'
            BY <1>1, <1>types, <2>4, <2>5, RowWritten DEF Keeps, FleetTypeOK
        <2>9. QED
            BY <2>7, <2>8, MissInv
    <1>5. CASE ~ (Present(id) /\ CanDeferJob(jobs[id], version))
        <2>1. UNCHANGED <<jobs, issued, now>>
            BY <1>5 DEF applyMissingHandlerHorizon, tableVars
        <2>2. TableInv' /\ FleetRows' /\ MissesDated' /\ SteadyReplicas'
            BY <1>1, <2>1, RowsStay DEF FleetInv
        <2>3. ListingsHold'
            <3>1. \A q \in Replica : orphans'[q] \subseteq orphans[q]
                BY <1>3
            <3>2. QED
                BY <1>1, <2>1, <3>1 DEF FleetInv, FleetBase, ListingsHold, Missed, Present
        <2>types. FleetTypeOK'
            BY <1>1, <1>types, <2>1 DEF FleetTypeOK
        <2>4. FleetBase'
            BY <2>2, <2>3, <2>types DEF FleetBase
        <2>5. (FleetBase => Places)'
            BY PlacesHold, PTL
        <2>6. ASSUME steady[r] < now
              PROVE  Present(id) /\ jobs[id].handler \notin known[r] /\ Missed(id)
            <3>1. /\ Present(id) /\ jobs[id].handler \notin known[r]
                  /\ \/ jobs[id].status = "pending" /\ jobs[id].version = version
                     \/ Missed(id)
                BY <1>1, <2>6 DEF FleetInv, FleetBase, ListingsHold
            <3>2. ~ (jobs[id].status = "pending" /\ jobs[id].version = version)
                BY <1>5, <3>1 DEF CanDeferJob, IsPendingAt
            <3>3. QED
                BY <3>1, <3>2
        <2>7. ASSUME NEW q \in Replica, NEW other \in JobId, Waiting(q, other)'
              PROVE  Turn(q, other)' /\ ClockStarts(q, other)'
            <3>1. Placed(q, other)'
                BY <2>4, <2>5, <2>7 DEF Places
            <3>2. CASE q # r
                BY <1>1, <1>3, <2>1, <2>7, <3>1, <3>2, SameTurn
            <3>3. CASE q = r
                <4>1. /\ Waiting(r, other) /\ Since(r, other)' = Since(r, other)
                      /\ From(r, other)' = From(r, other)
                      /\ jobs'[other].deferredSince = jobs[other].deferredSince
                    BY <1>1, <2>1, <2>7, <3>3, SameRow
                <4>2. ClockStarts(r, other)'
                    BY <4>1, KeptClock
                <4>3. /\ Placed(r, other) /\ now \in Nat /\ now' = now
                      /\ steady[r] \in Nat /\ From(r, other) \in Int
                      /\ steady[r] <= From(r, other)
                    BY <2>1, <4>1, PlacesHold DEF Places, FleetInv, Placed
                <4>4. CASE From(r, other) >= now
                    BY <3>1, <3>3, <4>1, <4>2, <4>3, <4>4, LateTurn
                <4>5. CASE From(r, other) < now
                    <5>1. Present(id) /\ jobs[id].handler \notin known[r] /\ Missed(id)
                        BY <2>6, <4>3, <4>5
                    <5>2. /\ jobs[other].deferredSince \in Nat \cup {None}
                          /\ jobs[id].deferredSince \in Nat \cup {None}
                        BY <4>1, <5>1, FleetRow DEF FleetInv, Waiting
                    <5>3. id \in Behind(r, other)'
                        BY <1>1, <2>1, <3>1, <3>3, <4>1, <4>3, <4>5, <5>1, <5>2, MissedIsBehind
                           DEF Present, Missed
                    <5>4. Behind(r, other) \subseteq Behind(r, other)'
                        BY <1>1, <2>1 DEF Behind, Present
                    <5>5. Listed(r)' \subseteq Listed(r) /\ Listed(r) \subseteq Listed(r)' \cup {id}
                        BY <1>3 DEF Listed
                    <5>6. id # other
                        BY <3>1, <3>3, <5>3 DEF Placed
                    <5>7. r \in swept' /\ other \notin Listed(r)' =>
                             /\ r \in swept /\ other \notin Listed(r)
                             /\ Listed(r) \subseteq Behind(r, other)' \cup Listed(r)'
                        BY <1>1, <5>3, <5>5, <5>6
                    <5>8. Turn(r, other)'
                        BY <3>1, <3>3, <4>1, <4>3, <5>4, <5>7, KeptTurn
                    <5>9. QED
                        BY <3>3, <4>2, <5>8
                <4>6. QED
                    BY <4>3, <4>4, <4>5
            <3>4. QED
                BY <3>2, <3>3
        <2>8. QED
            BY <2>4, <2>7 DEF FleetInv, TurnsTaken
    <1>6. QED
        BY <1>4, <1>5

\* A step that writes no row, moves no clock and lists nothing.
LEMMA IdleInv ==
    ASSUME FleetInv, FleetTypeOK',
           UNCHANGED <<jobs, issued, now, known, orphans, swept, touched, steady>>
    PROVE  FleetInv'
    <1>1. TableInv' /\ FleetRows' /\ MissesDated' /\ SteadyReplicas'
        BY RowsStay DEF FleetInv
    <1>2. ListingsHold'
        BY DEF FleetInv, FleetBase, ListingsHold, Missed, Present
    <1>3. FleetBase'
        BY <1>1, <1>2 DEF FleetBase
    <1>4. (FleetBase => Places)'
        BY PlacesHold, PTL
    <1>5. ASSUME NEW r \in Replica, NEW id \in JobId, Waiting(r, id)'
          PROVE  Turn(r, id)' /\ ClockStarts(r, id)'
        <2>1. Placed(r, id)'
            BY <1>3, <1>4, <1>5 DEF Places
        <2>2. QED
            BY <1>5, <2>1, SameTurn
    <1>6. QED
        BY <1>3, <1>5 DEF FleetInv, TurnsTaken

\* The subsets of n things are counted by 2 ^ n.
LEMMA PowerType ==
    ASSUME NEW n \in Nat
    PROVE  2 ^ n \in Nat
    <1>1. IsFiniteSet(1 .. n) /\ Cardinality(1 .. n) = n
        <2>1. IsFiniteSet(1 .. n) /\ Cardinality(1 .. n) = IF 1 > n THEN 0 ELSE n - 1 + 1
            BY FS_Interval
        <2>2. QED
            BY <2>1
    <1>2. IsFiniteSet(SUBSET (1 .. n)) /\ Cardinality(SUBSET (1 .. n)) = 2 ^ Cardinality(1 .. n)
        BY <1>1, FS_SUBSET
    <1>3. Cardinality(SUBSET (1 .. n)) \in Nat
        BY <1>2, FS_CardinalityType
    <1>4. QED
        BY <1>1, <1>2, <1>3

LEMMA BackoffType ==
    ASSUME NEW misses \in Nat
    PROVE  computeDeferBackoffMs(misses) \in Nat
    <1>1. DEFER_INITIAL_MS \in Nat /\ DEFER_MAX_MS \in Nat
        BY MissingAssumption
    <1>2. CASE misses = 0
        BY <1>1, <1>2 DEF computeDeferBackoffMs
    <1>3. CASE misses # 0
        <2> DEFINE exponent == Least(misses - 1, 32)
                   power == 2 ^ exponent
        <2>1. exponent \in Nat
            BY <1>3 DEF Least
        <2> HIDE DEF exponent
        <2>2. power \in Nat
            BY <2>1, PowerType
        <2> HIDE DEF power
        <2>3. DEFER_INITIAL_MS * power \in Nat
            BY <1>1, <2>2
        <2>4. computeDeferBackoffMs(misses) = Least(DEFER_MAX_MS, DEFER_INITIAL_MS * power)
            BY <1>3 DEF computeDeferBackoffMs, exponent, power
        <2>5. QED
            BY <1>1, <2>3, <2>4 DEF Least
    <1>4. QED
        BY <1>2, <1>3

LEMMA DeferInv ==
    ASSUME FleetInv, NEW d \in defers, applyMissingHandlerDefer(d)
    PROVE  FleetInv'
    <1>1. /\ UNCHANGED <<known, orphans, swept, touched, steady>>
          /\ defers' \subseteq defers /\ FleetTypeOK
        BY DEF applyMissingHandlerDefer, FleetInv, FleetBase
    <1>2. d.id \in JobId /\ d.version \in Nat /\ d.misses \in Nat
        BY DEF FleetInv, FleetBase, FleetTypeOK
    <1>3. CASE Present(d.id) /\ CanDeferJob(jobs[d.id], d.version)
        <2> DEFINE at == now + computeDeferBackoffMs(d.misses)
                   new == deferJobRow(jobs[d.id], at, now, horizonMs)
        <2>1. deferJob(d.id, at)
            BY <1>3 DEF applyMissingHandlerDefer
        <2>2. jobs[d.id] \in Job /\ RowFits(jobs[d.id]) /\ now \in Nat
            BY <1>2, <1>3, FleetRow DEF FleetInv
        <2>3. jobs[d.id].status = "pending"
            BY <1>3 DEF CanDeferJob, IsPendingAt
        <2>4. computeDeferBackoffMs(d.misses) \in Nat
            BY <1>2, BackoffType
        <2>5. at \in Nat /\ at >= now
            BY <2>2, <2>4
        <2>6. Update(d.id, new)
            BY <2>1 DEF deferJob
        <2> HIDE DEF at
        <2>7. /\ Keeps(jobs[d.id], new) /\ MissOf(jobs[d.id], new, now)
              /\ new.status = "pending" => new.scheduledFor = at
            BY <2>2, <2>3, <2>5, DeferEffects DEF Time
        <2> HIDE DEF new
        <2>8. MissStep(d.id, new)
            BY <1>1, <1>3, <2>3, <2>5, <2>6, <2>7 DEF MissStep
        <2>9. FleetTypeOK'
            BY <1>1, <1>2, <2>6, <2>7, RowWritten DEF Keeps, FleetTypeOK
        <2>10. QED
            BY <1>2, <2>8, <2>9, MissInv
    <1>4. CASE ~ (Present(d.id) /\ CanDeferJob(jobs[d.id], d.version))
        <2>1. UNCHANGED <<jobs, issued, now>>
            BY <1>4 DEF applyMissingHandlerDefer, tableVars
        <2>2. FleetTypeOK'
            BY <1>1, <2>1 DEF FleetTypeOK
        <2>3. QED
            BY <1>1, <2>1, <2>2, IdleInv
    <1>5. QED
        BY <1>3, <1>4

-----------------------------------------------------------------------------
(* Requests, claims, runs, deploys, time. *)

MissesPast ==
    \A id \in JobId : Present(id) /\ jobs[id].deferredSince # None =>
        jobs[id].deferredSince \in Nat /\ jobs[id].deferredSince <= now
LEMMA MissesArePast == FleetBase => MissesPast
    BY FleetRow DEF MissesPast

\* A replica that is not steady owes nothing.
LEMMA UnsteadyTurn ==
    ASSUME FleetBase', NEW r \in Replica, NEW id \in JobId, Waiting(r, id)', Placed(r, id)',
           steady'[r] >= now'
    PROVE  Turn(r, id)' /\ ClockStarts(r, id)'
    <1>1. /\ now' \in Nat /\ steady'[r] \in Nat /\ Since(r, id)' \in Nat /\ From(r, id)' \in Int
          /\ steady'[r] <= Since(r, id)' /\ Since(r, id)' <= From(r, id)'
        BY DEF Placed
    <1>2. From(r, id)' >= now' /\ Since(r, id)' >= now'
        BY <1>1
    <1>3. jobs'[id].deferredSince # None =>
             jobs'[id].deferredSince \in Nat /\ jobs'[id].deferredSince <= Since(r, id)'
        <2>1. (FleetBase => MissesPast)'
            BY MissesArePast, PTL
        <2>2. QED
            BY <1>1, <1>2, <2>1 DEF Waiting, MissesPast
    <1>4. QED
        BY <1>2, <1>3, LateTurn, LateClock

\* A new request is due at once; nobody waits behind it yet.
LEMMA RequestInv ==
    ASSUME FleetInv, NEW id \in JobId, Request(id)
    PROVE  FleetInv'
    <1>1. PICK h \in Handler, k \in Key, n \in Attempts :
             createJob(id, NewOnceJob(h, k, now, n, None))
        BY DEF Request
    <1> DEFINE row == NewOnceJob(h, k, now, n, None)
    <1>2. /\ id \notin issued /\ UNCHANGED <<now, known, orphans, swept, defers, steady>>
          /\ touched' = [other \in JobId |-> IF other \in {id} THEN now ELSE touched[other]]
          /\ SlotFree(row, id) /\ jobs' = [jobs EXCEPT ![id] = row]
          /\ issued' = issued \cup {id}
        BY <1>1 DEF Request, createJob, Touch
    <1>3. /\ FleetTypeOK /\ TableInv /\ now \in Nat /\ issued \in SUBSET JobId
        BY DEF FleetInv, FleetBase, FleetTypeOK, Time, TableInv, RowsTyped
    <1>4. row \in Job /\ RowFits(row)
        BY <1>3, NewOnceJobFits, MissingAssumption DEF Time
    <1>5. /\ row.kind = "once" /\ row.status = "pending"
          /\ row.scheduledFor = now /\ row.deferredSince = None
        BY DEF NewOnceJob, NewJob, NoWindow
    <1> HIDE DEF row
    <1>6. jobs'[id] = row /\ \A other \in JobId \ {id} : jobs'[other] = jobs[other]
        BY <1>2, <1>3 DEF FleetTypeOK
    <1>7. ~ Present(id)
        BY <1>2 DEF FleetInv, FleetBase, FleetRows
    <1>8. TableInv'
        BY <1>2, <1>3, <1>4, PutInv
    <1>9. FleetTypeOK'
        BY <1>2, <1>3, <1>8 DEF FleetTypeOK, TableInv, RowsTyped
    <1>10. FleetRows'
        BY <1>2, <1>5, <1>6 DEF FleetInv, FleetBase, FleetRows, Present
    <1>11. MissesDated'
        BY <1>2, <1>3, <1>5, <1>6 DEF FleetInv, FleetBase, MissesDated, Present
    <1>12. SteadyReplicas'
        BY <1>2, <1>5, <1>6 DEF FleetInv, FleetBase, SteadyReplicas, Complete, Present
    <1>13. ListingsHold'
        <2> SUFFICES ASSUME NEW r \in Replica, NEW pair \in orphans[r]
                     PROVE  /\ r \in swept
                            /\ steady[r] < now =>
                                  /\ Present(pair[1])' /\ jobs'[pair[1]].handler \notin known[r]
                                  /\ \/ /\ jobs'[pair[1]].status = "pending"
                                        /\ jobs'[pair[1]].version = pair[2]
                                     \/ Missed(pair[1])'
            BY <1>2 DEF ListingsHold
        <2>1. /\ r \in swept
              /\ steady[r] < now =>
                    /\ Present(pair[1]) /\ jobs[pair[1]].handler \notin known[r]
                    /\ \/ jobs[pair[1]].status = "pending" /\ jobs[pair[1]].version = pair[2]
                       \/ Missed(pair[1])
            BY DEF FleetInv, FleetBase, ListingsHold
        <2>2. pair[1] \in JobId
            BY <1>3 DEF FleetTypeOK, Snapshot
        <2>3. steady[r] < now => jobs'[pair[1]] = jobs[pair[1]]
            BY <1>6, <1>7, <2>1, <2>2
        <2>4. QED
            BY <1>2, <2>1, <2>3 DEF Present, Missed
    <1>14. FleetBase'
        BY <1>8, <1>9, <1>10, <1>11, <1>12, <1>13 DEF FleetBase
    <1>15. (FleetBase => Places)'
        BY PlacesHold, PTL
    <1>16. ASSUME NEW r \in Replica, NEW other \in JobId, Waiting(r, other)'
           PROVE  Turn(r, other)' /\ ClockStarts(r, other)'
        <2>1. Placed(r, other)'
            BY <1>14, <1>15, <1>16 DEF Places
        <2>2. CASE other = id
            <3>1. /\ From(r, id)' \in Int /\ Since(r, id)' \in Nat
                  /\ now <= Since(r, id)' /\ Since(r, id)' <= From(r, id)'
                BY <1>5, <1>6, <2>1, <2>2 DEF Placed
            <3>2. From(r, id)' >= now'
                BY <1>2, <1>3, <3>1
            <3>3. QED
                BY <1>5, <1>6, <2>1, <2>2, <3>2, LateTurn, LateClock
        <2>3. CASE other # id
            <3>1. \A first \in Behind(r, other) : jobs'[first] = jobs[first]
                BY <1>6, <1>7 DEF Behind
            <3>2. QED
                BY <1>2, <1>6, <1>16, <2>1, <2>3, <3>1, SameTurn
        <2>4. QED
            BY <2>2, <2>3
    <1>17. QED
        BY <1>14, <1>16 DEF FleetInv, TurnsTaken

\* Rows that a steady replica has the handler of: it owes them nothing.
ServedStep(ids) ==
    /\ \A id \in ids :
          /\ Present(id) /\ Present(id)' /\ jobs'[id].kind = jobs[id].kind
          /\ jobs'[id].handler = jobs[id].handler /\ jobs'[id].deferredSince = None
          /\ touched'[id] <= now
    /\ \A id \in JobId \ ids : jobs'[id] = jobs[id] /\ touched'[id] = touched[id]
    /\ \A r \in Replica : steady[r] < now => \A id \in ids : jobs[id].handler \in known[r]
    /\ UNCHANGED <<issued, now, known, orphans, swept, steady>>

LEMMA ServedInv ==
    ASSUME FleetInv, FleetTypeOK', TableInv', NEW ids \in SUBSET JobId, ServedStep(ids)
    PROVE  FleetInv'
    <1>1. /\ \A id \in ids :
                /\ Present(id) /\ Present(id)' /\ jobs'[id].kind = jobs[id].kind
                /\ jobs'[id].handler = jobs[id].handler /\ jobs'[id].deferredSince = None
                /\ touched'[id] <= now
          /\ \A id \in JobId \ ids : jobs'[id] = jobs[id] /\ touched'[id] = touched[id]
          /\ \A r \in Replica : steady[r] < now => \A id \in ids : jobs[id].handler \in known[r]
          /\ UNCHANGED <<issued, now, known, orphans, swept, steady>>
        BY DEF ServedStep
    <1>2. FleetRows'
        BY <1>1 DEF FleetInv, FleetBase, FleetRows, Present
    <1>3. MissesDated'
        BY <1>1 DEF FleetInv, FleetBase, MissesDated, Present
    <1>4. SteadyReplicas'
        BY <1>1 DEF FleetInv, FleetBase, SteadyReplicas, Complete, Present
    <1>5. ListingsHold'
        <2> SUFFICES ASSUME NEW r \in Replica, NEW pair \in orphans[r]
                     PROVE  /\ r \in swept
                            /\ steady[r] < now =>
                                  /\ Present(pair[1])' /\ jobs'[pair[1]].handler \notin known[r]
                                  /\ \/ /\ jobs'[pair[1]].status = "pending"
                                        /\ jobs'[pair[1]].version = pair[2]
                                     \/ Missed(pair[1])'
            BY <1>1 DEF ListingsHold
        <2>1. /\ r \in swept
              /\ steady[r] < now =>
                    /\ Present(pair[1]) /\ jobs[pair[1]].handler \notin known[r]
                    /\ \/ jobs[pair[1]].status = "pending" /\ jobs[pair[1]].version = pair[2]
                       \/ Missed(pair[1])
            BY DEF FleetInv, FleetBase, ListingsHold
        <2>2. pair[1] \in JobId
            BY DEF FleetInv, FleetBase, FleetTypeOK, Snapshot
        <2>3. steady[r] < now => jobs'[pair[1]] = jobs[pair[1]]
            BY <1>1, <2>1, <2>2
        <2>4. QED
            BY <1>1, <2>1, <2>3 DEF Present, Missed
    <1>6. FleetBase'
        BY <1>2, <1>3, <1>4, <1>5 DEF FleetBase
    <1>7. (FleetBase => Places)'
        BY PlacesHold, PTL
    <1>8. ASSUME NEW r \in Replica, NEW id \in JobId, Waiting(r, id)'
          PROVE  Turn(r, id)' /\ ClockStarts(r, id)'
        <2>1. Placed(r, id)'
            BY <1>6, <1>7, <1>8 DEF Places
        <2>2. CASE steady[r] < now
            <3>1. id \notin ids
                BY <1>1, <1>8, <2>2 DEF Waiting
            <3>2. \A other \in Behind(r, id) : jobs'[other] = jobs[other]
                BY <1>1, <2>2 DEF Behind
            <3>3. QED
                BY <1>1, <1>8, <2>1, <3>1, <3>2, SameTurn
        <2>3. CASE ~ (steady[r] < now)
            <3>1. steady'[r] >= now'
                BY <1>1, <2>1, <2>3 DEF Placed
            <3>2. QED
                BY <1>6, <1>8, <2>1, <3>1, UnsteadyTurn
        <2>4. QED
            BY <2>2, <2>3
    <1>9. QED
        BY <1>6, <1>8 DEF FleetInv, TurnsTaken

LEMMA PollInv ==
    ASSUME FleetInv, NEW q \in Replica, Poll(q)
    PROVE  FleetInv'
    <1>1. PICK ids \in SUBSET DueRows(known[q]) : claimDueJobs(ids, known[q]) /\ Touch(ids)
        BY DEF Poll
    <1>2. /\ UpdateAll(ids, [id \in ids |-> claimDueRow(jobs[id], now)])
          /\ UNCHANGED <<issued, now, known, orphans, swept, defers, steady>>
          /\ touched' = [id \in JobId |-> IF id \in ids THEN now ELSE touched[id]]
        BY <1>1 DEF claimDueJobs, UpdateAll, Touch, Poll
    <1>3. /\ FleetTypeOK /\ TableInv /\ now \in Nat /\ known[q] \in SUBSET Handler
        BY DEF FleetInv, FleetBase, FleetTypeOK, Time
    <1>4. TableInv'
        BY <1>2, <1>3, ClaimDueInv
    <1>5. FleetTypeOK'
        BY <1>2, <1>3, <1>4 DEF FleetTypeOK, TableInv, RowsTyped
    <1>6. ids \in SUBSET JobId /\ \A id \in ids : Present(id) /\ jobs[id].handler \in known[q]
        BY DEF DueRows
    <1>7. /\ \A id \in ids : jobs'[id] = claimDueRow(jobs[id], now) /\ touched'[id] = now
          /\ \A id \in JobId \ ids : jobs'[id] = jobs[id] /\ touched'[id] = touched[id]
        BY <1>2, <1>6 DEF UpdateAll
    <1>8. ASSUME NEW id \in ids
          PROVE  /\ Present(id)' /\ jobs'[id].kind = jobs[id].kind
                 /\ jobs'[id].handler = jobs[id].handler /\ jobs'[id].deferredSince = None
        <2>1. jobs[id] \in Job /\ jobs[id].kind = "once"
            BY <1>6, FleetRow DEF FleetInv
        <2>2. jobs'[id] = markRunningRow(jobs[id], now)
            BY <1>7, <2>1 DEF claimDueRow, isDebounceSettled
        <2>3. /\ jobs'[id].kind = jobs[id].kind
              /\ jobs'[id].handler = jobs[id].handler /\ jobs'[id].deferredSince = None
            BY <2>1, <2>2 DEF markRunningRow, resetDeferFields, Job
        <2>4. Present(id)'
            <3>1. jobs'[id] \in Job
                <4>1. RowFits(jobs[id]) /\ jobs[id].status = "pending"
                    BY <1>6, FleetRow DEF FleetInv, DueRows, IsDue
                <4>2. Keeps(jobs[id], claimDueRow(jobs[id], now))
                    BY <1>3, <2>1, <4>1, ClaimDueKeeps DEF DueRows, Time
                <4>3. QED
                    BY <1>7, <4>2 DEF Keeps
            <3>2. QED
                BY <3>1, MissingAssumption DEF Present
        <2>5. QED
            BY <2>3, <2>4
    <1>9. \A r \in Replica : steady[r] < now => \A id \in ids : jobs[id].handler \in known[r]
        BY <1>6 DEF FleetInv, FleetBase, SteadyReplicas, Complete
    <1>10. ServedStep(ids)
        BY <1>2, <1>3, <1>6, <1>7, <1>8, <1>9 DEF ServedStep
    <1>11. QED
        BY <1>4, <1>5, <1>6, <1>10, ServedInv

LEMMA EndRunInv ==
    ASSUME FleetInv, NEW id \in JobId, EndRun(id)
    PROVE  FleetInv'
    <1> DEFINE done == markCompletedRow(jobs[id], now)
               again == retryJobRow(jobs[id], jobs[id].attempt + 1, now)
    <1>1. /\ Present(id) /\ UNCHANGED <<known, orphans, swept, defers, touched, steady>>
          /\ \/ CanMarkCompleted(jobs[id], jobs[id].version) /\ Update(id, done)
             \/ CanRetryJob(jobs[id], jobs[id].version) /\ Update(id, again)
        BY DEF EndRun, markCompleted, retryJob
    <1>2. FleetTypeOK /\ TableInv /\ now \in Nat /\ jobs[id] \in Job /\ RowFits(jobs[id])
        BY <1>1, FleetRow DEF FleetInv, FleetBase
    <1>3. jobs[id].status = "running"
        BY <1>1 DEF CanMarkCompleted, CanRetryJob, IsRunningAt
    <1>4. /\ CanMarkCompleted(jobs[id], jobs[id].version)
          /\ CanRetryJob(jobs[id], jobs[id].version)
        BY <1>3 DEF CanMarkCompleted, CanRetryJob, IsRunningAt
    <1>5. jobs[id].attempt + 1 \in Nat
        BY <1>2, ReadFields
    <1>6. Keeps(jobs[id], done) /\ Keeps(jobs[id], again)
        BY <1>2, <1>4, <1>5, MarkCompletedKeeps, RetryKeeps DEF Time
    <1>7. done.deferredSince = None /\ again.deferredSince = None
        BY <1>2 DEF markCompletedRow, retryJobRow, resetDeferFields, Job
    <1> HIDE DEF done, again
    <1>8. PICK new \in {done, again} : Update(id, new)
        BY <1>1
    <1>9. Keeps(jobs[id], new) /\ new.deferredSince = None
        BY <1>6, <1>7
    <1>10. TableInv'
        BY <1>1, <1>2, <1>8, <1>9, UpdateInv
    <1>11. FleetTypeOK'
        BY <1>1, <1>2, <1>10 DEF FleetTypeOK, TableInv, RowsTyped
    <1>12. /\ jobs'[id] = new /\ \A other \in JobId \ {id} : jobs'[other] = jobs[other]
           /\ issued' = issued /\ now' = now
        BY <1>2, <1>8 DEF Update, FleetTypeOK
    <1>13. \A r \in Replica : steady[r] < now => jobs[id].handler \in known[r]
        BY <1>1, <1>3 DEF FleetInv, FleetBase, SteadyReplicas
    <1>14. /\ Present(id)' /\ jobs'[id].kind = jobs[id].kind
           /\ jobs'[id].handler = jobs[id].handler /\ jobs'[id].deferredSince = None
        BY <1>9, <1>12, MissingAssumption DEF Keeps, SameSlot, Present
    <1>15. touched[id] <= now
        BY DEF FleetInv, FleetBase, MissesDated
    <1>16. ServedStep({id})
        BY <1>1, <1>12, <1>13, <1>14, <1>15 DEF ServedStep
    <1>17. QED
        BY <1>10, <1>11, <1>16, ServedInv

\* Whoever restarts, or is short of a handler now, starts to count anew.
LEMMA DeployInv ==
    ASSUME FleetInv, NEW r \in Replica, NEW names \in SUBSET Handler, Deploy(r, names)
    PROVE  FleetInv'
    <1>1. /\ UNCHANGED <<jobs, issued, now, defers, touched>>
          /\ known' = [known EXCEPT ![r] = names]
          /\ orphans' = [orphans EXCEPT ![r] = {}]
          /\ swept' = swept \ {r}
          /\ steady' = [q \in Replica |-> IF q = r \/ ~ Complete(q)' THEN now ELSE steady[q]]
        BY DEF Deploy, tableVars
    <1>2. FleetTypeOK /\ TableInv /\ now \in Nat /\ FleetBase
        BY DEF FleetInv, FleetBase, FleetTypeOK, Time
    <1>3. /\ orphans'[r] = {} /\ \A q \in Replica \ {r} : orphans'[q] = orphans[q]
          /\ \A q \in Replica \ {r} : known'[q] = known[q]
        BY <1>1, <1>2 DEF FleetTypeOK
    <1>4. \A q \in Replica : steady'[q] = IF q = r \/ ~ Complete(q)' THEN now ELSE steady[q]
        BY <1>1
    <1>5. FleetTypeOK'
        <2>1. /\ jobs' \in [JobId -> Job \cup {None}] /\ now' \in Time
              /\ touched' \in [JobId -> Time] /\ swept' \in SUBSET Replica
              /\ defers' \in SUBSET [id : JobId, version : Nat, misses : Nat]
            BY <1>1, <1>2 DEF FleetTypeOK
        <2>2. known' \in [Replica -> SUBSET Handler] /\ orphans' \in [Replica -> SUBSET Snapshot]
            BY <1>1, <1>2 DEF FleetTypeOK
        <2>3. steady' \in [Replica -> Time]
            <3>1. steady \in [Replica -> Time] /\ now \in Time
                BY <1>2 DEF FleetTypeOK
            <3>2. \A q \in Replica : steady'[q] \in Time
                BY <1>4, <3>1
            <3>3. QED
                BY <1>1, <3>2
        <2>4. QED
            BY <2>1, <2>2, <2>3 DEF FleetTypeOK
    <1>6. TableInv'
        BY <1>1, <1>2, RowsUntouchedInv DEF FleetTypeOK
    <1>7. FleetRows' /\ MissesDated'
        BY <1>1, <1>2 DEF FleetBase, FleetRows, MissesDated, Present
    <1>8. ASSUME NEW q \in Replica, steady'[q] < now'
          PROVE  /\ q # r /\ Complete(q)' /\ steady'[q] = steady[q] /\ steady[q] < now
                 /\ known'[q] = known[q] /\ orphans'[q] = orphans[q]
        BY <1>1, <1>2, <1>3, <1>4, <1>8
    <1>9. SteadyReplicas'
        <2> SUFFICES ASSUME NEW q \in Replica
                     PROVE  /\ steady'[q] <= now'
                            /\ steady'[q] < now' =>
                                  /\ Complete(q)'
                                  /\ \A id \in JobId :
                                        Present(id)' /\ jobs'[id].status = "running"
                                        => jobs'[id].handler \in known'[q]
            BY DEF SteadyReplicas
        <2>1. steady'[q] <= now'
            BY <1>1, <1>2, <1>4 DEF FleetBase, SteadyReplicas
        <2>2. ASSUME steady'[q] < now', NEW id \in JobId, Present(id)', jobs'[id].status = "running"
              PROVE  jobs'[id].handler \in known'[q]
            BY <1>1, <1>2, <1>8, <2>2 DEF FleetBase, SteadyReplicas, Present
        <2>3. QED
            BY <1>8, <2>1, <2>2
    <1>10. ListingsHold'
        <2> SUFFICES ASSUME NEW q \in Replica, NEW pair \in orphans'[q]
                     PROVE  /\ q \in swept'
                            /\ steady'[q] < now' =>
                                  /\ Present(pair[1])' /\ jobs'[pair[1]].handler \notin known'[q]
                                  /\ \/ /\ jobs'[pair[1]].status = "pending"
                                        /\ jobs'[pair[1]].version = pair[2]
                                     \/ Missed(pair[1])'
            BY DEF ListingsHold
        <2>1. q # r /\ pair \in orphans[q]
            BY <1>3
        <2>2. /\ q \in swept
              /\ steady[q] < now =>
                    /\ Present(pair[1]) /\ jobs[pair[1]].handler \notin known[q]
                    /\ \/ jobs[pair[1]].status = "pending" /\ jobs[pair[1]].version = pair[2]
                       \/ Missed(pair[1])
            BY <1>2, <2>1 DEF FleetBase, ListingsHold
        <2>3. QED
            BY <1>1, <1>8, <2>1, <2>2 DEF Present, Missed
    <1>11. FleetBase'
        BY <1>5, <1>6, <1>7, <1>9, <1>10 DEF FleetBase
    <1>12. (FleetBase => Places)'
        BY PlacesHold, PTL
    <1>13. ASSUME NEW q \in Replica, NEW id \in JobId, Waiting(q, id)'
           PROVE  Turn(q, id)' /\ ClockStarts(q, id)'
        <2>1. Placed(q, id)'
            BY <1>11, <1>12, <1>13 DEF Places
        <2>2. CASE steady'[q] < now'
            <3>1. /\ steady'[q] = steady[q] /\ known'[q] = known[q] /\ orphans'[q] = orphans[q]
                BY <1>8, <2>2
            <3>2. QED
                BY <1>1, <1>13, <2>1, <3>1, SameTurn
        <2>3. CASE ~ (steady'[q] < now')
            <3>1. steady'[q] >= now'
                BY <2>1, <2>3 DEF Placed
            <3>2. QED
                BY <1>11, <1>13, <2>1, <3>1, UnsteadyTurn
        <2>4. QED
            BY <2>2, <2>3
    <1>14. QED
        BY <1>11, <1>13 DEF FleetInv, TurnsTaken

\* Every replica has swept: what was due to a row is now what it was owed.
LEMMA NextSweepInv ==
    ASSUME FleetInv, NextSweep
    PROVE  FleetInv'
    <1>1. /\ swept = Replica /\ \A r \in Replica : orphans[r] = {}
          /\ \A id \in JobId : Present(id) => jobs[id].status # "running"
          /\ UNCHANGED <<jobs, issued, known, orphans, defers, touched>>
          /\ now' = now + 1 /\ swept' = {}
          /\ steady' = [r \in Replica |-> IF Complete(r) THEN steady[r] ELSE now']
        BY DEF NextSweep, Tick
    <1>2. FleetTypeOK /\ TableInv /\ now \in Nat /\ FleetBase
        BY DEF FleetInv, FleetBase, FleetTypeOK, Time
    <1>3. \A r \in Replica : steady'[r] = IF Complete(r) THEN steady[r] ELSE now'
        BY <1>1
    <1>4. \A r \in Replica : steady[r] \in Nat /\ steady[r] <= now
        BY <1>2 DEF FleetTypeOK, FleetBase, SteadyReplicas, Time
    <1>5. FleetTypeOK'
        <2>1. steady' \in [Replica -> Time]
            BY <1>1, <1>2, <1>4 DEF Time
        <2>2. QED
            BY <1>1, <1>2, <2>1 DEF FleetTypeOK, Time
    <1>6. TableInv'
        BY <1>1, <1>2, <1>5, RowsUntouchedInv DEF FleetTypeOK
    <1>7. FleetRows'
        BY <1>1, <1>2 DEF FleetBase, FleetRows, Present
    <1>8. MissesDated'
        <2> SUFFICES ASSUME NEW id \in JobId
                     PROVE  /\ touched[id] <= now'
                            /\ Present(id) /\ jobs[id].deferredSince # None
                               => touched[id] <= jobs[id].deferredSince
                                  /\ jobs[id].deferredSince <= now'
            BY <1>1 DEF MissesDated, Present
        <2>1. /\ touched[id] \in Nat /\ touched[id] <= now
              /\ Present(id) /\ jobs[id].deferredSince # None
                 => /\ touched[id] <= jobs[id].deferredSince
                    /\ jobs[id].deferredSince \in Nat /\ jobs[id].deferredSince <= now
            BY <1>2, FleetRow DEF FleetTypeOK, FleetBase, MissesDated, Time
        <2>2. QED
            BY <1>1, <1>2, <2>1
    <1>9. SteadyReplicas'
        <2> SUFFICES ASSUME NEW r \in Replica
                     PROVE  steady'[r] <= now' /\ (steady'[r] < now' => Complete(r)')
            BY <1>1 DEF SteadyReplicas, Present
        <2>1. Complete(r)' <=> Complete(r)
            BY <1>1 DEF Complete
        <2>2. QED
            BY <1>1, <1>2, <1>3, <1>4, <2>1
    <1>10. ListingsHold'
        BY <1>1 DEF ListingsHold
    <1>11. FleetBase'
        BY <1>5, <1>6, <1>7, <1>8, <1>9, <1>10 DEF FleetBase
    <1>12. (FleetBase => Places)'
        BY PlacesHold, PTL
    <1>13. ASSUME NEW r \in Replica, NEW id \in JobId, Waiting(r, id)'
           PROVE  Turn(r, id)' /\ ClockStarts(r, id)'
        <2>1. Placed(r, id)'
            BY <1>11, <1>12, <1>13 DEF Places
        <2>2. CASE ~ Complete(r)
            <3>1. steady'[r] >= now'
                BY <1>1, <1>2, <1>3, <2>2
            <3>2. QED
                BY <1>11, <1>13, <2>1, <3>1, UnsteadyTurn
        <2>3. CASE Complete(r)
            <3>1. /\ Waiting(r, id) /\ Since(r, id)' = Since(r, id) /\ From(r, id)' = From(r, id)
                BY <1>1, <1>3, <1>13, <2>3, SameRow
            <3>2. ClockStarts(r, id)'
                BY <1>1, <3>1, KeptClock
            <3>3. Turn(r, id) /\ From(r, id) \in Int
                BY <3>1, PlacesHold DEF Places, Placed, FleetInv, TurnsTaken
            <3>4. Listed(r) = {}
                BY <1>1 DEF Listed
            <3>5. UNKNOWN_DUE_BUDGET * (now - From(r, id)) <= Cardinality(Behind(r, id))
                <4>1. Behind(r, id) \cup Listed(r) = Behind(r, id)
                    BY <3>4
                <4>2. QED
                    BY <1>1, <3>3, <3>4, <4>1 DEF Turn
            <3>6. Behind(r, id)' = Behind(r, id)
                BY <1>1 DEF Behind, Present
            <3>7. now' - 1 - From(r, id)' = now - From(r, id)
                BY <1>1, <1>2, <3>1, <3>3
            <3>8. Turn(r, id)'
                BY <1>1, <3>5, <3>6, <3>7 DEF Turn
            <3>9. QED
                BY <3>2, <3>8
        <2>4. QED
            BY <2>2, <2>3
    <1>14. QED
        BY <1>11, <1>13 DEF FleetInv, TurnsTaken

-----------------------------------------------------------------------------
(* The invariant. *)

LEMMA FleetStep ==
    ASSUME FleetInv, [FleetNext]_fleetVars
    PROVE  FleetInv'
    <1>1. FleetTypeOK
        BY DEF FleetInv, FleetBase
    <1>2. ASSUME NEW r \in Replica, ReplicaStep(r) PROVE FleetInv'
        <2>1. CASE sweepStalled(r)
            BY <2>1, SweepInv
        <2>2. ASSUME NEW id \in JobId, NEW version \in 1 .. MaxRowVersion,
                     applyMissingHandlerHorizon(r, id, version)
              PROVE  FleetInv'
            <3>1. version \in Nat
                BY MissingAssumption
            <3>2. QED
                BY <2>2, <3>1, HorizonInv
        <2>3. ASSUME NEW id \in JobId, DeliverUnregistered(r, id) PROVE FleetInv'
            <3>1. UNCHANGED <<jobs, issued, now, known, orphans, swept, touched, steady>>
                BY <2>3 DEF DeliverUnregistered, tableVars
            <3>2. jobs[id] \in Job
                BY <2>3, FleetRow DEF DeliverUnregistered, OrphansOf, FleetInv
            <3>3. defers' \in SUBSET [id : JobId, version : Nat, misses : Nat]
                <4>1. jobs[id].version \in Nat /\ jobs[id].deferAttempts + 1 \in Nat
                    BY <3>2 DEF Job
                <4>2. QED
                    BY <2>3, <4>1 DEF DeliverUnregistered
            <3>4. FleetTypeOK'
                BY <1>1, <3>1, <3>3 DEF FleetTypeOK
            <3>5. QED
                BY <3>1, <3>4, IdleInv
        <2>4. CASE Poll(r)
            BY <2>4, PollInv
        <2>5. ASSUME NEW names \in SUBSET Handler, Deploy(r, names) PROVE FleetInv'
            BY <2>5, DeployInv
        <2>6. QED
            BY <1>2, <2>1, <2>2, <2>3, <2>4, <2>5 DEF ReplicaStep
    <1>3. CASE UNCHANGED fleetVars
        <2>1. UNCHANGED <<jobs, issued, now, known, orphans, swept, defers, touched, steady>>
            BY <1>3 DEF fleetVars
        <2>2. FleetTypeOK'
            BY <1>1, <2>1 DEF FleetTypeOK
        <2>3. QED
            BY <2>1, <2>2, IdleInv
    <1>4. QED
        BY <1>2, <1>3, DeferInv, RequestInv, EndRunInv, NextSweepInv DEF FleetNext

\* Misses are dated after the last claim, listings hold for whoever is steady, and
\* each row has waited for no more turns than those that came before it have had.
THEOREM FleetInvariant == FleetSpec => []FleetInv
    <1>1. FleetInit => FleetInv
        <2> SUFFICES ASSUME FleetInit PROVE FleetInv
            OBVIOUS
        <2>1. /\ jobs = [id \in JobId |-> None] /\ issued = {} /\ now = 0
              /\ known \in [Replica -> SUBSET Handler] /\ orphans = [r \in Replica |-> {}]
              /\ swept = {} /\ defers = {}
              /\ touched = [id \in JobId |-> 0] /\ steady = [r \in Replica |-> 0]
            BY DEF FleetInit, TableInit
        <2>2. FleetTypeOK
            BY <2>1 DEF FleetTypeOK, Time
        <2>3. TableInv
            BY <2>1 DEF TableInv, RowsTyped, RowsFit, AtMostOneActive, Present, Time
        <2>4. FleetRows /\ MissesDated /\ SteadyReplicas /\ ListingsHold
            BY <2>1 DEF FleetRows, MissesDated, SteadyReplicas, ListingsHold, Present
        <2>5. TurnsTaken
            BY <2>1 DEF TurnsTaken, Waiting, Present
        <2>6. QED
            BY <2>2, <2>3, <2>4, <2>5 DEF FleetInv, FleetBase
    <1>2. FleetInv /\ [FleetNext]_fleetVars => FleetInv'
        BY FleetStep
    <1>3. QED
        BY <1>1, <1>2, PTL DEF FleetSpec

\* The table of the fleet and what its replicas know of it are well typed.
THEOREM FleetTyped == FleetSpec => []FleetTypeOK
    <1>1. FleetInv => FleetTypeOK
        BY DEF FleetInv, FleetBase
    <1>2. QED
        BY <1>1, FleetInvariant, PTL

LEMMA Distributes ==
    ASSUME NEW b \in Nat, NEW x \in Int, NEW y \in Int
    PROVE  b * (x + y) = b * x + b * y /\ b * x \in Int /\ b * y \in Int
    OBVIOUS

LEMMA AllOthers ==
    ASSUME NEW id \in JobId, NEW S, S \subseteq JobId \ {id}
    PROVE  /\ Cardinality(S) \in Nat /\ Cardinality(JobId) \in Nat
           /\ Cardinality(S) <= Cardinality(JobId) - 1
    <1>1. /\ Cardinality(S) <= Cardinality(JobId \ {id}) /\ Cardinality(S) \in Nat
          /\ Cardinality(JobId) \in Nat
        <2>1. JobId \ {id} \subseteq JobId /\ S \in SUBSET (JobId \ {id}) /\ S \subseteq JobId
            OBVIOUS
        <2>2. QED
            BY <2>1, RowSets
    <1>2. Cardinality(JobId \ {id}) = Cardinality(JobId) - 1
        BY MissingAssumption, FS_RemoveElement
    <1>3. QED
        BY <1>1, <1>2

\* Two turns of each other row at most: one before the row's clock has started,
\* counted by ClockStarts, and one after its horizon, counted by Turn.
LEMMA TurnsSuffice ==
    ASSUME FleetInv, NEW r \in Replica, NEW id \in JobId, Waiting(r, id)
    PROVE  UNKNOWN_DUE_BUDGET * (now - Since(r, id) - horizonMs - 1)
           <= 2 * (Cardinality(JobId) - 1)
    <1>1. Placed(r, id) /\ Turn(r, id) /\ ClockStarts(r, id)
        BY PlacesHold DEF Places, FleetInv, TurnsTaken
    <1>2. /\ now \in Nat /\ Since(r, id) \in Nat /\ From(r, id) \in Int
          /\ UNKNOWN_DUE_BUDGET \in Nat /\ horizonMs \in Nat
        BY <1>1, MissingAssumption DEF Placed
    <1> DEFINE others == Cardinality(JobId) - 1
    <1>3. others \in Nat /\ Cardinality(Behind(r, id)) \in Nat
          /\ Cardinality(Behind(r, id)) <= others
        <2>1. Behind(r, id) \subseteq JobId \ {id}
            BY <1>1 DEF Placed
        <2>2. QED
            BY <2>1, AllOthers
    <1>4. UNKNOWN_DUE_BUDGET * (now - 1 - From(r, id)) <= others
        <2>1. UNKNOWN_DUE_BUDGET * (now - 1 - From(r, id)) <= Cardinality(Behind(r, id))
            BY <1>1 DEF Turn
        <2>2. UNKNOWN_DUE_BUDGET * (now - 1 - From(r, id)) \in Int
            BY <1>2, Scaling
        <2>3. QED
            BY <1>3, <2>1, <2>2
    <1> HIDE DEF others
    <1>5. CASE From(r, id) = Since(r, id)
        <2>1. (now - Since(r, id) - horizonMs - 1) + horizonMs = now - 1 - Since(r, id)
            BY <1>2
        <2>2. UNKNOWN_DUE_BUDGET * (now - 1 - Since(r, id))
              = UNKNOWN_DUE_BUDGET * (now - Since(r, id) - horizonMs - 1)
                + UNKNOWN_DUE_BUDGET * horizonMs
            BY <1>2, <2>1, Distributes
        <2>3. /\ UNKNOWN_DUE_BUDGET * (now - Since(r, id) - horizonMs - 1) \in Int
              /\ UNKNOWN_DUE_BUDGET * horizonMs \in Nat
            <3>1. now - Since(r, id) - horizonMs - 1 \in Int
                BY <1>2
            <3>2. QED
                BY <1>2, <3>1, Scaling
        <2>4. UNKNOWN_DUE_BUDGET * (now - Since(r, id) - horizonMs - 1) <= others
            BY <1>4, <1>5, <1>3, <2>2, <2>3
        <2>5. QED
            BY <1>3, <2>3, <2>4 DEF others
    <1>6. CASE From(r, id) # Since(r, id)
        <2>1. jobs[id].deferredSince # None /\ From(r, id) = jobs[id].deferredSince + horizonMs - 1
            BY <1>6 DEF From, Expiry
        <2>2. jobs[id].deferredSince \in Nat
            BY <2>1, FleetRow DEF FleetInv, Waiting
        <2> DEFINE first == jobs[id].deferredSince - 1 - Since(r, id)
                   second == now - 1 - From(r, id)
        <2>3. first \in Int /\ second \in Int
            BY <1>2, <2>2
        <2>4. now - Since(r, id) - horizonMs - 1 = first + second
            BY <1>2, <2>1, <2>2
        <2>5. UNKNOWN_DUE_BUDGET * first <= others /\ UNKNOWN_DUE_BUDGET * second <= others
            BY <1>1, <1>4, <2>1 DEF ClockStarts, others
        <2> HIDE DEF first, second
        <2>6. /\ UNKNOWN_DUE_BUDGET * (first + second)
                 = UNKNOWN_DUE_BUDGET * first + UNKNOWN_DUE_BUDGET * second
              /\ UNKNOWN_DUE_BUDGET * first \in Int /\ UNKNOWN_DUE_BUDGET * second \in Int
            BY <1>2, <2>3, Distributes
        <2>7. UNKNOWN_DUE_BUDGET * (first + second) <= 2 * others
            BY <1>3, <2>5, <2>6
        <2>8. QED
            BY <2>4, <2>7 DEF others
    <1>7. QED
        BY <1>5, <1>6

\* Orphans do not queue for each other's horizons: the sweep's order, and a miss
\* that moves a row behind the rows that have none, give each of them its turn.
THEOREM OrphansDoNotQueue == FleetSpec => []HorizonsDoNotQueue
    <1>1. FleetInv => HorizonsDoNotQueue
        BY TurnsSuffice DEF HorizonsDoNotQueue, Waiting, Since
    <1>2. QED
        BY <1>1, FleetInvariant, PTL

-----------------------------------------------------------------------------
(* Rows that fail for a missing handler. *)

\* A miss ends a row only when nobody has claimed it for the whole horizon.
LEMMA MissesEndLate ==
    ASSUME FleetInv, NEW x \in JobId, Present(x), NEW new, MissOf(jobs[x], new, now),
           new.status = "failed"
    PROVE  now - touched[x] >= horizonMs
    <1>1. now - FirstDefer(jobs[x], now) >= horizonMs
        BY DEF MissOf
    <1>2. now \in Nat /\ touched[x] \in Nat /\ horizonMs \in Nat
        BY MissingAssumption DEF FleetInv, FleetBase, FleetTypeOK, Time
    <1>3. FirstDefer(jobs[x], now) \in Nat /\ touched[x] <= FirstDefer(jobs[x], now)
        BY <1>2, FleetRow DEF FirstDefer, FleetInv, FleetBase, MissesDated
    <1>4. QED
        BY <1>1, <1>2, <1>3

EndsUnclaimed ==
    \A id \in JobId :
        Present(id) /\ jobs[id].status = "pending" /\ jobs'[id].status = "failed"
        => now - touched[id] >= horizonMs

LEMMA MissEnds ==
    ASSUME FleetInv, NEW x \in JobId, Present(x), NEW new, MissOf(jobs[x], new, now),
           Update(x, new)
    PROVE  EndsUnclaimed
    <1>1. jobs'[x] = new /\ \A id \in JobId \ {x} : jobs'[id] = jobs[id]
        BY DEF Update, FleetInv, FleetBase, FleetTypeOK
    <1>2. QED
        BY <1>1, MissesEndLate DEF EndsUnclaimed

LEMMA HorizonEnds ==
    ASSUME FleetInv, NEW r \in Replica, NEW id \in JobId, NEW version \in Nat,
           applyMissingHandlerHorizon(r, id, version)
    PROVE  EndsUnclaimed
    <1>1. CASE Present(id) /\ CanDeferJob(jobs[id], version)
        <2>1. /\ jobs[id].status = "pending"
              /\ Update(id, noteMissingHandlerRow(jobs[id], now, horizonMs))
            BY <1>1 DEF applyMissingHandlerHorizon, noteMissingHandler, CanDeferJob, IsPendingAt
        <2>2. jobs[id] \in Job /\ RowFits(jobs[id]) /\ now \in Time
            BY <1>1, FleetRow DEF FleetInv, FleetBase, FleetTypeOK
        <2>3. MissOf(jobs[id], noteMissingHandlerRow(jobs[id], now, horizonMs), now)
            BY <2>1, <2>2, NoteEffects
        <2>4. QED
            BY <1>1, <2>1, <2>3, MissEnds
    <1>2. CASE ~ (Present(id) /\ CanDeferJob(jobs[id], version))
        BY <1>2 DEF applyMissingHandlerHorizon, tableVars, EndsUnclaimed
    <1>3. QED
        BY <1>1, <1>2

LEMMA DeferEnds ==
    ASSUME FleetInv, NEW d \in defers, applyMissingHandlerDefer(d)
    PROVE  EndsUnclaimed
    <1>1. d.id \in JobId /\ d.version \in Nat /\ d.misses \in Nat
        BY DEF FleetInv, FleetBase, FleetTypeOK
    <1>2. CASE Present(d.id) /\ CanDeferJob(jobs[d.id], d.version)
        <2> DEFINE at == now + computeDeferBackoffMs(d.misses)
        <2>1. /\ jobs[d.id].status = "pending"
              /\ Update(d.id, deferJobRow(jobs[d.id], at, now, horizonMs))
            BY <1>2 DEF applyMissingHandlerDefer, deferJob, CanDeferJob, IsPendingAt
        <2>2. jobs[d.id] \in Job /\ RowFits(jobs[d.id]) /\ now \in Nat
            BY <1>1, <1>2, FleetRow DEF FleetInv
        <2>3. computeDeferBackoffMs(d.misses) \in Nat
            BY <1>1, BackoffType
        <2>4. at \in Nat
            BY <2>2, <2>3
        <2> HIDE DEF at
        <2>5. MissOf(jobs[d.id], deferJobRow(jobs[d.id], at, now, horizonMs), now)
            BY <2>1, <2>2, <2>4, DeferEffects DEF Time
        <2>6. QED
            BY <1>1, <1>2, <2>1, <2>5, MissEnds
    <1>3. CASE ~ (Present(d.id) /\ CanDeferJob(jobs[d.id], d.version))
        BY <1>3 DEF applyMissingHandlerDefer, tableVars, EndsUnclaimed
    <1>4. QED
        BY <1>2, <1>3

LEMMA RequestEnds ==
    ASSUME FleetInv, NEW id \in JobId, Request(id)
    PROVE  EndsUnclaimed
    <1>1. PICK row : jobs' = [jobs EXCEPT ![id] = row]
        BY DEF Request, createJob
    <1>2. ~ Present(id)
        BY DEF Request, FleetInv, FleetBase, FleetRows
    <1>3. \A other \in JobId \ {id} : jobs'[other] = jobs[other]
        BY <1>1 DEF FleetInv, FleetBase, FleetTypeOK
    <1>4. QED
        BY <1>2, <1>3 DEF EndsUnclaimed

LEMMA PollEnds ==
    ASSUME FleetInv, NEW q \in Replica, Poll(q)
    PROVE  EndsUnclaimed
    <1>1. PICK ids \in SUBSET DueRows(known[q]) :
             /\ \A id \in JobId \ ids : jobs'[id] = jobs[id]
             /\ \A id \in JobId \cap ids : jobs'[id] = claimDueRow(jobs[id], now)
        BY DEF Poll, claimDueJobs, UpdateAll
    <1>2. ASSUME NEW id \in JobId, Present(id) PROVE claimDueRow(jobs[id], now).status = "running"
        <2>1. jobs[id] \in Job /\ jobs[id].kind = "once"
            BY <1>2, FleetRow DEF FleetInv
        <2>2. claimDueRow(jobs[id], now) = markRunningRow(jobs[id], now)
            BY <2>1 DEF claimDueRow, isDebounceSettled
        <2>3. QED
            BY <2>1, <2>2 DEF markRunningRow, resetDeferFields, Job
    <1>3. QED
        BY <1>1, <1>2 DEF EndsUnclaimed

LEMMA EndRunEnds ==
    ASSUME FleetInv, NEW id \in JobId, EndRun(id)
    PROVE  EndsUnclaimed
    <1>1. /\ jobs[id].status = "running"
          /\ \E row : jobs' = [jobs EXCEPT ![id] = row]
        BY DEF EndRun, markCompleted, retryJob, Update, CanMarkCompleted, CanRetryJob, IsRunningAt
    <1>2. \A other \in JobId \ {id} : jobs'[other] = jobs[other]
        BY <1>1 DEF FleetInv, FleetBase, FleetTypeOK
    <1>3. QED
        BY <1>1, <1>2 DEF EndsUnclaimed

\* The horizon belongs to one streak of misses: a row fails for a missing handler
\* only if nobody has claimed it for the whole horizon.
THEOREM ExpiryIsOfOneStreak == FleetSpec => ExpiresOnlyUnclaimed
    <1>1. ASSUME FleetInv, FleetNext PROVE EndsUnclaimed
        <2>1. ASSUME NEW r \in Replica, ReplicaStep(r) PROVE EndsUnclaimed
            <3>1. ASSUME NEW id \in JobId, NEW version \in 1 .. MaxRowVersion,
                         applyMissingHandlerHorizon(r, id, version)
                  PROVE  EndsUnclaimed
                <4>1. version \in Nat
                    BY MissingAssumption
                <4>2. QED
                    BY <1>1, <3>1, <4>1, HorizonEnds
            <3>2. ASSUME jobs' = jobs PROVE EndsUnclaimed
                BY <3>2 DEF EndsUnclaimed
            <3>3. CASE sweepStalled(r)
                BY <3>2, <3>3 DEF sweepStalled, tableVars
            <3>4. ASSUME NEW id \in JobId, DeliverUnregistered(r, id) PROVE EndsUnclaimed
                BY <3>2, <3>4 DEF DeliverUnregistered, tableVars
            <3>5. ASSUME NEW names \in SUBSET Handler, Deploy(r, names) PROVE EndsUnclaimed
                BY <3>2, <3>5 DEF Deploy, tableVars
            <3>6. QED
                BY <1>1, <2>1, <3>1, <3>3, <3>4, <3>5, PollEnds DEF ReplicaStep
        <2>2. CASE NextSweep
            BY <2>2 DEF NextSweep, Tick, EndsUnclaimed
        <2>3. QED
            BY <1>1, <2>1, <2>2, DeferEnds, RequestEnds, EndRunEnds DEF FleetNext
    <1>2. FleetInv /\ [FleetNext]_fleetVars => [EndsUnclaimed]_fleetVars
        BY <1>1
    <1>3. QED
        BY <1>2, FleetInvariant, PTL DEF FleetSpec, ExpiresOnlyUnclaimed, EndsUnclaimed
=============================================================================
