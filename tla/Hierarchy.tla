----------------------------- MODULE Hierarchy -----------------------------
(* The element hierarchy of one dimension (Dimension.cpp): parents,        *)
(* weighted children, the string consolidations, and what is derived from  *)
(* them, the base elements, level, depth and indent of every element.      *)
(* Two jobs that change a hierarchy conflict on the element list, so a job *)
(* is one step here.  Beside the live dimension stands the dimension a     *)
(* start of the server would build from the database file and the journal. *)
EXTENDS Integers, Sequences, FiniteSets, SequencesExt

CONSTANTS
  Element,    \* element identifiers
  Weight,     \* consolidation factors a request may give
  MaxList,    \* most children a request names
  MaxBulk,    \* most children element/replace_bulk names
  MaxJobs,    \* bound on the number of jobs
  Initial,    \* types of the elements at the start
  Batches,    \* the lists of elements of the bulk requests
  Null        \* an element without base elements

ASSUME HierarchyAssumption ==
  /\ Weight \subseteq Int
  /\ MaxList \in Nat /\ MaxBulk \in Nat
  /\ MaxJobs \in Nat
  /\ Null \notin Element
  /\ \A types \in Initial :
       types \in [Element -> {"UNDEFINED", "NUMERIC", "STRING"}]
  /\ \A list \in Batches : ToSet(list) \subseteq Element

VARIABLES
  dim,        \* the published version of the dimension
  replayed,   \* the dimension loaded from file and journal
  jobs        \* committed jobs

vars == <<dim, replayed, jobs>>

Type == {"UNDEFINED", "NUMERIC", "STRING", "CONSOLIDATED"}

(* A request's list of children with their weights, no child twice.        *)
ChildrenUpTo(n) ==
  UNION {[S -> Weight] : S \in {T \in SUBSET Element : Cardinality(T) <= n}}
Children == ChildrenUpTo(MaxList)

NoChildren == [x \in {} |-> 0]

Nought == [e \in Element |-> 0]

Exists(d, e) == d.type[e] # "UNDEFINED"

IsStringElement(d, e) ==
  \/ d.type[e] = "STRING"
  \/ d.type[e] = "CONSOLIDATED" /\ d.isStringConsolidation[e]

hasStringChild(d, e) == \E c \in DOMAIN d.children[e] : IsStringElement(d, c)

(* Cube::deleteElement with DEL_STR: the string values of e are deleted.   *)
removeElementFromCubes(d, e) == [d EXCEPT !.lostStrings = @ \union {e}]

---------------------------------------------------------------------------
(* String consolidations                                                   *)

(* A consolidation that is numeric now loses its string values.            *)
FlagToggled(d, e) ==
  [IF d.isStringConsolidation[e] THEN removeElementFromCubes(d, e) ELSE d EXCEPT
     !.isStringConsolidation[e] = ~@]

(* oneNewChild is Null when more than one child may have changed.          *)
RECURSIVE checkUpdateConsolidationType(_, _, _)
checkUpdateConsolidationType(d, e, oneNewChild) ==
  LET newISC == IF oneNewChild = Null THEN hasStringChild(d, e)
                ELSE \/ IsStringElement(d, oneNewChild)
                     \/ d.isStringConsolidation[e] /\ hasStringChild(d, e)
  IN IF d.isStringConsolidation[e] = newISC THEN d
     ELSE FoldLeft(LAMBDA acc, p : checkUpdateConsolidationType(acc, p, Null),
                   FlagToggled(d, e), d.parents[e])

UpdateParents(d, e, child) ==
  FoldLeft(LAMBDA acc, p : checkUpdateConsolidationType(acc, p, child),
           d, d.parents[e])

---------------------------------------------------------------------------
(* Children and types                                                      *)

removeParentInChildren(d, p, kids) ==
  [d EXCEPT !.parents =
     [e \in Element |-> IF e \in kids THEN SelectSeq(@[e], LAMBDA x : x # p)
                        ELSE @[e]]]

(* e loses its children and with them its string consolidation.            *)
Bared(d, e) ==
  [removeParentInChildren(d, e, DOMAIN d.children[e]) EXCEPT
     !.children[e] = NoChildren,
     !.isStringConsolidation[e] = FALSE,
     !.changedElementsInfo = d.children[e] # NoChildren \/ @]

(* Mutant: the parents of the bared element are not looked at.             *)
removeChildrenOnly(d, e, changingToString) == Bared(d, e)

removeChildren(d, e, changingToString) ==
  IF d.children[e] # NoChildren /\ d.isStringConsolidation[e]
  THEN UpdateParents(IF changingToString THEN Bared(d, e)
                     ELSE removeElementFromCubes(Bared(d, e), e), e, Null)
  ELSE Bared(d, e)

Log(d, command) == [d EXCEPT !.journal = Append(@, command)]

(* Mutant: the children are removed at once.                               *)
removeAllChildrenNow(d, e, keep) ==
  Log(removeChildren(d, e, FALSE), [cmd |-> "REMOVE_CHILDREN", e |-> e])

(* Mutant: the journal does not learn which children stay.                 *)
removeChildrenUnlogged(d, e, keep) ==
  IF keep = {}
  THEN Log(removeChildren(d, e, FALSE), [cmd |-> "REMOVE_CHILDREN", e |-> e])
  ELSE [removeParentInChildren(d, e, DOMAIN d.children[e] \ keep) EXCEPT
          !.changedElementsInfo = TRUE]

(* Called by the jobs: with useJournal the children stay until addChildren *)
(* replaces them.                                                          *)
removeChildrenNotInJournal(d, e, keep) ==
  IF d.children[e] = NoChildren
  THEN IF keep = {} THEN removeChildren(d, e, FALSE) ELSE d
  ELSE IF keep = {}
  THEN Log(removeChildren(d, e, FALSE), [cmd |-> "REMOVE_CHILDREN", e |-> e])
  ELSE Log([removeParentInChildren(d, e, DOMAIN d.children[e] \ keep) EXCEPT
              !.changedElementsInfo = TRUE],
           [cmd |-> "REMOVE_CHILDREN_NOT_IN", e |-> e, keep |-> keep])

NumericAgain(d, e) ==
  IF d.isStringConsolidation[e] /\ ~hasStringChild(d, e)
  THEN UpdateParents(removeElementFromCubes(
         [d EXCEPT !.isStringConsolidation[e] = FALSE], e), e, Null)
  ELSE d

(* Called by the replay of the journal.                                    *)
removeChildrenNotIn(d, e, keep) ==
  IF d.children[e] = NoChildren THEN d
  ELSE NumericAgain(
         [removeParentInChildren(d, e, DOMAIN d.children[e] \ keep) EXCEPT
            !.children[e] = [c \in DOMAIN @ \intersect keep |-> @[c]],
            !.changedElementsInfo = TRUE], e)

(* doRemove is FALSE in addChildren only, which deletes the cells itself.  *)
LeftType(d, e, t, doRemove) ==
  IF d.type[e] = "CONSOLIDATED" THEN removeChildren(d, e, t = "STRING")
  ELSE IF doRemove /\ d.type[e] = "STRING" THEN removeElementFromCubes(d, e)
  ELSE d

changeElementType(d, e, t, setConsolidated, doRemove) ==
  IF d.type[e] = t \/ (t = "CONSOLIDATED" /\ ~setConsolidated) THEN d
  ELSE [UpdateParents([LeftType(d, e, t, doRemove) EXCEPT !.type[e] = t], e, e) EXCEPT
          !.changedElementsInfo = TRUE,
          !.journal = IF t = "CONSOLIDATED" THEN @
                      ELSE Append(@, [cmd |-> "REPLACE", e |-> e, t |-> t])]

---------------------------------------------------------------------------
(* Base elements, level, depth, indent                                     *)

(* The weighted sets: Null or a function from elements to weights.         *)
WeightOf(ws, x) == IF ws # Null /\ x \in DOMAIN ws THEN ws[x] ELSE 0
DomainOf(ws) == IF ws = Null THEN {} ELSE DOMAIN ws

Plus(ws, ws2, factor) ==
  [x \in DomainOf(ws) \union DOMAIN ws2 |->
     WeightOf(ws, x) + factor * WeightOf(ws2, x)]

Minus(ws, ws2, factor) ==
  [x \in {y \in DOMAIN ws \union DOMAIN ws2 :
            ~ (/\ y \in DOMAIN ws \intersect DOMAIN ws2
               /\ ws[y] = factor * ws2[y])} |->
     WeightOf(ws, x) - factor * WeightOf(ws2, x)]

RECURSIVE addBaseElements(_, _, _, _)
addBaseElements(d, e, ws, factor) ==
  FoldLeft(LAMBDA acc, p :
             addBaseElements(acc, p, ws, factor * d.children[p][e]),
           [d EXCEPT !.base[e] = Plus(@, ws, factor)], d.parents[e])

(* Going up, the factor is not multiplied by the weight of the element.    *)
RECURSIVE removeBaseElements(_, _, _, _)
removeBaseElements(d, e, ws, factor) ==
  IF d.base[e] = Null THEN d
  ELSE FoldLeft(LAMBDA acc, p : removeBaseElements(acc, p, ws, factor),
                [d EXCEPT !.base[e] = Minus(@, ws, factor)], d.parents[e])

RECURSIVE ancestors(_, _)
ancestors(d, e) ==
  ToSet(d.parents[e]) \union UNION {ancestors(d, p) : p \in ToSet(d.parents[e])}

(* removeBaseElement visits every ancestor of e once; WeightedSet::weight  *)
(* throws where e is not a base element of it.                             *)
removeBaseElement(d, e) ==
  LET with == {a \in ancestors(d, e) : d.base[a] # Null}
  IN IF \E a \in with : e \notin DOMAIN d.base[a]
     THEN [d EXCEPT !.failed = TRUE]
     ELSE [d EXCEPT !.base = [a \in Element |->
             IF a \in with THEN [x \in DOMAIN @[a] \ {e} |-> @[a][x]] ELSE @[a]]]

AtLeast(x, y) == IF x >= y THEN x ELSE y

RECURSIVE updateDepthAndIndent(_, _, _)
updateDepthAndIndent(d, e, newParent) ==
  LET depth == AtLeast(d.depth[e], d.depth[newParent] + 1)
      indent == IF d.parents[e][1] = newParent THEN d.indent[newParent] + 1
                ELSE d.indent[e]
      set == [d EXCEPT !.depth[e] = depth, !.indent[e] = indent,
                       !.maxDepth = AtLeast(@, depth),
                       !.maxIndent = AtLeast(@, indent)]
  IN IF depth = d.depth[e] /\ indent = d.indent[e] THEN d
     ELSE FoldSet(LAMBDA c, acc : updateDepthAndIndent(acc, c, e), set,
                  DOMAIN d.children[e])

RECURSIVE updateLevel(_, _, _)
updateLevel(d, e, newChildren) ==
  LET level == FoldSet(LAMBDA c, l : AtLeast(l, d.level[c] + 1), d.level[e],
                       newChildren)
      set == [d EXCEPT !.level[e] = level, !.maxLevel = AtLeast(@, level)]
  IN IF level = d.level[e] THEN d
     ELSE FoldLeft(LAMBDA acc, p : updateLevel(acc, p, {e}), set, d.parents[e])

(* The new sum of a consolidation: a child without base elements counts    *)
(* itself.                                                                 *)
BasesOfChild(base, c) ==
  IF DomainOf(base[c]) = {} THEN [x \in {c} |-> 1] ELSE base[c]

SumOfChildren(base, kids) ==
  FoldSet(LAMBDA c, ws : Plus(ws, BasesOfChild(base, c), kids[c]),
          NoChildren, DOMAIN kids)

(* Everything is computed again, children before their parents; string     *)
(* elements keep the base elements they have.                              *)
updateElementsInfo(d) ==
  LET base[e \in Element] ==
        IF d.type[e] \in {"UNDEFINED", "STRING"} THEN d.base[e]
        ELSE IF d.children[e] # NoChildren
        THEN SumOfChildren([c \in DOMAIN d.children[e] |-> base[c]], d.children[e])
        ELSE IF DomainOf(d.base[e]) = {} THEN d.base[e] ELSE Null
      level[e \in Element] ==
        FoldSet(LAMBDA c, l : AtLeast(l, level[c] + 1), 0, DOMAIN d.children[e])
      depth[e \in Element] ==
        FoldSet(LAMBDA p, l : AtLeast(l, depth[p] + 1), 0, ToSet(d.parents[e]))
      indent[e \in Element] ==
        IF ~Exists(d, e) THEN 0
        ELSE IF d.parents[e] = <<>> THEN 1 ELSE indent[d.parents[e][1]] + 1
      Most(f) == FoldSet(LAMBDA e, m : AtLeast(m, f[e]), 0, Element)
  IN IF ~d.changedElementsInfo THEN d
     ELSE [d EXCEPT !.base = base, !.level = level, !.depth = depth,
                    !.indent = indent, !.changedElementsInfo = FALSE,
                    !.maxLevel = Most(level), !.maxDepth = Most(depth),
                    !.maxIndent = Most(indent)]

(* One child of an append; oldChildren is the parent's list before it.     *)
UpdateInfoOfChild(d, parent, child, weight, oldChildren) ==
  LET ws == IF d.base[child] = Null THEN [x \in {child} |-> 1] ELSE d.base[child]
  IN updateDepthAndIndent(
       addBaseElements(IF child \in DOMAIN oldChildren
                       THEN removeBaseElements(d, parent, ws, oldChildren[child])
                       ELSE d,
                       parent, ws, weight),
       child, parent)

UpdateInfoOfChildren(d, parent, list, oldChildren) ==
  updateLevel(FoldSet(LAMBDA c, acc :
                        UpdateInfoOfChild(acc, parent, c, list[c], oldChildren),
                      d, DOMAIN list),
              parent, DOMAIN list)

(* Mutant: the element stays a base element of its ancestors.              *)
UpdateInfoKeepBase(d, parent, list, oldChildren, baseToCons) ==
  [UpdateInfoOfChildren(d, parent, list, oldChildren) EXCEPT
     !.changedElementsInfo = FALSE]

UpdateInfoOfParent(d, parent, list, oldChildren, baseToCons) ==
  [IF baseToCons
   THEN removeBaseElement(UpdateInfoOfChildren(d, parent, list, oldChildren), parent)
   ELSE UpdateInfoOfChildren(d, parent, list, oldChildren) EXCEPT
     !.changedElementsInfo = FALSE]

---------------------------------------------------------------------------
(* addChildren                                                             *)

RECURSIVE descendants(_, _)
descendants(d, S) ==
  IF S = {} THEN {}
  ELSE S \union descendants(d, UNION {DOMAIN d.children[c] : c \in S})

FlagSet(isString, e, d) ==
  IF d.isStringConsolidation[e] = isString THEN d
  ELSE UpdateParents([d EXCEPT !.isStringConsolidation[e] = isString], e, Null)

addChildrenNC(d, parent, list, preserveOrder) ==
  LET known == IF preserveOrder THEN DOMAIN list \intersect DOMAIN d.children[parent]
               ELSE {}
      fresh == DOMAIN list \ known
      stringChild == \E c \in fresh : \/ d.type[c] = "STRING"
                                      \/ d.isStringConsolidation[c]
      isString == IF d.isStringConsolidation[parent]
                  THEN stringChild \/ preserveOrder ELSE stringChild
  IN FlagSet(isString, parent, [d EXCEPT
        !.changedElementsInfo = TRUE,
        !.children[parent] =
           [c \in DOMAIN list \union (IF preserveOrder THEN DOMAIN @ ELSE {}) |->
              IF c \in DOMAIN list THEN list[c] ELSE @[c]],
        !.parents = [e \in Element |->
           IF e \in fresh /\ parent \notin ToSet(@[e]) THEN Append(@[e], parent)
           ELSE @[e]]])

(* What was a string element and is one no longer loses its values.        *)
LoseStrings(wasString, e, d) ==
  IF wasString /\ ~IsStringElement(d, e) THEN removeElementFromCubes(d, e) ELSE d

addChildren(d, parent, list, preserveOrder, updateElementInfo) ==
  LET noChange == /\ preserveOrder
                  /\ \A c \in DOMAIN list : /\ c \in DOMAIN d.children[parent]
                                            /\ list[c] = d.children[parent][c]
      refused == \/ parent \in DOMAIN list
                 \/ \E c \in DOMAIN list : ~Exists(d, c)
                 \/ ToSet(d.parents[parent]) \intersect descendants(d, DOMAIN list) # {}
      inPlace == updateElementInfo /\ ~d.changedElementsInfo
      linked == LoseStrings(IsStringElement(d, parent), parent,
                  addChildrenNC(
                    changeElementType(d, parent, "CONSOLIDATED", TRUE, FALSE),
                    parent, list, preserveOrder))
  IN IF list = NoChildren \/ noChange THEN d
     ELSE IF refused THEN [d EXCEPT !.failed = TRUE]
     ELSE Log(IF inPlace
              THEN UpdateInfoOfParent(linked, parent, list, d.children[parent],
                                      d.type[parent] # "CONSOLIDATED")
              ELSE linked,
              [cmd |-> "APPEND", e |-> parent, list |-> list])

---------------------------------------------------------------------------
(* Creating and destroying elements                                        *)

addElement(d, e, t) ==
  Log([d EXCEPT !.type[e] = IF t = "CONSOLIDATED" THEN "NUMERIC" ELSE t,
                !.indent[e] = 1,
                !.maxIndent = AtLeast(@, 1)],
      [cmd |-> "CREATE", e |-> e, t |-> t])

(* A consolidation that lost its last child becomes numeric.               *)
NumericIfBare(p, d) ==
  IF d.children[p] = NoChildren THEN changeElementType(d, p, "NUMERIC", FALSE, TRUE)
  ELSE d

StringsRechecked(isString, p, d) ==
  IF isString THEN checkUpdateConsolidationType(d, p, Null) ELSE d

removeChildInParents(d, e, isString) ==
  LET Leave(acc, p) ==
        StringsRechecked(isString, p, NumericIfBare(p,
          [acc EXCEPT !.children[p] = [c \in DOMAIN @ \ {e} |-> @[c]]]))
  IN [FoldLeft(Leave, d, d.parents[e]) EXCEPT !.parents[e] = <<>>]

(* Mutant: the children keep the destroyed parent.                         *)
_destroyKeepingChildren(d, e) ==
  removeChildInParents([d EXCEPT !.children[e] = NoChildren], e,
                       d.type[e] = "STRING")

_destroyElementLeavePosition(d, e) ==
  LET childless == IF d.type[e] = "CONSOLIDATED"
                   THEN [removeParentInChildren(d, e, DOMAIN d.children[e]) EXCEPT
                           !.children[e] = NoChildren]
                   ELSE d
  IN removeChildInParents(childless, e, d.type[e] = "STRING")

(* The elements are taken in the order of their positions, then released.  *)
deleteElements(d, list) ==
  LET gone == ToSet(list)
  IN Log([FoldLeft(_destroyElementLeavePosition, d, list) EXCEPT
            !.type = [e \in Element |-> IF e \in gone THEN "UNDEFINED" ELSE @[e]],
            !.isStringConsolidation = [e \in Element |-> e \notin gone /\ @[e]],
            !.base = [e \in Element |-> IF e \in gone THEN Null ELSE @[e]],
            !.changedElementsInfo = TRUE],
         [cmd |-> "DESTROY", list |-> list])

(* dimension/clear without a type, in a dimension without protected        *)
(* elements.                                                               *)
clearElements(d) ==
  Log([d EXCEPT !.type = [e \in Element |-> "UNDEFINED"],
                !.children = [e \in Element |-> NoChildren],
                !.parents = [e \in Element |-> <<>>],
                !.isStringConsolidation = [e \in Element |-> FALSE],
                !.base = [e \in Element |-> Null],
                !.level = Nought, !.depth = Nought, !.indent = Nought,
                !.maxLevel = 0, !.maxDepth = 0, !.maxIndent = 0,
                !.changedElementsInfo = FALSE,
                !.lostStrings = Element],
      [cmd |-> "CLEAR"])

---------------------------------------------------------------------------
(* File and journal                                                        *)

(* What loadDimension makes of the saved elements.                         *)
LoadedType(d) ==
  [e \in Element |-> IF d.type[e] = "CONSOLIDATED" /\ d.children[e] = NoChildren
                     THEN "NUMERIC" ELSE d.type[e]]

loadDimension(d) ==
  updateElementsInfo(
    [d EXCEPT !.type = LoadedType(d),
              !.isStringConsolidation =
                 [e \in Element |-> LoadedType(d)[e] = "CONSOLIDATED" /\ @[e]],
              !.base = [e \in Element |-> Null],
              !.changedElementsInfo = TRUE,
              !.lostStrings = {}])

JournalCommand(d, c, inBulk) ==
  CASE c.cmd = "CREATE" -> addElement(d, c.e, c.t)
    [] c.cmd = "APPEND" -> addChildren(d, c.e, c.list, TRUE, ~inBulk)
    [] c.cmd = "REPLACE" -> changeElementType(d, c.e, c.t, FALSE, TRUE)
    [] c.cmd = "REMOVE_CHILDREN" -> removeChildren(d, c.e, FALSE)
    [] c.cmd = "REMOVE_CHILDREN_NOT_IN" -> removeChildrenNotIn(d, c.e, c.keep)
    [] c.cmd = "DESTROY" -> deleteElements(d, c.list)
    [] c.cmd = "CLEAR" -> clearElements(d)

(* Between the commands of a bulk request nothing is computed again.       *)
Refreshed(inBulk, d) == IF inBulk THEN d ELSE updateElementsInfo(d)

processJournalCommand(d, c, inBulk) ==
  IF d.failed THEN d ELSE Refreshed(inBulk, JournalCommand(d, c, inBulk))

(* A command that fails ends the start of the server.                      *)
Replayed(before, done) ==
  IF done.failed THEN [before EXCEPT !.failed = TRUE]
  ELSE [updateElementsInfo(done) EXCEPT !.journal = <<>>, !.lostStrings = {}]

Replay(d, commands, inBulk) ==
  Replayed(d, FoldLeft(LAMBDA acc, c : processJournalCommand(acc, c, inBulk),
                       d, commands))

---------------------------------------------------------------------------
(* Jobs                                                                    *)

Start == [dim EXCEPT !.lostStrings = {}]

(* A job whose handler throws changes nothing.                             *)
Commit(d, inBulk) ==
  /\ jobs < MaxJobs
  /\ ~d.failed
  /\ dim' = [d EXCEPT !.journal = <<>>]
  /\ replayed' = Replay(replayed, d.journal, inBulk)
  /\ jobs' = jobs + 1

ElementCreate(e, t, list) ==
  /\ ~Exists(dim, e)
  /\ Commit(IF t = "CONSOLIDATED"
            THEN updateElementsInfo(
                   addChildren(addElement(Start, e, t), e, list, FALSE, FALSE))
            ELSE addElement(Start, e, t),
            FALSE)

ElementAppend(e, list) ==
  /\ Exists(dim, e)
  /\ list # NoChildren
  /\ Commit(addChildren(Start, e, list, TRUE, TRUE), FALSE)

ReplaceChildren(d, e, t, list) ==
  IF t = "CONSOLIDATED"
  THEN addChildren(removeChildrenNotInJournal(d, e, DOMAIN list), e, list, FALSE, FALSE)
  ELSE d

(* The loop body of element/replace_bulk, and of element/replace but for   *)
(* an empty list.                                                          *)
ReplaceOne(d, e, t, list) ==
  IF d.failed THEN d
  ELSE ReplaceChildren(changeElementType(d, e, t, FALSE, TRUE), e, t, list)

NumericIfEmpty(d, e, t, list) ==
  IF t = "CONSOLIDATED" /\ list = NoChildren
  THEN changeElementType(d, e, "NUMERIC", FALSE, TRUE) ELSE d

ElementReplace(e, t, list) ==
  /\ Exists(dim, e)
  /\ Commit(updateElementsInfo(
              NumericIfEmpty(ReplaceOne(Start, e, t, list), e, t, list)), FALSE)

(* The same children for several elements.                                 *)
ElementReplaceBulk(elements, list) ==
  /\ \A e \in ToSet(elements) : Exists(dim, e)
  /\ Commit(updateElementsInfo(
              FoldLeft(LAMBDA acc, e : ReplaceOne(acc, e, "CONSOLIDATED", list),
                       Start, elements)),
            TRUE)

ElementDestroy(elements) ==
  /\ \A e \in ToSet(elements) : Exists(dim, e)
  /\ Commit(updateElementsInfo(deleteElements(Start, elements)), FALSE)

(* Of one type: an element is complete before the next one is created, and *)
(* the children are looked up before the first one.                        *)
CreateOne(d, e, t, list) ==
  IF t = "CONSOLIDATED"
  THEN addChildren(addElement(d, e, t), e, list, FALSE, FALSE)
  ELSE addElement(d, e, t)

ElementCreateBulk(elements, t, list) ==
  /\ \A e \in ToSet(elements) : ~Exists(dim, e)
  /\ \A c \in DOMAIN list : Exists(dim, c)
  /\ Commit(updateElementsInfo(
              FoldLeft(LAMBDA acc, e : IF acc.failed THEN acc
                                       ELSE CreateOne(acc, e, t, list),
                       Start, elements)),
            TRUE)

(* Of different types: all the elements come before any children, which    *)
(* may be new ones.                                                        *)
ElementCreateBulkTypes(elements, types, list) ==
  /\ \A e \in ToSet(elements) : ~Exists(dim, e)
  /\ Commit(updateElementsInfo(
              FoldLeft(LAMBDA acc, e :
                         IF acc.failed \/ types[e] # "CONSOLIDATED" THEN acc
                         ELSE addChildren(acc, e, list, FALSE, FALSE),
                       FoldLeft(LAMBDA acc, e : addElement(acc, e, types[e]),
                                Start, elements),
                       elements)),
            TRUE)

DimensionClear == Commit(clearElements(Start), FALSE)

(* dimension/clear of one type; the elements in the order of positions.    *)
DimensionClearType(t) ==
  \E list \in SetToSeqs({e \in Element : dim.type[e] = t}) :
    Commit(updateElementsInfo(deleteElements(Start, list)), FALSE)

(* The database is saved, the journal archived.                            *)
Save ==
  /\ replayed' = loadDimension(dim)
  /\ UNCHANGED <<dim, jobs>>

(* The server stops and starts.                                            *)
Restart ==
  /\ ~replayed.failed
  /\ dim' = replayed
  /\ UNCHANGED <<replayed, jobs>>

---------------------------------------------------------------------------

Flat(types) ==
  [type |-> types,
   children |-> [e \in Element |-> NoChildren],
   parents |-> [e \in Element |-> <<>>],
   isStringConsolidation |-> [e \in Element |-> FALSE],
   base |-> [e \in Element |-> Null],
   level |-> Nought, depth |-> Nought, indent |-> Nought,
   maxLevel |-> 0, maxDepth |-> 0, maxIndent |-> 0,
   changedElementsInfo |-> TRUE,
   lostStrings |-> {}, journal |-> <<>>, failed |-> FALSE]

(* A dimension just loaded from its file, without consolidations.          *)
Init ==
  \E types \in Initial :
    /\ dim = loadDimension(Flat(types))
    /\ replayed = dim
    /\ jobs = 0

Next ==
  \/ \E e \in Element, t \in Type \ {"UNDEFINED"}, list \in Children :
       /\ t = "CONSOLIDATED" \/ list = NoChildren
       /\ ElementCreate(e, t, list) \/ ElementReplace(e, t, list)
  \/ \E e \in Element, list \in Children : ElementAppend(e, list)
  \/ \E es \in Batches, list \in ChildrenUpTo(MaxBulk) : ElementReplaceBulk(es, list)
  \/ \E es \in Batches : ElementDestroy(es)
  \/ \E es \in Batches, t \in Type \ {"UNDEFINED"}, list \in ChildrenUpTo(MaxBulk) :
       /\ t = "CONSOLIDATED" \/ list = NoChildren
       /\ ElementCreateBulk(es, t, list)
  \/ \E es \in Batches, list \in ChildrenUpTo(MaxBulk) :
       \E types \in [ToSet(es) -> Type \ {"UNDEFINED"}] :
         ElementCreateBulkTypes(es, types, list)
  \/ DimensionClear
  \/ \E t \in Type \ {"UNDEFINED"} : DimensionClearType(t)
  \/ Save
  \/ Restart

Spec == Init /\ [][Next]_vars

---------------------------------------------------------------------------
(* What the derived data should be, stated by paths                        *)

(* The weight of x under e, over the paths of n steps.                     *)
RECURSIVE PathWeight(_, _, _, _)
PathWeight(d, n, e, x) ==
  IF n = 0 THEN IF e = x THEN 1 ELSE 0
  ELSE FoldSet(LAMBDA c, sum : sum + d.children[e][c] * PathWeight(d, n - 1, c, x),
               0, DOMAIN d.children[e])

SumOver(f, S) == FoldSet(LAMBDA n, sum : sum + f[n], 0, S)
Steps == 1 .. Cardinality(Element) - 1

Leaf(d, e) == Exists(d, e) /\ d.children[e] = NoChildren

RECURSIVE Chain(_, _, _)
Chain(d, up, e) ==
  LET next == IF up THEN ToSet(d.parents[e]) ELSE DOMAIN d.children[e]
  IN FoldSet(LAMBDA x, l : AtLeast(l, 1 + Chain(d, up, x)), 0, next)

RECURSIVE FirstParents(_, _)
FirstParents(d, e) ==
  IF d.parents[e] = <<>> THEN 1 ELSE 1 + FirstParents(d, d.parents[e][1])

InfoExact(d) ==
  \A e \in Element : Exists(d, e) =>
    /\ \A x \in Element :
         WeightOf(d.base[e], x) =
           IF Leaf(d, e) \/ ~Leaf(d, x) THEN 0
           ELSE SumOver([n \in Steps |-> PathWeight(d, n, e, x)], Steps)
    /\ d.level[e] = Chain(d, FALSE, e) /\ d.level[e] <= d.maxLevel
    /\ d.depth[e] = Chain(d, TRUE, e) /\ d.depth[e] <= d.maxDepth
    /\ d.indent[e] = FirstParents(d, e) /\ d.indent[e] <= d.maxIndent

FlagsExact(d) ==
  \A e \in Element : d.isStringConsolidation[e] <=>
                        d.type[e] = "CONSOLIDATED" /\ hasStringChild(d, e)

---------------------------------------------------------------------------
(* Properties                                                              *)

TypeOK ==
  /\ jobs \in 0 .. MaxJobs
  /\ \A d \in {dim, replayed} :
       /\ d.type \in [Element -> Type]
       /\ d.isStringConsolidation \in [Element -> BOOLEAN]
       /\ d.journal = <<>> /\ ~d.changedElementsInfo
  /\ ~dim.failed

(* Parents and children mirror each other without repetition, no element   *)
(* is above itself, only consolidations have children, and a destroyed     *)
(* element is nobody's parent or child.                                    *)
HierarchySound ==
  \A d \in {dim, replayed} : \A e \in Element :
    /\ \A p \in Element :
         p \in ToSet(d.parents[e]) <=> e \in DOMAIN d.children[p]
    /\ Cardinality(ToSet(d.parents[e])) = Len(d.parents[e])
    /\ e \notin ancestors(d, e)
    /\ d.children[e] # NoChildren => d.type[e] = "CONSOLIDATED"
    /\ ~Exists(d, e) => d.parents[e] = <<>>

(* A start of the server builds from file and journal the hierarchy the    *)
(* jobs left: same types, children, weights and order of parents, although *)
(* a replace is replayed as a removal and an append, and a destroyed child *)
(* first makes its parent numeric.                                         *)
ReplayAgrees ==
  replayed.failed \/
    /\ LoadedType(replayed) = LoadedType(dim)
    /\ replayed.children = dim.children
    /\ replayed.parents = dim.parents

(* The children of an element changed, some of the old ones kept, below a  *)
(* weight other than 1.                                                    *)
ChangedBelowWeight ==
  \E p \in Element :
    /\ dim.children[p] # dim'.children[p]
    /\ DOMAIN dim.children[p] \intersect DOMAIN dim'.children[p] # {}
    /\ \E a \in ancestors(dim', p) \union {p} : \E g \in ToSet(dim'.parents[a]) :
         dim'.children[g][a] # 1

StaleString(d) == \E e \in Element : d.type[e] = "STRING" /\ d.base[e] # Null
Childless(d) ==
  \E e \in Element : d.type[e] = "CONSOLIDATED" /\ d.children[e] = NoChildren

(* Base elements with their weights, levels, depths and indents follow the *)
(* hierarchy, whether a job updates them in place or computes them again.  *)
(* Left out: a list changed below a weight other than 1, a consolidation   *)
(* turned into a string element, a consolidation left without children by  *)
(* element/replace_bulk, and what a replay got wrong before.               *)
InfoFollows ==
  [][ InfoExact(dim) /\ InfoExact(replayed)
      /\ ~Childless(dim) /\ ~ChangedBelowWeight /\ ~StaleString(dim')
      => InfoExact(dim') ]_vars

(* addChildren adds the base elements of the children to the parent and to *)
(* every ancestor (the comment at Dimension.cpp:1607), also of a child the *)
(* parent had with another weight: what an append leaves is exact.         *)
AppendKeepsInfo ==
  [][ InfoExact(dim) /\ ~Childless(dim) /\ ~StaleString(dim')
      /\ (\E e \in Element : dim'.children[e] # dim.children[e])
      => InfoExact(dim') ]_dim

(* A consolidation is a string consolidation exactly when one of its       *)
(* children is a string element, in the live dimension and in the one a    *)
(* start builds.  Left out: a string consolidation is destroyed.           *)
StringFlagsFollow ==
  [][ /\ FlagsExact(dim) /\ FlagsExact(replayed)
      /\ \A e \in Element : dim.isStringConsolidation[e] => Exists(dim', e)
      => FlagsExact(dim') /\ (replayed'.failed \/ FlagsExact(replayed')) ]_vars

(* An element that was and still is a string element keeps its string      *)
(* values.  Left out: some string element changed between STRING and       *)
(* string consolidation.                                                   *)
StringsKept ==
  [][ (\A e \in Element : /\ IsStringElement(dim, e)
                          /\ IsStringElement(dim', e)
                          => dim'.type[e] = dim.type[e])
      => \A e \in dim'.lostStrings \ dim.lostStrings :
           ~ (IsStringElement(dim, e) /\ IsStringElement(dim', e)) ]_vars
=============================================================================
