------------------------------ MODULE MCCubeLock ------------------------------
(* Instances of CubeLock for TLC.                                          *)
EXTENDS CubeLock

CONSTANTS anne, bert, root, c1, c2, j1, j2, j3, j4, j5

Of(op, u) == [op |-> op, user |-> u]
Area(u, area) == [op |-> "lock", user |-> u, area |-> area]
Undo(u, n) == [op |-> "rollback", user |-> u, steps |-> n]
Write(u, c) == [op |-> "replace", user |-> u, cell |-> c]

Asked(a) ==
  [j \in Job |-> a[CASE j = j1 -> 1 [] j = j2 -> 2 [] j = j3 -> 3
                     [] j = j4 -> 4 [] j = j5 -> 5]]

(* An area is locked, written by its owner and others, and rolled back.    *)
Undoes == {
  <<Area(anne, {c1}), Write(anne, c1), Write(anne, c1), Write(bert, c2), Undo(anne, 0)>>,
  <<Area(anne, {c1, c2}), Write(anne, c1), Write(anne, c2), Undo(root, 1), Undo(anne, 0)>>,
  <<Area(anne, {c1}), Write(bert, c1), Write(anne, c1), Of("clear", bert), Undo(anne, 1)>>,
  <<Area(anne, {c1}), Write(anne, c1), Write(anne, c1), Undo(anne, 1), Write(bert, c2)>>}

(* Areas are locked at the same time and committed by either user.         *)
Areas == {
  <<Area(anne, {c1}), Area(bert, {c2}), Of("commit", anne), Write(bert, c2), Of("clear", root)>>,
  <<Area(anne, {c1}), Area(anne, {c1, c2}), Of("commit", root), Write(anne, c1), Undo(anne, 0)>>}

(* The whole cube is locked, written, committed, and locked again.         *)
Wholes == {
  <<Of("lock_complete", anne), Write(anne, c1), Write(anne, c2), Of("commit", anne), Write(bert, c1)>>,
  <<Of("lock_complete", anne), Of("rename", anne), Of("commit", root), Of("commit", anne), Area(bert, {c1})>>,
  <<Of("lock_complete", anne), Of("lock_complete", bert), Area(anne, {c1}), Of("commit", anne), Undo(anne, 0)>>}

MCAll == {Asked(a) : a \in Undoes \union Areas \union Wholes}

=============================================================================
