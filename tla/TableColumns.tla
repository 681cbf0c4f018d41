---------------------------- MODULE TableColumns ----------------------------
(***************************************************************************)
(* The columns and indexes of gravitino_table: how a plan is made canonical, *)
(* which changes replace the table, the ordered list of update requests one *)
(* PUT carries for the rest, and what Gravitino makes of that list.          *)
(*                                                                         *)
(* A column is a record of its name, type, comment, nullability, default     *)
(* value and auto increment; type 1 is also written 11, which the provider   *)
(* spells 1.                                                               *)
(***************************************************************************)
EXTENDS TerraformValues, Sequences, Integers
LOCAL INSTANCE SequencesExt

NamesOf(cols) == [i \in DOMAIN cols |-> cols[i].name]
Named(cols, n) == cols[CHOOSE i \in DOMAIN cols : cols[i].name = n]

\* canonicalisePlan, for one column.
CanonicalType(t) == IF t = 11 THEN 1 ELSE t
CanonicalColumn(c) == [c EXCEPT !.type = CanonicalType(@),
                                !.comment = OptionalStringToTF(@)]
CanonicalColumns(cols) == [i \in DOMAIN cols |-> CanonicalColumn(cols[i])]

\* TableColumnsFromModel and TableColumnsToModel: a comment that is not set is sent
\* as "", and shown as not set.
ColumnsToServer(cols) ==
  [i \in DOMAIN cols |-> [cols[i] EXCEPT !.comment = IF @ = Null THEN "" ELSE @]]
ColumnsFromServer(cols) ==
  [i \in DOMAIN cols |-> [cols[i] EXCEPT !.comment = OptionalStringToTF(@)]]

\* Neither the set of names nor a default value can be taken back in place.
ColumnsReplaceRequired(p, s) ==
  \/ ToSet(NamesOf(p)) # ToSet(NamesOf(s))
  \/ \E c \in ToSet(s) : c.default # Null /\ Named(p, c.name).default = Null

\* Update requests of one column, in the order of its attributes.  There is none for
\* auto_increment.
Updatable == <<"type", "comment", "nullable", "default">>
ColumnUpdate(n, f, v) == [op |-> f, col |-> n, value |-> v]
OneColumnUpdates(d, c) ==
  LET changed == SelectSeq(Updatable, LAMBDA f : d[f] # c[f])
  IN [i \in DOMAIN changed |-> ColumnUpdate(c.name, changed[i], d[changed[i]])]

\* All positions are sent as soon as one differs: the first column, then each one
\* after the one before it.  A mutation run sends them last column first.
Positions(names) ==
  [i \in DOMAIN names |-> ColumnUpdate(names[i], "move", IF i = 1 THEN Null
                                                         ELSE names[i - 1])]
PositionUpdatesReversed(p, s) ==
  IF NamesOf(p) = NamesOf(s) THEN <<>> ELSE Reverse(Positions(NamesOf(p)))
PositionUpdates(p, s) ==
  IF NamesOf(p) = NamesOf(s) THEN <<>> ELSE Positions(NamesOf(p))

\* The columns of the state, then the positions.
ColumnUpdates(p, s) ==
  FlattenSeq([i \in DOMAIN s |-> OneColumnUpdates(Named(p, s[i].name), s[i])])
  \o PositionUpdates(p, s)

\* Gravitino carries a list of updates out in its order, and refuses all of it when
\* a column one of them names is not there.
Moved(cols, n, after) ==
  LET others == SelectSeq(cols, LAMBDA c : c.name # n)
      place == IF after = Null THEN 1
               ELSE 1 + (CHOOSE i \in DOMAIN others : others[i].name = after)
  IN InsertAt(others, place, Named(cols, n))
ColumnUpdated(cols, u) ==
  LET names == ToSet(NamesOf(cols))
  IN IF \/ cols = Null
        \/ u.col \notin names
        \/ u.op = "move" /\ u.value \notin {Null} \cup names
     THEN Null
     ELSE IF u.op = "move" THEN Moved(cols, u.col, u.value)
     ELSE [i \in DOMAIN cols |->
             IF cols[i].name # u.col THEN cols[i]
             ELSE [cols[i] EXCEPT ![u.op] =
                     IF u.op = "comment" /\ u.value = Null THEN "" ELSE u.value]]
ColumnsAfter(cols, updates) == FoldLeft(ColumnUpdated, cols, updates)

-----------------------------------------------------------------------------
(* Indexes, of which one stands for all.  They cannot be altered.           *)

\* indexesChanged: a name the plan leaves to the server does not count.
IndexChanged(p, s) ==
  (IF p.name = Unknown THEN [p EXCEPT !.name = s.name] ELSE p) # s

\* mergeTableIndexes and mergeIndexProperties: the properties that were configured,
\* with the value of the server on a refresh; an imported index is taken as it is.
MergeIndexProperties(v, m, refresh) ==
  IF m \in NotSet THEN Null ELSE IF refresh THEN ProjectProperties(v, m) ELSE m
MergeTableIndex(v, m, refresh) ==
  IF m = Null THEN [v EXCEPT !.props = MapToTF(@)]
  ELSE [v EXCEPT !.props = MergeIndexProperties(@, m.props, refresh)]

\* mergeTableProperties: all properties but the reserved ones when none are managed,
\* and those that are managed otherwise.
MergeTableProperties(v, m, refresh, reserved) ==
  LET shown == Only(v, DOMAIN v \ reserved)
  IN IF m \in NotSet THEN MapToTF(shown)
     ELSE IF refresh THEN ProjectProperties(shown, m) ELSE m
=============================================================================
