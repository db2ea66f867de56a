----------------------------- MODULE MCTablesMeta -----------------------------
(***************************************************************************)
(* Names around the alignment of 4 and at the limit of their length field, *)
(* columns of several types, column lists that may be refused; and files   *)
(* that other programs left: none, or one that load has to refuse.         *)
(***************************************************************************)
EXTENDS TablesMeta, TLC

CONSTANTS none, u, post, longest, longer

TriedNames == (none :> 0) @@ (u :> 1) @@ (post :> 4)
                @@ (longest :> 65535) @@ (longer :> 65536)

Col(n, type, capacity) == [name |-> n, type |-> type, nullable |-> FALSE,
                           primaryKey |-> FALSE, stringCapacity |-> capacity]
Nullable(column) == [column EXCEPT !.nullable = TRUE]
Key(column) == [column EXCEPT !.primaryKey = TRUE]
Id == Key(Col(u, "Int32", 0))
NullableId == Key(Nullable(Col(u, "Int64", 0)))

TriedColumns ==
  { <<>>,
    <<Id>>,
    <<NullableId>>,
    <<Col(post, "String", 65535), Nullable(Col(longest, "Double", 0))>>,
    <<Col(post, "Boolean", 0), Key(Col(u, "Byte", 0)), Nullable(Col(longest, "String", 1))>>,
    <<Id, Key(Col(post, "Int32", 0))>>,
    <<Id, Col(u, "Byte", 0)>>,
    <<Col(longer, "Int32", 0)>>, <<Col(none, "Int32", 0)>>,
    <<Col(u, "String", 0)>>, <<Col(u, "Int64", 8)>> }

TriedCuts == 0 .. 24 \cup {32}

Table(id, n, columns, first, last) ==
  [tableId |-> id, name |-> n, columns |-> columns, firstPageId |-> first, lastPageId |-> last]
One == Table(1, u, <<Id>>, 1, 1)
Holding(tables, next) ==
  LET c == [tables |-> tables, next |-> next] IN [file |-> Serialized(c), catalog |-> c]

(* A file with one field changed holds no catalog. *)
Empty == [tables |-> <<>>, next |-> 1]
Changed(o, v) == [file |-> [Serialized([tables |-> <<One>>, next |-> 2])
                              EXCEPT !.fields[o].value = v],
                  catalog |-> Empty]

FoundFiles ==
  { [file |-> Missing, catalog |-> Empty],
    Holding(<<>>, 0),
    Holding(<<One>>, 1),
    Holding(<<One, Table(1, post, <<Id>>, 2, 2)>>, 2),
    Holding(<<One, Table(2, u, <<Id>>, 2, 2)>>, 3),
    Holding(<<Table(1, u, <<Id>>, 0, 1)>>, 2),
    Holding(<<Table(1, u, <<Id>>, 1, INVALID_PAGE_ID)>>, 2),
    Holding(<<Table(1, u, <<>>, 1, 1)>>, 2),
    Holding(<<Table(1, u, <<NullableId>>, 1, 1)>>, 2),
    Changed(0, "NOPE"), Changed(36, 7), Changed(37, 4) }
=============================================================================
