------------------------------ MODULE MCRowCodec ------------------------------
(***************************************************************************)
(* Schemas with gaps between values, full and overfull null bitmaps, and   *)
(* row sizes that several of them share; rows that fit some of them.       *)
(***************************************************************************)
EXTENDS RowCodec

Column(t, nullable, capacity) ==
  [type |-> t, nullable |-> nullable, stringCapacity |-> capacity]
Flags(n) == [i \in 1 .. n |-> Column("Boolean", TRUE, 0)]

SmallSchemas ==
  { <<Column("Byte", FALSE, 0), Column("Int32", TRUE, 0)>>,
    <<Column("Boolean", TRUE, 0), Column("Int32", FALSE, 0)>>,
    <<Column("Boolean", TRUE, 0), Column("Int64", FALSE, 0)>>,
    <<Column("Boolean", TRUE, 0), Column("Int64", FALSE, 0),
      Column("Boolean", FALSE, 0), Column("Int64", TRUE, 0)>>,
    <<Column("Double", TRUE, 0), Column("Byte", TRUE, 0)>>,
    <<Column("String", FALSE, 3), Column("Int32", TRUE, 0), Column("String", TRUE, 5)>>,
    <<Column("String", FALSE, 16)>>,
    <<Column("String", TRUE, 8)>>,
    Flags(8), Flags(9) }

Given(t, payloads) == {NullValue(t)} \cup {Value(t, p) : p \in payloads}
Booleans == Given("Boolean", {<<0>>, <<1>>})
SomeBytes == Given("Byte", {<<-128>>, <<5>>})
Int32s == Given("Int32", {<<-2147483647 - 1>>, <<258>>, <<-1>>})
Int64s == Given("Int64", {<<258, -129>>, <<-1, 0>>})
Doubles == Given("Double", {<<0, 1072693248>>})
Strings == Given("String", {<<>>, <<97, 0, 98>>, <<97, 98, 99>>,
                            <<97, 98, 99, 100, 101, 102, 103, 104>>})
SomeFlags(n) == [1 .. n -> {NullValue("Boolean"), Value("Boolean", <<1>>)}]

SmallRows ==
  {<<a, b>> : a \in SomeBytes \cup Booleans, b \in Int32s}
    \cup {<<a, b>> : a \in Booleans, b \in Int64s}
    \cup {<<a, b, c, d>> : a \in Booleans, b \in Int64s, c \in Booleans, d \in Int64s}
    \cup {<<a, b>> : a \in Doubles, b \in SomeBytes}
    \cup {<<a, b, c>> : a \in Strings, b \in Int32s, c \in Strings}
    \cup {<<a>> : a \in Strings}
    \cup {f \in SomeFlags(8) \cup SomeFlags(9) : f[1].isNull # f[8].isNull}
=============================================================================
