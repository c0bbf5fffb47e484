--------------------------- MODULE JsonObjectProofs ---------------------------
(***************************************************************************)
(* Proofs about JsonObject, for every set of names, every hash function    *)
(* and every number of cells.                                              *)
(*                                                                         *)
(* A search meets an item if no cell between the home of its name and its  *)
(* own cell is empty.  Everything that is said of searches is therefore    *)
(* brought back to the cells on the way of an item; what a removal must    *)
(* not do is to empty a cell some other item is reached by.                *)
(***************************************************************************)
EXTENDS JsonObject, Integers, FiniteSets, FiniteSetTheorems, SequenceTheorems, TLAPS

\* The cell a search for the name begins at.
Home(table, name) == Hash[name] % table.capacity

\* A search from cell h on comes by cell x before it comes to cell c.
OnWay(h, x, c) == IF h <= c THEN h <= x /\ x < c ELSE x >= h \/ x < c

\* A record of the type JSON_Object.
Shape(table) ==
    /\ table = [capacity |-> table.capacity, items |-> table.items,
                cells |-> table.cells]
    /\ table.capacity \in Nat
    /\ IsTable(table)

NamesApart(table) ==
    \A k, l \in DOMAIN table.items :
        table.items[k].name = table.items[l].name => k = l

\* Items and cells name each other; the holes are cells left to be overwritten.
Linked(table, holes) ==
    /\ \A k \in DOMAIN table.items :
         InItsCell(table, k) /\ table.items[k].cell \notin holes
    /\ \A ix \in DOMAIN table.cells \ holes :
         table.cells[ix] # 0 =>
             /\ table.cells[ix] \in DOMAIN table.items
             /\ table.items[table.cells[ix]].cell = ix

\* No cell on the way of an item is empty.
WaysKept(table) ==
    \A k \in DOMAIN table.items : \A x \in DOMAIN table.cells :
        OnWay(Home(table, table.items[k].name), x, table.items[k].cell) =>
            table.cells[x] # 0

Sound(table, holes) ==
    /\ Shape(table)
    /\ NamesApart(table)
    /\ Linked(table, holes)
    /\ WaysKept(table)

Fits(table) == Len(table.items) <= item_capacity(table)

HasRoom(table) == Len(table.items) < item_capacity(table)

Absent(table, name) == \A k \in DOMAIN table.items : table.items[k].name # name

\* While the table grows, the new one holds the first of the old one's items,
\* and is large enough for all of them and one more.
Growing ==
    /\ pending \in [op : {"set", "add"}, name : Names, value : Values]
    /\ Absent(object, pending.name)
    /\ Len(fresh.items) <= Len(object.items)
    /\ \A k \in DOMAIN fresh.items : /\ fresh.items[k].name = object.items[k].name
                                     /\ fresh.items[k].value = object.items[k].value
    /\ fresh.capacity >= 2
    /\ fresh.capacity >= 2 * object.capacity

\* How far cell k lies behind cell j, of c cells that go round.
Back(k, j, c) == IF k <= j THEN j - k ELSE (j - k) + c

\* The cells looked at when the hole is i and the search for its end is at j.
Between(i, k, j) == k # i /\ (OnWay(i, k, j) \/ k = j)

\* While cells are moved back, all those looked at are occupied, at least one
\* is not, and no item of those behind the hole is reached by way of the hole.
Shifting ==
    /\ shift \in [i : DOMAIN object.cells, j : DOMAIN object.cells,
                  x : 0..(object.capacity - 1)]
    /\ Back(shift.i, shift.j, object.capacity) <= shift.x
    /\ \A c \in DOMAIN object.cells :
         Back(c, shift.j, object.capacity) <= shift.x => object.cells[c] # 0
    /\ \E c \in DOMAIN object.cells : object.cells[c] = 0
    /\ \A k \in DOMAIN object.items :
         Between(shift.i, object.items[k].cell, shift.j) =>
             ~OnWay(Home(object, object.items[k].name), shift.i, object.items[k].cell)

Holes == IF pc = "shifting" THEN {shift.i} ELSE {}

IInv ==
    /\ TypeOK
    /\ Sound(object, Holes) /\ Fits(object)
    /\ Sound(fresh, {})
    /\ IF pc = "growing" THEN Growing ELSE fresh = Table(0)
    /\ pc = "shifting" => Shifting

-----------------------------------------------------------------------------
(* Cells and the way of a search.                                          *)

\* A remainder is found, whatever the multiple.
LEMMA Remainder ==
    ASSUME NEW c \in Nat, c > 0, NEW q \in Int, NEW r \in 0..(c - 1)
    PROVE  ((c * q) + r) % c = r
OBVIOUS

\* A number less than c is added to a remainder by going round once at most.
LEMMA AddToMultiple ==
    ASSUME NEW c \in Nat, c > 0, NEW q \in Int, NEW r \in 0..(c - 1),
           NEW h \in Nat, h = (c * q) + r, NEW n \in 0..(c - 1)
    PROVE  (h + n) % c = IF r + n < c THEN r + n ELSE (r + n) - c
<1>1. CASE r + n < c
  <2>1. h + n = (c * q) + (r + n) /\ r + n \in 0..(c - 1)
    BY <1>1
  <2> QED
    BY <1>1, <2>1, Remainder
<1>2. CASE r + n >= c
  <2>1. q + 1 \in Int /\ (r + n) - c \in 0..(c - 1)
    BY <1>2
  <2>2. ((c * (q + 1)) + ((r + n) - c)) % c = (r + n) - c
    BY <2>1, Remainder
  <2>3. h + n = (c * (q + 1)) + ((r + n) - c)
    OBVIOUS
  <2> QED
    BY <1>2, <2>2, <2>3
<1> QED
  BY <1>1, <1>2

\* The same of any number and its remainder.
LEMMA AroundOnce ==
    ASSUME NEW c \in Nat, c > 0, NEW h \in Nat
    PROVE  /\ h % c \in 0..(c - 1)
           /\ \A n \in 0..(c - 1) :
                (h + n) % c = IF (h % c) + n < c THEN (h % c) + n ELSE ((h % c) + n) - c
<1>1. h % c \in 0..(c - 1) /\ h \div c \in Int /\ h = (c * (h \div c)) + (h % c)
  OBVIOUS
<1> QED
  BY <1>1, AddToMultiple

\* The cells of a table, and the home of a name.
LEMMA Cells ==
    ASSUME NEW table, Shape(table), table.capacity > 0, NEW name \in Names
    PROVE  /\ DOMAIN table.cells = 0..(table.capacity - 1)
           /\ table.capacity \in Nat
           /\ Home(table, name) \in 0..(table.capacity - 1)
           /\ \A n \in 0..(table.capacity - 1) :
                ProbeAt(table, name, n) =
                    IF Home(table, name) + n < table.capacity
                    THEN Home(table, name) + n
                    ELSE (Home(table, name) + n) - table.capacity
<1>1. DOMAIN table.cells = 0..(table.capacity - 1)
  BY DEF Shape, IsTable
<1>2. table.capacity \in Nat /\ Hash[name] \in Nat
  BY HashAssumption DEF Shape
<1> DEFINE c == table.capacity
           h == Hash[name]
<1>3. /\ h % c \in 0..(c - 1)
      /\ \A n \in 0..(c - 1) :
           (h + n) % c = IF (h % c) + n < c THEN (h % c) + n ELSE ((h % c) + n) - c
  <2> HIDE DEF c, h
  <2>1. c \in Nat /\ c > 0 /\ h \in Nat
    BY <1>2 DEF c, h
  <2> QED
    BY <2>1, AroundOnce
<1> QED
  BY <1>1, <1>2, <1>3 DEF Home, ProbeAt

\* Where json_object_get_cell_ix stops, said of the cells on the way there.
LEMMA StopsOnWay ==
    ASSUME NEW table, Shape(table), table.capacity > 0,
           NEW name \in Names, NEW ix \in 0..(table.capacity - 1)
    PROVE  StopsAt(table, name, ix) <=>
               /\ table.cells[ix] = 0 \/ Holds(table, ix, name)
               /\ \A x \in 0..(table.capacity - 1) :
                    OnWay(Home(table, name), x, ix) =>
                        table.cells[x] # 0 /\ ~Holds(table, x, name)
<1> DEFINE c == table.capacity
           h == Home(table, name)
           Steps(x) == IF x >= h THEN x - h ELSE (x - h) + c
<1>1. c \in Nat /\ h \in 0..(c - 1)
  BY Cells DEF Shape
<1>2. ASSUME NEW x \in 0..(c - 1)
      PROVE  Steps(x) \in 0..(c - 1) /\ ProbeAt(table, name, Steps(x)) = x
  <2>1. Steps(x) \in 0..(c - 1)
    BY <1>1
  <2>2. ProbeAt(table, name, Steps(x)) =
            IF h + Steps(x) < c THEN h + Steps(x) ELSE (h + Steps(x)) - c
    BY <2>1, Cells
  <2> QED
    BY <1>1, <2>1, <2>2
<1>3. \A n \in 0..(c - 1) : /\ ProbeAt(table, name, n) \in 0..(c - 1)
                            /\ Steps(ProbeAt(table, name, n)) = n
  BY <1>1, Cells
<1>4. \A x \in 0..(c - 1) : OnWay(h, x, ix) <=> Steps(x) < Steps(ix)
  BY <1>1 DEF OnWay
<1> HIDE DEF c, h, Steps
<1>5. ASSUME StopsAt(table, name, ix)
      PROVE  /\ table.cells[ix] = 0 \/ Holds(table, ix, name)
             /\ \A x \in 0..(c - 1) : Steps(x) < Steps(ix) =>
                    table.cells[x] # 0 /\ ~Holds(table, x, name)
  <2>1. PICK n \in 0..(c - 1) :
            /\ ix = ProbeAt(table, name, n)
            /\ table.cells[ix] = 0 \/ Holds(table, ix, name)
            /\ \A m \in 0..(n - 1) :
                  /\ table.cells[ProbeAt(table, name, m)] # 0
                  /\ ~Holds(table, ProbeAt(table, name, m), name)
    BY <1>5 DEF StopsAt, c
  <2>2. \A x \in 0..(c - 1) : Steps(x) < Steps(ix) => Steps(x) \in 0..(n - 1)
    BY <1>1, <1>2, <1>3, <2>1
  <2> QED
    BY <1>2, <2>1, <2>2
<1>6. ASSUME table.cells[ix] = 0 \/ Holds(table, ix, name),
             \A x \in 0..(c - 1) : Steps(x) < Steps(ix) =>
                 table.cells[x] # 0 /\ ~Holds(table, x, name)
      PROVE  StopsAt(table, name, ix)
  <2>1. ix \in 0..(c - 1) /\ Steps(ix) \in 0..(c - 1)
    BY <1>2 DEF c
  <2>2. ix = ProbeAt(table, name, Steps(ix))
    BY <1>2, <2>1
  <2>3. ASSUME NEW m \in 0..(Steps(ix) - 1)
        PROVE  /\ table.cells[ProbeAt(table, name, m)] # 0
               /\ ~Holds(table, ProbeAt(table, name, m), name)
    <3>1. m \in 0..(c - 1) /\ m < Steps(ix)
      BY <1>1, <2>1
    <3> QED
      BY <1>3, <1>6, <3>1
  <2> QED
    BY <1>6, <2>1, <2>2, <2>3 DEF StopsAt, c
<1> QED
  BY <1>4, <1>5, <1>6 DEF c, h

-----------------------------------------------------------------------------
(* What a search finds in a sound table.                                   *)

\* An item, its name and its cell.
LEMMA ItemType ==
    ASSUME NEW table, Shape(table), NEW k \in DOMAIN table.items
    PROVE  /\ table.items[k] \in Item
           /\ DOMAIN table.items = 1..Len(table.items)
           /\ Len(table.items) \in Nat
  BY DEF Shape, IsTable

\* A table with a cell has a capacity, and the cells are numbered below it.
LEMMA CellNumber ==
    ASSUME NEW table, Shape(table), NEW ix \in DOMAIN table.cells
    PROVE  /\ table.capacity \in Nat /\ table.capacity > 0
           /\ DOMAIN table.cells = 0..(table.capacity - 1)
           /\ table.cells[ix] \in Nat
  BY DEF Shape, IsTable

\* Every item of a sound table is found in the cell it remembers.
LEMMA SoundFindable ==
    ASSUME NEW table, Sound(table, {})
    PROVE  Findable(table)
<1> SUFFICES ASSUME NEW k \in DOMAIN table.items
             PROVE  StopsAt(table, table.items[k].name, table.items[k].cell)
  BY DEF Findable, Sound, Linked
<1> DEFINE name == table.items[k].name
           ix == table.items[k].cell
<1>1. /\ Shape(table) /\ name \in Names
      /\ ix \in DOMAIN table.cells /\ table.cells[ix] = k
      /\ k \in Nat /\ k # 0
  BY ItemType DEF Sound, Linked, InItsCell, Item
<1>2. table.capacity \in Nat /\ table.capacity > 0
      /\ DOMAIN table.cells = 0..(table.capacity - 1)
      /\ Home(table, name) \in 0..(table.capacity - 1)
  BY <1>1, CellNumber, Cells
<1>3. Holds(table, ix, name)
  BY <1>1 DEF Holds
<1>4. ASSUME NEW x \in DOMAIN table.cells, OnWay(Home(table, name), x, ix)
      PROVE  table.cells[x] # 0 /\ ~Holds(table, x, name)
  <2>1. table.cells[x] # 0
    BY <1>4 DEF Sound, WaysKept
  <2>2. ASSUME Holds(table, x, name)
        PROVE  FALSE
    <3>1. table.cells[x] = k
      BY <2>1, <2>2 DEF Holds, Sound, Linked, NamesApart
    <3>2. x = ix
      BY <2>1, <3>1 DEF Sound, Linked
    <3> QED
      BY <1>1, <1>2, <1>4, <3>2 DEF OnWay
  <2> QED
    BY <2>1, <2>2
<1> HIDE DEF name, ix
<1>5. StopsAt(table, name, ix)
  BY <1>1, <1>2, <1>3, <1>4, StopsOnWay
<1> QED
  BY <1>5 DEF name, ix

\* A name that is not found is not there.
LEMMA NotFoundAbsent ==
    ASSUME NEW table, Sound(table, {}), NEW name \in Names, ~Found(table, name)
    PROVE  Absent(table, name)
<1> SUFFICES ASSUME NEW k \in DOMAIN table.items, table.items[k].name = name
             PROVE  FALSE
  BY DEF Absent
<1>1. /\ StopsAt(table, name, table.items[k].cell)
      /\ table.items[k].cell \in DOMAIN table.cells
      /\ table.cells[table.items[k].cell] = k
  BY SoundFindable DEF Findable, InItsCell
<1>2. k # 0
  BY ItemType DEF Sound
<1> QED
  BY <1>1, <1>2 DEF Found, Occupied

\* A search that ends at an occupied cell has found the item of the name.
LEMMA StopsAtItem ==
    ASSUME NEW table, Sound(table, {}), NEW name \in Names,
           NEW ix \in Occupied(table), StopsAt(table, name, ix)
    PROVE  /\ ix \in DOMAIN table.cells
           /\ table.cells[ix] \in DOMAIN table.items
           /\ table.items[table.cells[ix]].name = name
           /\ table.items[table.cells[ix]].cell = ix
<1>1. /\ Shape(table) /\ ix \in DOMAIN table.cells /\ table.cells[ix] # 0
  BY DEF Sound, Occupied
<1>2. table.capacity > 0 /\ ix \in 0..(table.capacity - 1)
  BY <1>1, CellNumber
<1>3. Holds(table, ix, name)
  BY <1>1, <1>2, StopsOnWay
<1> QED
  BY <1>1, <1>3 DEF Holds, Sound, Linked

\* A search for a name that is not there ends at an empty cell.
LEMMA StopsAtFree ==
    ASSUME NEW table, Sound(table, {}), NEW name \in Names, Absent(table, name),
           NEW ix \in DOMAIN table.cells, StopsAt(table, name, ix)
    PROVE  /\ table.cells[ix] = 0
           /\ \A x \in DOMAIN table.cells :
                OnWay(Home(table, name), x, ix) => table.cells[x] # 0
<1>1. Shape(table)
  BY DEF Sound
<1>2. table.capacity > 0 /\ DOMAIN table.cells = 0..(table.capacity - 1)
  BY <1>1, CellNumber
<1>3. ~Holds(table, ix, name)
  BY DEF Holds, Absent, Sound, Linked
<1> QED
  BY <1>1, <1>2, <1>3, StopsOnWay

\* json_object_init's table is sound.
LEMMA SoundTable ==
    ASSUME NEW capacity \in Nat
    PROVE  Sound(Table(capacity), {}) /\ Fits(Table(capacity))
<1> DEFINE table == Table(capacity)
<1>1. /\ table.capacity = capacity
      /\ table.items = <<>> /\ Len(table.items) = 0 /\ DOMAIN table.items = {}
      /\ table.cells = [ix \in 0..(capacity - 1) |-> 0]
  BY DEF Table
<1>2. Shape(table)
  <2>1. table = [capacity |-> table.capacity, items |-> table.items,
                 cells |-> table.cells]
    BY DEF Table
  <2> HIDE DEF table
  <2> QED
    BY <1>1, <2>1 DEF Shape, IsTable
<1> HIDE DEF table
<1>3. NamesApart(table) /\ Linked(table, {}) /\ WaysKept(table)
  BY <1>1 DEF NamesApart, Linked, WaysKept
<1>4. Fits(table)
  BY <1>1 DEF Fits, item_capacity
<1> QED
  BY <1>2, <1>3, <1>4 DEF Sound, table

-----------------------------------------------------------------------------
(* What the operations do to a table.                                      *)

\* Assigning the items and one of the cells of a table.
With(table, items, ix, n) == [table EXCEPT !.items = items, !.cells[ix] = n]

\* Nothing else of the table changes.
LEMMA TwoFields ==
    ASSUME NEW table,
           table = [capacity |-> table.capacity, items |-> table.items,
                    cells |-> table.cells],
           NEW items, NEW ix, NEW n
    PROVE  With(table, items, ix, n) =
               [capacity |-> table.capacity, items |-> items,
                cells |-> [table.cells EXCEPT ![ix] = n]]
<1> DEFINE first == [table EXCEPT !.items = items]
<1>1. first = [capacity |-> table.capacity, items |-> items, cells |-> table.cells]
  OBVIOUS
<1>2. With(table, items, ix, n) = [first EXCEPT !.cells[ix] = n]
  BY DEF With
<1> HIDE DEF first
<1>3. [first EXCEPT !.cells[ix] = n] =
          [capacity |-> table.capacity, items |-> items,
           cells |-> [table.cells EXCEPT ![ix] = n]]
  BY <1>1
<1> QED
  BY <1>2, <1>3

\* The fields of a table with one item more.
LEMMA InsertedIs ==
    ASSUME NEW table, Sound(table, {}), NEW ix \in DOMAIN table.cells,
           NEW name \in Names, NEW value \in Values
    PROVE  LET more == Inserted(table, ix, name, value)
               last == Len(table.items) + 1
           IN
           /\ Shape(more)
           /\ more.capacity = table.capacity
           /\ DOMAIN table.items = 1..Len(table.items)
           /\ Len(table.items) \in Nat
           /\ Len(more.items) = last
           /\ DOMAIN more.items = DOMAIN table.items \cup {last}
           /\ last \notin DOMAIN table.items
           /\ last # 0
           /\ \A k \in DOMAIN table.items : more.items[k] = table.items[k]
           /\ more.items[last] = [name |-> name, value |-> value, cell |-> ix]
           /\ DOMAIN more.cells = DOMAIN table.cells
           /\ \A x \in DOMAIN table.cells :
                more.cells[x] = IF x = ix THEN last ELSE table.cells[x]
<1> DEFINE item == [name |-> name, value |-> value, cell |-> ix]
           last == Len(table.items) + 1
           more == Inserted(table, ix, name, value)
<1>1. /\ table = [capacity |-> table.capacity, items |-> table.items,
                  cells |-> table.cells]
      /\ table.capacity \in Nat /\ table.items \in Seq(Item)
      /\ table.cells \in [0..(table.capacity - 1) -> 0..last]
      /\ ix \in Nat /\ last \in Nat \ {0}
  <2>1. Shape(table)
    BY DEF Sound
  <2>2. Len(table.items) \in Nat
    BY <2>1, LenProperties DEF Shape, IsTable
  <2>3. ix \in Nat
    BY <2>1, CellNumber
  <2> QED
    BY <2>1, <2>2, <2>3 DEF Shape, IsTable
<1>2. item \in Item
  BY <1>1 DEF Item
<1>3. more = [capacity |-> table.capacity, items |-> Append(table.items, item),
              cells |-> [table.cells EXCEPT ![ix] = last]]
  <2>1. more = With(table, Append(table.items, item), ix, last)
    BY DEF Inserted, With
  <2> HIDE DEF more, item, last
  <2> QED
    BY <1>1, <2>1, TwoFields
<1> HIDE DEF item
<1>4. /\ Append(table.items, item) \in Seq(Item)
      /\ Len(Append(table.items, item)) = last
      /\ \A k \in 1..Len(table.items) : Append(table.items, item)[k] = table.items[k]
      /\ Append(table.items, item)[last] = item
  BY <1>1, <1>2, AppendProperties
<1>5. Len(table.items) \in Nat /\ DOMAIN table.items = 1..Len(table.items)
      /\ DOMAIN Append(table.items, item) = 1..last
  BY <1>1, <1>4, LenProperties
<1> HIDE DEF more
<1>6. more.cells \in [0..(more.capacity - 1) -> 0..(last + 1)]
  BY <1>1, <1>3
<1>7. Shape(more)
  BY <1>1, <1>3, <1>4, <1>6 DEF Shape, IsTable
<1>8. \A x \in DOMAIN table.cells :
         more.cells[x] = IF x = ix THEN last ELSE table.cells[x]
  BY <1>1, <1>3
<1>9. DOMAIN more.cells = DOMAIN table.cells
  BY <1>1, <1>3
<1> HIDE DEF last
<1>10. DOMAIN more.items = DOMAIN table.items \cup {last} /\ last \notin DOMAIN table.items
  BY <1>3, <1>5 DEF last
<1> QED
  BY <1>1, <1>3, <1>4, <1>5, <1>7, <1>8, <1>9, <1>10 DEF item, more, last

\* The same, of a table that is the result.
LEMMA InsertedTable ==
    ASSUME NEW table, Sound(table, {}), NEW ix \in DOMAIN table.cells,
           NEW name \in Names, NEW value \in Values,
           NEW more, more = Inserted(table, ix, name, value),
           NEW last, last = Len(table.items) + 1
    PROVE  /\ more.capacity = table.capacity
           /\ Len(more.items) = last
           /\ DOMAIN more.items = DOMAIN table.items \cup {last}
           /\ \A k \in DOMAIN table.items : more.items[k] = table.items[k]
           /\ more.items[last] = [name |-> name, value |-> value, cell |-> ix]
  BY InsertedIs

\* Putting an absent name where its search stops keeps a table sound.
LEMMA InsertedSound ==
    ASSUME NEW table, Sound(table, {}), NEW ix \in DOMAIN table.cells,
           NEW name \in Names, NEW value \in Values,
           Absent(table, name), StopsAt(table, name, ix)
    PROVE  Sound(Inserted(table, ix, name, value), {})
<1> DEFINE last == Len(table.items) + 1
           more == Inserted(table, ix, name, value)
<1>1. /\ Shape(more)
      /\ more.capacity = table.capacity
      /\ DOMAIN more.items = DOMAIN table.items \cup {last}
      /\ last \notin DOMAIN table.items
      /\ last # 0
      /\ \A k \in DOMAIN table.items : more.items[k] = table.items[k]
      /\ more.items[last] = [name |-> name, value |-> value, cell |-> ix]
      /\ DOMAIN more.cells = DOMAIN table.cells
      /\ \A x \in DOMAIN table.cells :
           more.cells[x] = IF x = ix THEN last ELSE table.cells[x]
  BY InsertedIs
<1>2. /\ table.cells[ix] = 0
      /\ \A x \in DOMAIN table.cells :
           OnWay(Home(table, name), x, ix) => table.cells[x] # 0
  BY StopsAtFree
<1>3. \A k \in DOMAIN table.items : k # 0
  BY ItemType DEF Sound
<1> HIDE DEF last, more
<1>4. NamesApart(more)
  BY <1>1 DEF NamesApart, Absent, Sound
<1>5. Linked(more, {})
  <2>1. \A k \in DOMAIN table.items : InItsCell(more, k)
    BY <1>1, <1>2, <1>3 DEF Sound, Linked, InItsCell
  <2>2. InItsCell(more, last)
    BY <1>1 DEF InItsCell
  <2>3. ASSUME NEW x \in DOMAIN more.cells, more.cells[x] # 0
        PROVE  /\ more.cells[x] \in DOMAIN more.items
               /\ more.items[more.cells[x]].cell = x
    BY <1>1, <2>3 DEF Sound, Linked
  <2> QED
    BY <1>1, <2>1, <2>2, <2>3 DEF Linked
<1>6. WaysKept(more)
  <2>1. \A other \in Names : Home(more, other) = Home(table, other)
    BY <1>1 DEF Home
  <2>2. \A k \in DOMAIN table.items : table.items[k].name \in Names
    BY ItemType DEF Sound, Item
  <2>3. ASSUME NEW k \in DOMAIN table.items, NEW x \in DOMAIN table.cells,
               OnWay(Home(more, more.items[k].name), x, more.items[k].cell)
        PROVE  more.cells[x] # 0
    BY <1>1, <2>1, <2>2, <2>3 DEF Sound, WaysKept
  <2>4. ASSUME NEW x \in DOMAIN table.cells,
               OnWay(Home(more, more.items[last].name), x, more.items[last].cell)
        PROVE  more.cells[x] # 0
    BY <1>1, <1>2, <2>1, <2>4
  <2> QED
    BY <1>1, <2>3, <2>4 DEF WaysKept
<1> QED
  BY <1>1, <1>4, <1>5, <1>6 DEF Sound, more

\* The fields of a table with one item less.
LEMMA RemovedIs ==
    ASSUME NEW table, Sound(table, {}), NEW ix \in DOMAIN table.cells,
           table.cells[ix] \in DOMAIN table.items
    PROVE  LET item == table.cells[ix]
               last == Len(table.items)
               less == Removed(table, item)
           IN
           /\ Shape(less)
           /\ less.capacity = table.capacity
           /\ last \in Nat /\ last # 0 /\ item \in 1..last
           /\ DOMAIN table.items = 1..last
           /\ Len(less.items) = last - 1
           /\ DOMAIN less.items = 1..(last - 1)
           /\ \A k \in 1..(last - 1) :
                less.items[k] = table.items[IF k = item THEN last ELSE k]
           /\ DOMAIN less.cells = DOMAIN table.cells
           /\ \A x \in DOMAIN table.cells :
                less.cells[x] = IF x = table.items[last].cell /\ item < last
                                THEN item ELSE table.cells[x]
<1> DEFINE item == table.cells[ix]
           last == Len(table.items)
           less == Removed(table, item)
           items == [k \in 1..(last - 1) |->
                        IF k = item THEN table.items[last] ELSE table.items[k]]
           cell == table.items[last].cell
           n == IF item < last THEN item ELSE table.cells[cell]
<1>1. /\ Shape(table)
      /\ table = [capacity |-> table.capacity, items |-> table.items,
                  cells |-> table.cells]
      /\ table.capacity \in Nat /\ table.items \in Seq(Item)
      /\ table.cells \in [0..(table.capacity - 1) -> 0..(last + 1)]
      /\ last \in Nat /\ DOMAIN table.items = 1..last
  BY DEF Sound, Shape, IsTable
<1>2. item \in 1..last /\ last # 0
  BY <1>1
<1>3. table.cells \in [0..(table.capacity - 1) -> 0..last]
  BY <1>1 DEF Sound, Linked
<1>4. cell \in DOMAIN table.cells /\ n \in 0..last
  BY <1>1, <1>2, <1>3 DEF Sound, Linked, InItsCell
<1>5. items \in Seq(Item) /\ Len(items) = last - 1 /\ DOMAIN items = 1..(last - 1)
  <2>1. \A k \in 1..(last - 1) : items[k] \in Item
    BY <1>1, <1>2
  <2> QED
    BY <1>1, <1>2, <2>1, IsASeq
<1>6. less = [capacity |-> table.capacity, items |-> items,
              cells |-> [table.cells EXCEPT ![cell] = n]]
  <2>1. less = With(table, items, cell, n)
    BY DEF Removed, With
  <2> HIDE DEF less, items, cell, n
  <2> QED
    BY <1>1, <2>1, TwoFields
<1>7. \A k \in 1..(last - 1) : items[k] = table.items[IF k = item THEN last ELSE k]
  OBVIOUS
<1>8. \A x \in DOMAIN table.cells :
        less.cells[x] = IF x = cell /\ item < last THEN item ELSE table.cells[x]
  BY <1>6
<1> HIDE DEF less, items, n, cell
<1>9. less.cells \in [0..(less.capacity - 1) -> 0..last]
  BY <1>3, <1>4, <1>6
<1>10. Shape(less)
  BY <1>1, <1>2, <1>5, <1>6, <1>9 DEF Shape, IsTable
<1>11. DOMAIN less.cells = DOMAIN table.cells
  BY <1>1, <1>6
<1> HIDE DEF item, last
<1> QED
  BY <1>1, <1>2, <1>5, <1>6, <1>7, <1>8, <1>10, <1>11 DEF item, last, less, cell

\* The first half of a removal leaves the table sound but for the cell of the
\* removed item, and changes no cell between empty and occupied.
LEMMA RemovedSound ==
    ASSUME NEW table, Sound(table, {}), NEW ix \in DOMAIN table.cells,
           table.cells[ix] \in DOMAIN table.items
    PROVE  LET less == Removed(table, table.cells[ix]) IN
           /\ Sound(less, {ix})
           /\ \A x \in DOMAIN table.cells : less.cells[x] = 0 <=> table.cells[x] = 0
<1> DEFINE item == table.cells[ix]
           last == Len(table.items)
           less == Removed(table, item)
           Was(k) == IF k = item THEN last ELSE k
<1>1. /\ Shape(less)
      /\ less.capacity = table.capacity
      /\ last \in Nat /\ last # 0 /\ item \in 1..last
      /\ DOMAIN table.items = 1..last
      /\ DOMAIN less.items = 1..(last - 1)
      /\ \A k \in 1..(last - 1) : less.items[k] = table.items[Was(k)]
      /\ DOMAIN less.cells = DOMAIN table.cells
      /\ \A x \in DOMAIN table.cells :
           less.cells[x] = IF x = table.items[last].cell /\ item < last
                           THEN item ELSE table.cells[x]
  BY RemovedIs
<1>2. /\ \A k \in 1..last : InItsCell(table, k)
      /\ \A x \in DOMAIN table.cells : table.cells[x] # 0 =>
             table.cells[x] \in 1..last /\ table.items[table.cells[x]].cell = x
  BY <1>1 DEF Sound, Linked
<1>3. /\ \A k \in 1..(last - 1) : Was(k) \in 1..last /\ Was(k) # item
      /\ \A k, l \in 1..(last - 1) : Was(k) = Was(l) => k = l
  BY <1>1
<1>4. \A x \in DOMAIN table.cells : less.cells[x] = 0 <=> table.cells[x] = 0
  BY <1>1, <1>2 DEF InItsCell
<1> HIDE DEF item, last, less
<1>5. NamesApart(less)
  <2>1. \A k, l \in 1..last : table.items[k].name = table.items[l].name => k = l
    BY <1>1 DEF Sound, NamesApart
  <2> SUFFICES ASSUME NEW k \in 1..(last - 1), NEW l \in 1..(last - 1),
                      less.items[k].name = less.items[l].name
               PROVE  k = l
    BY <1>1 DEF NamesApart
  <2>2. less.items[k] = table.items[Was(k)] /\ less.items[l] = table.items[Was(l)]
    BY <1>1
  <2>3. Was(k) \in 1..last /\ Was(l) \in 1..last
    BY <1>3
  <2>4. Was(k) = Was(l)
    BY <2>1, <2>2, <2>3
  <2> QED
    BY <1>3, <2>4
<1>6. Linked(less, {ix})
  <2>1. ASSUME NEW k \in DOMAIN less.items
        PROVE  InItsCell(less, k) /\ less.items[k].cell # ix
    <3>1. less.items[k] = table.items[Was(k)] /\ Was(k) \in 1..last /\ Was(k) # item
      BY <1>1, <1>3
    <3>2. table.cells[table.items[Was(k)].cell] = Was(k)
          /\ table.items[Was(k)].cell \in DOMAIN table.cells
      BY <1>2, <3>1 DEF InItsCell
    <3>3. less.items[k].cell # ix
      BY <3>1, <3>2 DEF item
    <3>4. less.cells[less.items[k].cell] = k
      <4>1. CASE k = item
        BY <1>1, <3>1, <3>2, <4>1
      <4>2. CASE k # item
        BY <1>1, <1>2, <3>1, <3>2, <4>2 DEF InItsCell
      <4> QED
        BY <4>1, <4>2
    <3> QED
      BY <1>1, <3>1, <3>2, <3>3, <3>4 DEF InItsCell
  <2>2. ASSUME NEW x \in DOMAIN less.cells, x # ix, less.cells[x] # 0
        PROVE  less.cells[x] \in DOMAIN less.items /\ less.items[less.cells[x]].cell = x
    <3>1. x \in DOMAIN table.cells /\ table.cells[x] # 0
      BY <1>1, <1>4, <2>2
    <3>2. table.cells[x] \in 1..last /\ table.items[table.cells[x]].cell = x
      BY <1>2, <3>1
    <3>3. table.cells[x] # item
      BY <1>1, <1>2, <2>2, <3>2 DEF item
    <3>4. CASE x = table.items[last].cell /\ item < last
      BY <1>1, <3>1, <3>4
    <3>5. CASE ~(x = table.items[last].cell /\ item < last)
      <4>1. less.cells[x] = table.cells[x]
        BY <1>1, <3>1, <3>5
      <4>2. table.cells[x] # last
        BY <1>1, <3>2, <3>3, <3>5
      <4>3. table.cells[x] \in 1..(last - 1)
        BY <1>1, <3>2, <4>2
      <4> QED
        BY <1>1, <3>2, <3>3, <4>1, <4>3
    <3> QED
      BY <3>4, <3>5
  <2> QED
    BY <2>1, <2>2 DEF Linked
<1>7. WaysKept(less)
  <2>1. \A name \in Names : Home(less, name) = Home(table, name)
    BY <1>1 DEF Home
  <2>2. \A k \in 1..last : table.items[k].name \in Names
    BY <1>1, ItemType DEF Sound, Item
  <2>3. \A k \in 1..last : \A x \in DOMAIN table.cells :
          OnWay(Home(table, table.items[k].name), x, table.items[k].cell) =>
              table.cells[x] # 0
    BY <1>1 DEF Sound, WaysKept
  <2> SUFFICES ASSUME NEW k \in 1..(last - 1), NEW x \in DOMAIN table.cells,
                      OnWay(Home(less, less.items[k].name), x, less.items[k].cell)
               PROVE  less.cells[x] # 0
    BY <1>1 DEF WaysKept
  <2>4. less.items[k] = table.items[Was(k)] /\ Was(k) \in 1..last
    BY <1>1, <1>3
  <2>5. Home(less, less.items[k].name) = Home(table, table.items[Was(k)].name)
    BY <2>1, <2>2, <2>4
  <2>6. table.cells[x] # 0
    BY <2>3, <2>4, <2>5
  <2> QED
    BY <1>4, <2>6
<1> QED
  BY <1>1, <1>4, <1>5, <1>6, <1>7 DEF Sound, less, item

\* An item whose home does not lie behind the hole is reached by way of it.
LEMMA MovesBackIs ==
    ASSUME NEW c \in Nat, NEW i \in 0..(c - 1), NEW j \in 0..(c - 1), i # j,
           NEW h \in 0..(c - 1)
    PROVE  /\ MovesBack(i, j, h) <=> OnWay(h, i, j)
           /\ OnWay(h, i, j) =>
                \A x \in 0..(c - 1) : OnWay(h, x, i) => OnWay(h, x, j) /\ x # j
  BY DEF MovesBack, OnWay

\* json_object_remove_internal moves the item of cell j to cell i.
Moved(table, i, j) ==
    [table EXCEPT !.items[table.cells[j]].cell = i, !.cells[i] = table.cells[j]]

\* A table in which the hole has moved to cell j, and nothing is lost.
HoleAt(j, moved, table) ==
    /\ Sound(moved, {j})
    /\ moved.capacity = table.capacity
    /\ Len(moved.items) = Len(table.items)
    /\ DOMAIN moved.items = DOMAIN table.items
    /\ DOMAIN moved.cells = DOMAIN table.cells
    /\ \A x \in DOMAIN table.cells : moved.cells[x] = 0 <=> table.cells[x] = 0
    /\ \A k \in DOMAIN table.items : /\ moved.items[k].name = table.items[k].name
                                     /\ moved.items[k].value = table.items[k].value

\* Moving an item back to a hole it is reached by leaves its cell as the hole.
LEMMA MovedSound ==
    ASSUME NEW table,
           NEW i \in DOMAIN table.cells, NEW j \in DOMAIN table.cells, i # j,
           Sound(table, {i}), table.cells[i] # 0, table.cells[j] # 0,
           OnWay(Home(table, table.items[table.cells[j]].name), i, j)
    PROVE  HoleAt(j, Moved(table, i, j), table)
<1> DEFINE item == table.cells[j]
           moved == Moved(table, i, j)
           entry == [table.items[item] EXCEPT !.cell = i]
           items == [table.items EXCEPT ![item] = entry]
<1>1. /\ Shape(table)
      /\ table = [capacity |-> table.capacity, items |-> table.items,
                  cells |-> table.cells]
      /\ table.capacity \in Nat /\ table.items \in Seq(Item)
      /\ DOMAIN table.cells = 0..(table.capacity - 1)
      /\ table.cells \in [0..(table.capacity - 1) -> 0..(Len(table.items) + 1)]
  BY DEF Sound, Shape, IsTable
<1>2. /\ Len(table.items) \in Nat /\ DOMAIN table.items = 1..Len(table.items)
      /\ item \in DOMAIN table.items /\ item \in 1..Len(table.items)
      /\ table.items[item].cell = j
      /\ table.items[item] \in Item
      /\ i \in Nat
  BY <1>1 DEF Sound, Linked
<1>3. /\ entry \in Item /\ entry.name = table.items[item].name
      /\ entry.value = table.items[item].value /\ entry.cell = i
  BY <1>2 DEF Item
<1>4. /\ items \in Seq(Item) /\ Len(items) = Len(table.items)
      /\ DOMAIN items = DOMAIN table.items
      /\ \A k \in DOMAIN table.items :
           items[k] = IF k = item THEN entry ELSE table.items[k]
  <2> HIDE DEF entry
  <2> QED
    BY <1>1, <1>2, <1>3, ExceptSeq
<1>5. moved = [capacity |-> table.capacity, items |-> items,
               cells |-> [table.cells EXCEPT ![i] = item]]
  <2>1. moved = With(table, items, i, item)
    BY DEF Moved, With
  <2> HIDE DEF moved, items, item
  <2> QED
    BY <1>1, <2>1, TwoFields
<1> HIDE DEF entry, items, moved
<1>6. /\ moved.capacity = table.capacity
      /\ moved.items = items
      /\ DOMAIN moved.cells = DOMAIN table.cells
      /\ \A x \in DOMAIN table.cells :
           moved.cells[x] = IF x = i THEN item ELSE table.cells[x]
  BY <1>1, <1>5
<1>7. Shape(moved)
  <2>1. moved.cells \in [0..(table.capacity - 1) -> 0..(Len(items) + 1)]
    BY <1>1, <1>2, <1>4, <1>5
  <2> QED
    BY <1>1, <1>4, <1>5, <1>6, <2>1 DEF Shape, IsTable
<1>8. \A x \in DOMAIN table.cells : moved.cells[x] = 0 <=> table.cells[x] = 0
  BY <1>6
<1>9. \A k \in DOMAIN table.items :
        /\ moved.items[k].name = table.items[k].name
        /\ moved.items[k].value = table.items[k].value
        /\ moved.items[k].cell = IF k = item THEN i ELSE table.items[k].cell
  BY <1>3, <1>4, <1>6
<1>10. NamesApart(moved)
  BY <1>4, <1>6, <1>9 DEF Sound, NamesApart
<1> HIDE DEF item
<1>11. Linked(moved, {j})
  <2>1. ASSUME NEW k \in DOMAIN moved.items
        PROVE  InItsCell(moved, k) /\ moved.items[k].cell # j
    <3>1. k \in DOMAIN table.items /\ InItsCell(table, k) /\ table.items[k].cell # i
      BY <1>4, <1>6 DEF Sound, Linked
    <3> QED
      BY <1>6, <1>9, <3>1 DEF InItsCell, item
  <2>2. ASSUME NEW x \in DOMAIN moved.cells, x # j, moved.cells[x] # 0
        PROVE  moved.cells[x] \in DOMAIN moved.items /\ moved.items[moved.cells[x]].cell = x
    <3>1. CASE x = i
      BY <1>2, <1>4, <1>6, <1>9, <3>1
    <3>2. CASE x # i
      <4>1. /\ moved.cells[x] = table.cells[x]
            /\ table.cells[x] \in DOMAIN table.items
            /\ table.items[table.cells[x]].cell = x
        BY <1>6, <2>2, <3>2 DEF Sound, Linked
      <4>2. table.cells[x] # item
        BY <1>2, <2>2, <4>1
      <4> QED
        BY <1>4, <1>6, <1>9, <4>1, <4>2
    <3> QED
      BY <3>1, <3>2
  <2> QED
    BY <2>1, <2>2 DEF Linked
<1>12. WaysKept(moved)
  <2> SUFFICES ASSUME NEW k \in DOMAIN table.items, NEW x \in DOMAIN table.cells,
                      OnWay(Home(moved, moved.items[k].name), x, moved.items[k].cell)
               PROVE  table.cells[x] # 0
    BY <1>4, <1>6, <1>8 DEF WaysKept
  <2>1. Home(moved, moved.items[k].name) = Home(table, table.items[k].name)
    BY <1>6, <1>9 DEF Home
  <2>2. Home(table, table.items[k].name) \in 0..(table.capacity - 1)
    <3>1. table.items[k].name \in Names
      BY <1>1, ItemType DEF Item
    <3> QED
      BY <1>1, <3>1, CellNumber, Cells
  <2>3. OnWay(Home(table, table.items[k].name), x, table.items[k].cell)
    <3>1. CASE k = item
      BY <1>1, <1>2, <1>9, <2>1, <2>2, <3>1, MovesBackIs DEF item
    <3>2. CASE k # item
      BY <1>9, <2>1, <3>2
    <3> QED
      BY <3>1, <3>2
  <2> QED
    BY <2>3 DEF Sound, WaysKept
<1> QED
  BY <1>4, <1>6, <1>7, <1>8, <1>9, <1>10, <1>11, <1>12 DEF HoleAt, Sound, moved


\* The end of a removal empties the hole, which nothing is reached by any more.
LEMMA ClosedSound ==
    ASSUME NEW table, NEW i \in DOMAIN table.cells, Sound(table, {i}),
           \A k \in DOMAIN table.items :
               ~OnWay(Home(table, table.items[k].name), i, table.items[k].cell)
    PROVE  LET closed == [table EXCEPT !.cells[i] = 0] IN
           /\ Sound(closed, {})
           /\ closed.capacity = table.capacity /\ closed.items = table.items
<1> DEFINE closed == [table EXCEPT !.cells[i] = 0]
<1>1. /\ Shape(table)
      /\ table = [capacity |-> table.capacity, items |-> table.items,
                  cells |-> table.cells]
      /\ table.capacity \in Nat /\ table.items \in Seq(Item)
      /\ table.cells \in [0..(table.capacity - 1) -> 0..(Len(table.items) + 1)]
      /\ Len(table.items) \in Nat /\ DOMAIN table.items = 1..Len(table.items)
  BY DEF Sound, Shape, IsTable
<1>2. closed = [capacity |-> table.capacity, items |-> table.items,
                cells |-> [table.cells EXCEPT ![i] = 0]]
  <2>1. PICK a, b, c : table = [capacity |-> a, items |-> b, cells |-> c]
    BY <1>1
  <2>2. closed = [capacity |-> a, items |-> b, cells |-> [c EXCEPT ![i] = 0]]
    BY <2>1
  <2> QED
    BY <2>1, <2>2
<1> HIDE DEF closed
<1>3. /\ closed.capacity = table.capacity /\ closed.items = table.items
      /\ DOMAIN closed.cells = DOMAIN table.cells
      /\ \A x \in DOMAIN table.cells :
           closed.cells[x] = IF x = i THEN 0 ELSE table.cells[x]
  BY <1>1, <1>2
<1>4. closed.cells \in [0..(table.capacity - 1) -> 0..(Len(table.items) + 1)]
  BY <1>1, <1>2
<1>5. Shape(closed)
  BY <1>1, <1>2, <1>3, <1>4 DEF Shape, IsTable
<1>6. NamesApart(closed)
  BY <1>3 DEF Sound, NamesApart
<1>7. Linked(closed, {})
  BY <1>1, <1>3 DEF Sound, Linked, InItsCell
<1>8. WaysKept(closed)
  <2>1. \A name : Home(closed, name) = Home(table, name)
    BY <1>3 DEF Home
  <2> QED
    BY <1>3, <2>1 DEF Sound, WaysKept
<1> QED
  BY <1>3, <1>5, <1>6, <1>7, <1>8 DEF Sound, closed

\* Setting the value of an item changes nothing else.
LEMMA ReplacedSound ==
    ASSUME NEW table, Sound(table, {}), NEW n \in DOMAIN table.items,
           NEW value \in Values
    PROVE  LET replaced == [table EXCEPT !.items[n].value = value] IN
           /\ Sound(replaced, {})
           /\ replaced.capacity = table.capacity
           /\ Len(replaced.items) = Len(table.items)
           /\ DOMAIN replaced.items = DOMAIN table.items
           /\ \A k \in DOMAIN table.items :
                /\ replaced.items[k].name = table.items[k].name
                /\ replaced.items[k].value = IF k = n THEN value ELSE table.items[k].value
<1> DEFINE entry == [table.items[n] EXCEPT !.value = value]
           items == [table.items EXCEPT ![n] = entry]
           replaced == [table EXCEPT !.items[n].value = value]
<1>1. /\ table = [capacity |-> table.capacity, items |-> table.items,
                  cells |-> table.cells]
      /\ table.capacity \in Nat /\ table.items \in Seq(Item)
      /\ table.cells \in [0..(table.capacity - 1) -> 0..(Len(table.items) + 1)]
      /\ DOMAIN table.items = 1..Len(table.items)
      /\ table.items[n] \in Item
  BY DEF Sound, Shape, IsTable
<1>2. /\ entry \in Item /\ entry.name = table.items[n].name
      /\ entry.value = value /\ entry.cell = table.items[n].cell
  BY <1>1 DEF Item
<1>3. replaced = [table EXCEPT !.items = items]
  OBVIOUS
<1> HIDE DEF entry, replaced
<1>4. /\ items \in Seq(Item) /\ Len(items) = Len(table.items)
      /\ DOMAIN items = DOMAIN table.items
      /\ \A k \in DOMAIN table.items :
           items[k] = IF k = n THEN entry ELSE table.items[k]
  BY <1>1, <1>2, ExceptSeq
<1> HIDE DEF items
<1>5. replaced = [capacity |-> table.capacity, items |-> items, cells |-> table.cells]
  BY <1>1, <1>3
<1>6. Shape(replaced)
  BY <1>1, <1>4, <1>5 DEF Shape, IsTable
<1>7. /\ replaced.capacity = table.capacity /\ replaced.cells = table.cells
      /\ DOMAIN replaced.items = DOMAIN table.items
      /\ Len(replaced.items) = Len(table.items)
      /\ \A k \in DOMAIN table.items :
           /\ replaced.items[k].name = table.items[k].name
           /\ replaced.items[k].cell = table.items[k].cell
           /\ replaced.items[k].value = IF k = n THEN value ELSE table.items[k].value
  BY <1>2, <1>4, <1>5
<1>8. NamesApart(replaced)
  BY <1>7 DEF Sound, NamesApart
<1>9. Linked(replaced, {})
  BY <1>7 DEF Sound, Linked, InItsCell
<1>10. WaysKept(replaced)
  BY <1>7 DEF Sound, WaysKept, Home
<1> QED
  BY <1>6, <1>7, <1>8, <1>9, <1>10 DEF Sound, replaced

\* A table that is not overfull has an empty cell: its items cannot be in all.
LEMMA RoomLeft ==
    ASSUME NEW table, Sound(table, {}), Len(table.items) < table.capacity
    PROVE  \E c \in DOMAIN table.cells : table.cells[c] = 0
<1> DEFINE n == Len(table.items)
           c == table.capacity
<1>1. /\ c \in Nat /\ n \in Nat /\ DOMAIN table.items = 1..n
      /\ DOMAIN table.cells = 0..(c - 1)
      /\ table.cells \in [0..(c - 1) -> 0..(n + 1)]
  BY DEF Sound, Shape, IsTable
<1> SUFFICES ASSUME \A x \in 0..(c - 1) : table.cells[x] # 0
             PROVE  FALSE
  BY <1>1
<1>2. /\ table.cells \in [0..(c - 1) -> 1..n]
      /\ \A x \in 0..(c - 1) : table.items[table.cells[x]].cell = x
  BY <1>1 DEF Sound, Linked
<1>3. /\ IsFiniteSet(0..(c - 1)) /\ Cardinality(0..(c - 1)) = c
      /\ IsFiniteSet(1..n) /\ Cardinality(1..n) = n
  <2> HIDE DEF c, n
  <2>1. c > 0
    BY <1>1 DEF c, n
  <2>2. IsFiniteSet(0..(c - 1)) /\ Cardinality(0..(c - 1)) = c
    BY <1>1, <2>1, FS_Interval
  <2>3. IsFiniteSet(1..n) /\ Cardinality(1..n) = n
    BY <1>1, FS_Interval
  <2> QED
    BY <2>2, <2>3
<1>4. \E x, y \in 0..(c - 1) : x # y /\ table.cells[x] = table.cells[y]
  <2>1. Cardinality(1..n) < Cardinality(0..(c - 1))
    BY <1>3
  <2> HIDE DEF c, n
  <2> QED
    BY <1>2, <1>3, <2>1, FS_PigeonHole
<1> QED
  BY <1>2, <1>4

\* item_capacity leaves a cell free, and twice the cells hold one item more.
LEMMA Capacities ==
    ASSUME NEW table, NEW larger,
           table.capacity \in Nat, larger.capacity \in Nat
    PROVE  /\ item_capacity(table) \in Nat
           /\ table.capacity > 0 => item_capacity(table) < table.capacity
           /\ larger.capacity >= 2 * table.capacity /\ larger.capacity >= 2 =>
                item_capacity(larger) >= item_capacity(table) + 1
  BY DEF item_capacity

-----------------------------------------------------------------------------
(* The operations between two calls.                                       *)

LEMMA InitIInv == Init => IInv
<1> SUFFICES ASSUME Init PROVE IInv
  OBVIOUS
<1>1. Sound(Table(0), {}) /\ Fits(Table(0))
  BY SoundTable
<1>2. /\ object = Table(0) /\ fresh = Table(0)
      /\ pending = NULL /\ shift = NULL /\ pc = "ready"
  BY DEF Init
<1>3. TypeOK
  BY <1>1, <1>2 DEF TypeOK, Sound, Shape
<1> QED
  BY <1>1, <1>2, <1>3 DEF IInv, Holes

\* What a step has to show of the state it leaves, but in a removal.
LEMMA ReadyIInv ==
    ASSUME Sound(object', {}), Fits(object'), Sound(fresh', {}),
           pending' \in {NULL} \cup [op : {"set", "add"}, name : Names, value : Values],
           shift' \in {NULL} \cup [i : Nat, j : Nat, x : Nat],
           pc' \in {"ready", "growing"},
           IF pc' = "growing" THEN Growing' ELSE fresh' = Table(0)
    PROVE  IInv'
<1>1. TypeOK'
  BY DEF TypeOK, Sound, Shape
<1>2. Holes' = {}
  BY DEF Holes
<1>3. (IF pc = "growing" THEN Growing ELSE fresh = Table(0))'
  BY Zenon DEF Table
<1> QED
  BY <1>1, <1>2, <1>3 DEF IInv

\* Replacing a value leaves every item where it is.
LEMMA ReplaceIInv ==
    ASSUME IInv, NEW name \in Names, NEW value \in Values, Replace(name, value)
    PROVE  IInv'
<1>1. PICK ix \in Occupied(object) :
          /\ StopsAt(object, name, ix)
          /\ object' = [object EXCEPT !.items[object.cells[ix]].value = value]
  BY DEF Replace
<1>2. pc = "ready" /\ UNCHANGED <<fresh, pending, shift, pc>>
  BY DEF Replace
<1>3. Sound(object, {}) /\ Fits(object) /\ Sound(fresh, {}) /\ fresh = Table(0)
  BY <1>2 DEF IInv, Holes
<1>4. object.cells[ix] \in DOMAIN object.items
  BY <1>1, <1>3, StopsAtItem
<1>5. /\ Sound(object', {})
      /\ object'.capacity = object.capacity
      /\ Len(object'.items) = Len(object.items)
  BY <1>1, <1>3, <1>4, ReplacedSound
<1>6. Fits(object')
  BY <1>3, <1>5 DEF Fits, item_capacity
<1>7. /\ pending \in {NULL} \cup [op : {"set", "add"}, name : Names, value : Values]
      /\ shift \in {NULL} \cup [i : Nat, j : Nat, x : Nat]
  BY DEF IInv, TypeOK
<1> QED
  BY <1>2, <1>3, <1>5, <1>6, <1>7, ReadyIInv

\* What is known between two calls.
LEMMA WhenReady ==
    ASSUME IInv, pc = "ready"
    PROVE  /\ Sound(object, {}) /\ Fits(object)
           /\ fresh = Table(0) /\ Sound(fresh, {})
           /\ pending \in {NULL} \cup [op : {"set", "add"}, name : Names, value : Values]
           /\ shift \in {NULL} \cup [i : Nat, j : Nat, x : Nat]
  BY DEF IInv, Holes, TypeOK

\* A table that had room is not overfull for the new item.
LEMMA InsertedFits ==
    ASSUME NEW table, Sound(table, {}), NEW ix \in DOMAIN table.cells,
           NEW name \in Names, NEW value \in Values, HasRoom(table)
    PROVE  Fits(Inserted(table, ix, name, value))
<1> DEFINE more == Inserted(table, ix, name, value)
           last == Len(table.items) + 1
<1>1. more = Inserted(table, ix, name, value) /\ last = Len(table.items) + 1
  OBVIOUS
<1>2. table.capacity \in Nat /\ Len(table.items) \in Nat
  <2>1. table.capacity \in Nat /\ table.items \in Seq(Item)
    BY DEF Sound, Shape, IsTable
  <2> QED
    BY <2>1
<1> HIDE DEF more, last
<1>3. /\ more.capacity = table.capacity
      /\ Len(more.items) = last
      /\ DOMAIN more.items = DOMAIN table.items \cup {last}
      /\ \A k \in DOMAIN table.items : more.items[k] = table.items[k]
      /\ more.items[last] = [name |-> name, value |-> value, cell |-> ix]
  BY <1>1, InsertedTable
<1>4. Fits(more)
  BY <1>1, <1>2, <1>3 DEF Fits, HasRoom, item_capacity
<1> QED
  BY <1>1, <1>4

\* A new name is put where its search stops, or the table is left as it is.
LEMMA PlaceInSound ==
    ASSUME NEW table, Sound(table, {}), HasRoom(table),
           NEW name \in Names, NEW value \in Values, Absent(table, name),
           NEW op, PlaceIn(table, op, name, value)
    PROVE  Sound(object', {}) /\ Fits(object')
<1>1. CASE object' = table
  <2>1. table.capacity \in Nat /\ table.items \in Seq(Item)
    BY DEF Sound, Shape, IsTable
  <2>2. Len(table.items) \in Nat
    BY <2>1
  <2> QED
    BY <1>1, <2>1, <2>2 DEF Fits, HasRoom, item_capacity
<1>2. ASSUME NEW ix \in DOMAIN table.cells, StopsAt(table, name, ix),
             object' = Inserted(table, ix, name, value)
      PROVE  Sound(object', {}) /\ Fits(object')
  <2>1. Sound(object', {})
    BY <1>2, InsertedSound
  <2>2. Fits(object')
    BY <1>2, InsertedFits
  <2> QED
    BY <2>1, <2>2
<1> QED
  BY <1>1, <1>2 DEF PlaceIn

\* A new entry is put into the free cell where the search for it ends.
LEMMA PutNewIInv ==
    ASSUME IInv, NEW op, NEW name \in Names, NEW value \in Values,
           PutNew(op, name, value)
    PROVE  IInv'
<1>1. pc = "ready" /\ UNCHANGED <<fresh, pending, shift, pc>>
      /\ ~Found(object, name) /\ ~Full /\ PlaceIn(object, op, name, value)
  BY DEF PutNew
<1>2. /\ Sound(object, {}) /\ fresh = Table(0) /\ Sound(fresh, {})
      /\ pending \in {NULL} \cup [op : {"set", "add"}, name : Names, value : Values]
      /\ shift \in {NULL} \cup [i : Nat, j : Nat, x : Nat]
  BY <1>1, WhenReady
<1>3. HasRoom(object)
  <2>1. object.capacity \in Nat /\ object.items \in Seq(Item)
    BY <1>2 DEF Sound, Shape, IsTable
  <2>2. Len(object.items) \in Nat
    BY <2>1
  <2> QED
    BY <1>1, <2>1, <2>2 DEF Full, HasRoom, item_capacity
<1>4. Sound(object', {}) /\ Fits(object')
  BY <1>1, <1>2, <1>3, NotFoundAbsent, PlaceInSound
<1> QED
  BY <1>1, <1>2, <1>4, ReadyIInv

\* The new table is empty, and has room for every item and one more.
LEMMA GrowIInv ==
    ASSUME IInv, NEW op \in {"set", "add"}, NEW name \in Names, NEW value \in Values,
           Grow(op, name, value)
    PROVE  IInv'
<1>1. pc = "ready" /\ UNCHANGED <<object, shift>> /\ ~Found(object, name)
  BY DEF Grow, Refuse
<1>2. /\ Sound(object, {}) /\ Fits(object) /\ fresh = Table(0) /\ Sound(fresh, {})
      /\ pending \in {NULL} \cup [op : {"set", "add"}, name : Names, value : Values]
      /\ shift \in {NULL} \cup [i : Nat, j : Nat, x : Nat]
  BY <1>1, WhenReady
<1>3. CASE UNCHANGED <<fresh, pending, pc>>
  BY <1>1, <1>2, <1>3, ReadyIInv
<1>4. CASE ~UNCHANGED <<fresh, pending, pc>>
  <2> DEFINE doubled == 2 * object.capacity
             capacity == IF doubled > Starting THEN doubled ELSE Starting
  <2>1. /\ fresh' = Table(capacity)
        /\ pending' = [op |-> op, name |-> name, value |-> value]
        /\ pc' = "growing"
    BY <1>4 DEF Grow
  <2>2. capacity \in Nat /\ capacity >= 2 /\ capacity >= doubled
    BY <1>2, StartingAssumption DEF Sound, Shape
  <2> HIDE DEF capacity
  <2>3. /\ Sound(fresh', {})
        /\ fresh'.capacity = capacity /\ fresh'.items = <<>>
    BY <2>1, <2>2, SoundTable DEF Table
  <2>4. Growing'
    <3>1. Absent(object, name)
      BY <1>1, <1>2, NotFoundAbsent
    <3>2. Len(object.items) \in Nat
      BY <1>2 DEF Sound, Shape, IsTable
    <3>3. /\ pending' \in [op : {"set", "add"}, name : Names, value : Values]
          /\ pending'.name = name
      BY <2>1
    <3>4. Len(fresh'.items) = 0 /\ DOMAIN fresh'.items = {}
      BY <2>3
    <3> QED
      BY <1>1, <2>2, <2>3, <3>1, <3>2, <3>3, <3>4 DEF Growing
  <2>5. pending' \in [op : {"set", "add"}, name : Names, value : Values]
    BY <2>4 DEF Growing
  <2> QED
    BY <1>1, <1>2, <2>1, <2>3, <2>4, <2>5, ReadyIInv
<1> QED
  BY <1>3, <1>4

\* What is known while the table grows.
LEMMA WhenGrowing ==
    ASSUME IInv, pc = "growing"
    PROVE  /\ Sound(object, {}) /\ Fits(object) /\ Sound(fresh, {})
           /\ Growing
           /\ pending \in {NULL} \cup [op : {"set", "add"}, name : Names, value : Values]
           /\ shift \in {NULL} \cup [i : Nat, j : Nat, x : Nat]
           /\ Len(fresh.items) \in Nat /\ DOMAIN fresh.items = 1..Len(fresh.items)
           /\ Len(object.items) \in Nat /\ DOMAIN object.items = 1..Len(object.items)
<1>1. Sound(object, {}) /\ Fits(object) /\ Sound(fresh, {}) /\ Growing
  BY DEF IInv, Holes
<1> QED
  BY <1>1 DEF IInv, TypeOK, Sound, Shape, IsTable

\* The next item goes to the new table, under a name that is not there yet.
LEMMA RehashIInv == ASSUME IInv, Rehash PROVE IInv'
<1> DEFINE n == Len(fresh.items) + 1
           item == object.items[n]
<1>1. pc = "growing" /\ Len(fresh.items) < Len(object.items)
      /\ UNCHANGED <<object, pending, shift, pc>>
  BY DEF Rehash
<1>2. /\ Sound(object, {}) /\ Fits(object) /\ Sound(fresh, {}) /\ Growing
      /\ pending \in {NULL} \cup [op : {"set", "add"}, name : Names, value : Values]
      /\ shift \in {NULL} \cup [i : Nat, j : Nat, x : Nat]
      /\ Len(fresh.items) \in Nat /\ DOMAIN fresh.items = 1..Len(fresh.items)
      /\ Len(object.items) \in Nat /\ DOMAIN object.items = 1..Len(object.items)
  BY <1>1, WhenGrowing
<1>3. PICK ix \in DOMAIN fresh.cells :
          /\ StopsAt(fresh, item.name, ix)
          /\ fresh' = Inserted(fresh, ix, item.name, item.value)
  BY DEF Rehash
<1>4. n \in DOMAIN object.items /\ item.name \in Names /\ item.value \in Values
  <2>1. n \in DOMAIN object.items
    BY <1>1, <1>2
  <2> QED
    BY <1>2, <2>1, ItemType DEF Sound, Item
<1>5. Absent(fresh, item.name)
  <2> SUFFICES ASSUME NEW k \in DOMAIN fresh.items, fresh.items[k].name = item.name
               PROVE  FALSE
    BY DEF Absent
  <2>1. k \in DOMAIN object.items /\ k # n
    BY <1>1, <1>2
  <2>2. object.items[k].name = item.name
    BY <1>2 DEF Growing
  <2> QED
    BY <1>2, <1>4, <2>1, <2>2 DEF Sound, NamesApart
<1> HIDE DEF item
<1>6. Sound(fresh', {})
  BY <1>2, <1>3, <1>4, <1>5, InsertedSound
<1>7. /\ fresh'.capacity = fresh.capacity /\ Len(fresh'.items) = n
      /\ DOMAIN fresh'.items = DOMAIN fresh.items \cup {n}
      /\ \A k \in DOMAIN fresh.items : fresh'.items[k] = fresh.items[k]
      /\ fresh'.items[n].name = item.name /\ fresh'.items[n].value = item.value
  <2> DEFINE more == Inserted(fresh, ix, item.name, item.value)
  <2>1. more = Inserted(fresh, ix, item.name, item.value) /\ n = Len(fresh.items) + 1
    OBVIOUS
  <2> HIDE DEF more, n
  <2>2. /\ more.capacity = fresh.capacity /\ Len(more.items) = n
        /\ DOMAIN more.items = DOMAIN fresh.items \cup {n}
        /\ \A k \in DOMAIN fresh.items : more.items[k] = fresh.items[k]
        /\ more.items[n] = [name |-> item.name, value |-> item.value, cell |-> ix]
    BY <1>2, <1>4, <2>1, InsertedTable
  <2> QED
    BY <1>3, <2>1, <2>2
<1> HIDE DEF n
<1>8. Growing'
  <2>1. Len(fresh'.items) <= Len(object.items)
    BY <1>1, <1>2, <1>7 DEF n
  <2>2. \A k \in DOMAIN fresh'.items :
          /\ fresh'.items[k].name = object.items[k].name
          /\ fresh'.items[k].value = object.items[k].value
    BY <1>2, <1>7 DEF item, Growing
  <2> QED
    BY <1>1, <1>2, <1>7, <2>1, <2>2 DEF Growing
<1> QED
  BY <1>1, <1>2, <1>6, <1>8, ReadyIInv

\* The new table takes over with the pending name, which it does not hold.
LEMMA EndGrowIInv == ASSUME IInv, EndGrow PROVE IInv'
<1>1. /\ pc = "growing" /\ Len(fresh.items) = Len(object.items)
      /\ PlaceIn(fresh, pending.op, pending.name, pending.value)
      /\ fresh' = Table(0) /\ pending' = NULL /\ pc' = "ready" /\ UNCHANGED shift
  BY DEF EndGrow
<1>2. /\ Sound(object, {}) /\ Fits(object) /\ Sound(fresh, {}) /\ Growing
      /\ shift \in {NULL} \cup [i : Nat, j : Nat, x : Nat]
      /\ DOMAIN fresh.items = 1..Len(fresh.items)
      /\ Len(object.items) \in Nat /\ DOMAIN object.items = 1..Len(object.items)
  BY <1>1, WhenGrowing
<1>3. HasRoom(fresh)
  <2>1. object.capacity \in Nat /\ fresh.capacity \in Nat
    BY <1>2 DEF Sound, Shape
  <2>2. /\ item_capacity(fresh) >= item_capacity(object) + 1
        /\ item_capacity(fresh) \in Nat /\ item_capacity(object) \in Nat
    BY <1>2, <2>1, Capacities DEF Growing
  <2> QED
    BY <1>1, <1>2, <2>2 DEF Fits, HasRoom
<1>4. pending.name \in Names /\ pending.value \in Values
  BY <1>2 DEF Growing
<1>5. Absent(fresh, pending.name)
  BY <1>1, <1>2 DEF Absent, Growing
<1>6. Sound(object', {}) /\ Fits(object')
  BY <1>1, <1>2, <1>3, <1>4, <1>5, PlaceInSound
<1> QED
  BY <1>1, <1>2, <1>6, SoundTable, ReadyIInv

\* A refusal, or nothing at all.
LEMMA SameIInv ==
    ASSUME IInv, UNCHANGED <<object, fresh, pending, shift, pc>>
    PROVE  IInv'
  BY DEF IInv, TypeOK, Holes, Growing, Shifting, Table

\* Clearing leaves a table that was just initialised.
LEMMA ClearIInv == ASSUME IInv, json_object_clear PROVE IInv'
<1>1. /\ pc = "ready" /\ object' = Table(object.capacity)
      /\ UNCHANGED <<fresh, pending, shift, pc>>
  BY DEF json_object_clear
<1>2. /\ Sound(object, {}) /\ fresh = Table(0) /\ Sound(fresh, {})
      /\ pending \in {NULL} \cup [op : {"set", "add"}, name : Names, value : Values]
      /\ shift \in {NULL} \cup [i : Nat, j : Nat, x : Nat]
  BY <1>1, WhenReady
<1>3. object.capacity \in Nat
  BY <1>2 DEF Sound, Shape
<1>4. Sound(object', {}) /\ Fits(object')
  BY <1>1, <1>3, SoundTable
<1> QED
  BY <1>1, <1>2, <1>4, ReadyIInv

-----------------------------------------------------------------------------
(* A removal: going round from the hole until a cell is empty.             *)

\* The cell after j, in a table of c cells.
After(j, c) == IF j = c - 1 THEN 0 ELSE j + 1

\* The mask wraps the next cell round.
LEMMA NextIsAfter ==
    ASSUME NEW c \in Nat, c >= 2, NEW j \in 0..(c - 1)
    PROVE  (j + 1) % c = After(j, c) /\ After(j, c) \in 0..(c - 1)
<1>1. j % c = j
  <2>1. ((c * 0) + j) % c = j
    BY Remainder
  <2> QED
    BY <2>1
<1>2. 1 \in 0..(c - 1)
  OBVIOUS
<1>3. (j + 1) % c = IF (j % c) + 1 < c THEN (j % c) + 1 ELSE ((j % c) + 1) - c
  BY <1>2, AroundOnce
<1> QED
  BY <1>1, <1>3 DEF After

\* One more cell has been looked at, and nothing but it is new.
LEMMA OneMoreCell ==
    ASSUME NEW c \in Nat, c >= 2, NEW i \in 0..(c - 1), NEW j \in 0..(c - 1),
           NEW x \in Nat, Back(i, j, c) <= x, x < c - 1
    PROVE  LET e == After(j, c) IN
           /\ e \in 0..(c - 1) /\ e # i
           /\ Back(i, e, c) <= x + 1
           /\ \A k \in 0..(c - 1) :
                /\ Back(k, e, c) <= x + 1 => k = e \/ Back(k, j, c) <= x
                /\ Between(i, k, e) => k = e \/ Between(i, k, j)
  BY DEF After, Back, Between, OnWay

\* What is reached by way of the hole, and lies beyond the cells looked at, is
\* reached by way of the next cell too.
LEMMA BeyondNext ==
    ASSUME NEW c \in Nat, c >= 2, NEW i \in 0..(c - 1), NEW j \in 0..(c - 1),
           NEW h \in 0..(c - 1), NEW k \in 0..(c - 1),
           k # i, OnWay(h, i, k), ~Between(i, k, j),
           After(j, c) # k, After(j, c) # i
    PROVE  OnWay(h, After(j, c), k)
  BY DEF After, Between, OnWay

\* What a step of a removal has to show of the state it leaves.
LEMMA ShiftingIInv ==
    ASSUME IInv, UNCHANGED <<fresh, pending>>, fresh = Table(0), pc' = "shifting",
           NEW i \in DOMAIN object'.cells, NEW j \in DOMAIN object'.cells,
           NEW x \in 0..(object'.capacity - 1),
           shift' = [i |-> i, j |-> j, x |-> x],
           Sound(object', {i}), Fits(object'),
           Back(i, j, object'.capacity) <= x,
           \A c \in DOMAIN object'.cells :
               Back(c, j, object'.capacity) <= x => object'.cells[c] # 0,
           \E c \in DOMAIN object'.cells : object'.cells[c] = 0,
           \A k \in DOMAIN object'.items :
               Between(i, object'.items[k].cell, j) =>
                   ~OnWay(Home(object', object'.items[k].name), i, object'.items[k].cell)
    PROVE  IInv'
<1>1. shift'.i = i /\ shift'.j = j /\ shift'.x = x
  OBVIOUS
<1>2. i \in Nat /\ j \in Nat /\ x \in Nat
  BY CellNumber DEF Sound
<1>3. TypeOK'
  BY <1>2 DEF IInv, TypeOK, Sound, Shape
<1>4. Shifting'
  BY <1>1 DEF Shifting
<1>5. Holes' = {i}
  BY <1>1 DEF Holes
<1>6. Sound(fresh', {})
  BY DEF IInv
<1>7. (IF pc = "growing" THEN Growing ELSE fresh = Table(0))'
  BY Zenon DEF Table
<1> QED
  BY <1>3, <1>4, <1>5, <1>6, <1>7 DEF IInv

\* The first step of a removal: the item is gone, its cell is the hole.
LEMMA RemoveIInv ==
    ASSUME IInv, NEW name \in Names, Remove(name)
    PROVE  IInv'
<1>1. PICK ix \in Occupied(object) :
          /\ StopsAt(object, name, ix)
          /\ object' = Removed(object, object.cells[ix])
          /\ shift' = [i |-> ix, j |-> ix, x |-> 0]
  BY DEF Remove
<1>2. pc = "ready" /\ pc' = "shifting" /\ UNCHANGED <<fresh, pending>>
  BY DEF Remove
<1>3. Sound(object, {}) /\ Fits(object) /\ fresh = Table(0)
  BY <1>2, WhenReady
<1>4. /\ ix \in DOMAIN object.cells /\ object.cells[ix] # 0
      /\ object.cells[ix] \in DOMAIN object.items
  BY <1>1, <1>3, StopsAtItem DEF Occupied
<1>5. /\ object.capacity \in Nat /\ object.capacity > 0
      /\ DOMAIN object.cells = 0..(object.capacity - 1)
  BY <1>3, <1>4, CellNumber DEF Sound
<1>6. /\ Sound(object', {ix})
      /\ \A c \in DOMAIN object.cells : object'.cells[c] = 0 <=> object.cells[c] = 0
  BY <1>1, <1>3, <1>4, RemovedSound
<1>7. /\ object'.capacity = object.capacity
      /\ DOMAIN object'.cells = DOMAIN object.cells
      /\ Len(object'.items) = Len(object.items) - 1
      /\ Len(object.items) \in Nat
  BY <1>1, <1>3, <1>4, RemovedIs
<1>8. Fits(object')
  BY <1>3, <1>5, <1>7 DEF Fits, item_capacity
<1>9. \E c \in DOMAIN object'.cells : object'.cells[c] = 0
  <2>1. Len(object.items) < object.capacity
    BY <1>3, <1>5, <1>7 DEF Fits, item_capacity
  <2> QED
    BY <1>3, <1>6, <1>7, <2>1, RoomLeft
<1>10. /\ Back(ix, ix, object.capacity) <= 0
       /\ \A c \in DOMAIN object.cells : Back(c, ix, object.capacity) <= 0 => c = ix
       /\ \A c \in DOMAIN object.cells : ~Between(ix, c, ix)
  BY <1>4, <1>5 DEF Back, Between, OnWay
<1>11. \A k \in DOMAIN object'.items : object'.items[k].cell \in DOMAIN object.cells
  BY <1>6, <1>7 DEF Sound, Linked, InItsCell
<1>12. 0 \in 0..(object'.capacity - 1)
  BY <1>5, <1>7
<1> QED
  BY <1>1, <1>2, <1>3, <1>4, <1>6, <1>7, <1>8, <1>9, <1>10, <1>11, <1>12, ShiftingIInv

\* What is known while cells are moved back.
LEMMA WhenShifting ==
    ASSUME IInv, pc = "shifting"
    PROVE  /\ Shifting /\ Sound(object, {shift.i}) /\ Fits(object)
           /\ fresh = Table(0) /\ Sound(fresh, {})
           /\ pending \in {NULL} \cup [op : {"set", "add"}, name : Names, value : Values]
           /\ object.capacity \in Nat /\ object.capacity > 0
           /\ DOMAIN object.cells = 0..(object.capacity - 1)
           /\ shift.i \in 0..(object.capacity - 1)
           /\ shift.j \in 0..(object.capacity - 1)
           /\ shift.x \in 0..(object.capacity - 1)
           /\ shift = [i |-> shift.i, j |-> shift.j, x |-> shift.x]
           /\ object.cells[shift.i] # 0
<1>1. /\ Shifting /\ Sound(object, {shift.i}) /\ Fits(object)
      /\ fresh = Table(0) /\ Sound(fresh, {})
      /\ pending \in {NULL} \cup [op : {"set", "add"}, name : Names, value : Values]
  BY DEF IInv, Holes, TypeOK
<1>2. /\ shift.i \in DOMAIN object.cells /\ shift.j \in DOMAIN object.cells
      /\ shift.x \in 0..(object.capacity - 1)
      /\ shift = [i |-> shift.i, j |-> shift.j, x |-> shift.x]
      /\ object.cells[shift.i] # 0
  BY <1>1 DEF Shifting
<1> QED
  BY <1>1, <1>2, CellNumber DEF Sound

\* One cell further; its item moves to the hole if it is reached by way of it.
LEMMA ShiftIInv == ASSUME IInv, Shift PROVE IInv'
<1> DEFINE c == object.capacity
           i == shift.i
           j == shift.j
           x == shift.x
           e == After(j, c)
           item == object.cells[e]
           home == Home(object, object.items[item].name)
<1>1. pc = "shifting" /\ GoesOn /\ UNCHANGED <<fresh, pending, pc>>
  BY DEF Shift
<1>2. /\ Shifting /\ Sound(object, {i}) /\ Fits(object) /\ fresh = Table(0)
      /\ c \in Nat /\ c >= 2 /\ DOMAIN object.cells = 0..(c - 1)
      /\ i \in 0..(c - 1) /\ j \in 0..(c - 1) /\ x \in 0..(c - 1) /\ x < c - 1
      /\ shift = [i |-> i, j |-> j, x |-> x]
      /\ object.cells[i] # 0
  <2>1. x < c - 1
    BY <1>1 DEF GoesOn
  <2> QED
    BY <1>1, <2>1, WhenShifting
<1>3. NextCell = e /\ e \in 0..(c - 1) /\ item # 0
  <2>1. NextCell = e /\ e \in 0..(c - 1)
    <3> HIDE DEF c, j
    <3> QED
      BY <1>2, NextIsAfter DEF NextCell, c, j
  <2> QED
    BY <1>1, <2>1 DEF GoesOn
<1>4. /\ Back(i, j, c) <= x
      /\ \A k \in 0..(c - 1) : Back(k, j, c) <= x => object.cells[k] # 0
      /\ \E k \in 0..(c - 1) : object.cells[k] = 0
      /\ \A k \in DOMAIN object.items :
           Between(i, object.items[k].cell, j) =>
               ~OnWay(Home(object, object.items[k].name), i, object.items[k].cell)
  BY <1>2 DEF Shifting
<1>5. /\ e # i
      /\ Back(i, e, c) <= x + 1
      /\ \A k \in 0..(c - 1) :
           /\ Back(k, e, c) <= x + 1 => k = e \/ Back(k, j, c) <= x
           /\ Between(i, k, e) => k = e \/ Between(i, k, j)
  <2> HIDE DEF c, i, j, x
  <2> QED
    BY <1>2, <1>4, OneMoreCell
<1>6. /\ item \in DOMAIN object.items /\ object.items[item].cell = e
      /\ home \in 0..(c - 1)
  <2>1. item \in DOMAIN object.items /\ object.items[item].cell = e
    BY <1>2, <1>3, <1>5 DEF Sound, Linked
  <2>2. object.items[item].name \in Names
    BY <1>2, <2>1, ItemType DEF Sound, Item
  <2> QED
    BY <1>2, <2>1, <2>2, Cells DEF Sound
<1>7. MovesBack(i, e, home) <=> OnWay(home, i, e)
  <2> HIDE DEF c, i, e, home
  <2> QED
    BY <1>2, <1>3, <1>5, <1>6, MovesBackIs
<1>8. IF MovesBack(i, e, home)
      THEN /\ object' = Moved(object, i, e)
           /\ shift' = [i |-> e, j |-> e, x |-> x + 1]
      ELSE /\ shift' = [shift EXCEPT !.j = e, !.x = x + 1]
           /\ UNCHANGED object
  BY <1>3 DEF Shift, Moved, Home
<1>9. x + 1 \in 0..(c - 1)
  BY <1>2
<1> HIDE DEF home
<1>10. CASE MovesBack(i, e, home)
  <2>1. OnWay(home, i, e)
    BY <1>7, <1>10
  <2>2. /\ Sound(object', {e})
        /\ object'.capacity = object.capacity
        /\ Len(object'.items) = Len(object.items)
        /\ DOMAIN object'.items = DOMAIN object.items
        /\ DOMAIN object'.cells = DOMAIN object.cells
        /\ \A k \in DOMAIN object.cells : object'.cells[k] = 0 <=> object.cells[k] = 0
    <3>1. /\ i \in DOMAIN object.cells /\ e \in DOMAIN object.cells /\ i # e
          /\ Sound(object, {i}) /\ object.cells[i] # 0 /\ object.cells[e] # 0
          /\ OnWay(Home(object, object.items[object.cells[e]].name), i, e)
      BY <1>2, <1>3, <1>5, <2>1 DEF home
    <3>2. object' = Moved(object, i, e)
      BY <1>8, <1>10
    <3> HIDE DEF i, e, c, item
    <3>3. HoleAt(e, Moved(object, i, e), object)
      BY <3>1, MovedSound
    <3> QED
      BY <3>2, <3>3 DEF HoleAt
  <2>3. Fits(object')
    BY <1>2, <2>2 DEF Fits, item_capacity
  <2>4. /\ Back(e, e, c) <= x + 1
        /\ \A k \in 0..(c - 1) : ~Between(e, k, e)
    BY <1>2, <1>3 DEF Back, Between, OnWay
  <2>5. \A k \in DOMAIN object'.items : object'.items[k].cell \in DOMAIN object.cells
    BY <2>2 DEF Sound, Linked, InItsCell
  <2>6. \A k \in 0..(c - 1) : Back(k, e, c) <= x + 1 => object'.cells[k] # 0
    BY <1>2, <1>3, <1>4, <1>5, <2>2
  <2> HIDE DEF c, i, j, x, e, item
  <2> QED
    BY <1>1, <1>2, <1>3, <1>4, <1>8, <1>9, <1>10, <2>2, <2>3, <2>4, <2>5, <2>6,
       ShiftingIInv DEF c
<1>11. CASE ~MovesBack(i, e, home)
  <2>1. ~OnWay(home, i, e) /\ UNCHANGED object
    BY <1>7, <1>8, <1>11
  <2>2. shift' = [i |-> i, j |-> e, x |-> x + 1]
    BY <1>2, <1>8, <1>11
  <2>3. \A k \in 0..(c - 1) : Back(k, e, c) <= x + 1 => object.cells[k] # 0
    BY <1>2, <1>3, <1>4, <1>5
  <2>4. ASSUME NEW k \in DOMAIN object.items, Between(i, object.items[k].cell, e)
        PROVE  ~OnWay(Home(object, object.items[k].name), i, object.items[k].cell)
    <3>1. /\ object.items[k].cell \in 0..(c - 1)
          /\ object.cells[object.items[k].cell] = k
      BY <1>2 DEF Sound, Linked, InItsCell
    <3>2. CASE object.items[k].cell = e
      BY <2>1, <3>1, <3>2 DEF home
    <3>3. CASE object.items[k].cell # e
      BY <1>4, <1>5, <2>4, <3>1, <3>3
    <3> QED
      BY <3>2, <3>3
  <2> HIDE DEF c, i, j, x, e, item
  <2> QED
    BY <1>1, <1>2, <1>3, <1>4, <1>5, <1>9, <2>1, <2>2, <2>3, <2>4, ShiftingIInv DEF c
<1> QED
  BY <1>10, <1>11

\* The search for the end of the run of cells is over: no item is reached by
\* way of the hole, which is emptied.
LEMMA EndShiftIInv == ASSUME IInv, EndShift PROVE IInv'
<1> DEFINE c == object.capacity
           i == shift.i
           j == shift.j
           x == shift.x
           e == After(j, c)
<1>1. /\ pc = "shifting" /\ ~GoesOn /\ pc' = "ready" /\ shift' = NULL
      /\ object' = [object EXCEPT !.cells[i] = 0] /\ UNCHANGED <<fresh, pending>>
  BY DEF EndShift
<1>2. /\ Shifting /\ Sound(object, {i}) /\ Fits(object)
      /\ fresh = Table(0) /\ Sound(fresh, {})
      /\ pending \in {NULL} \cup [op : {"set", "add"}, name : Names, value : Values]
      /\ c \in Nat /\ c > 0 /\ DOMAIN object.cells = 0..(c - 1)
      /\ i \in 0..(c - 1) /\ j \in 0..(c - 1) /\ x \in 0..(c - 1)
      /\ object.cells[i] # 0
  BY <1>1, WhenShifting
<1>3. /\ \A k \in 0..(c - 1) : Back(k, j, c) <= x => object.cells[k] # 0
      /\ \E k \in 0..(c - 1) : object.cells[k] = 0
      /\ \A k \in DOMAIN object.items :
           Between(i, object.items[k].cell, j) =>
               ~OnWay(Home(object, object.items[k].name), i, object.items[k].cell)
  BY <1>2 DEF Shifting
<1>4. x < c - 1
  <2>1. \A k \in 0..(c - 1) : Back(k, j, c) <= c - 1
    BY <1>2 DEF Back
  <2> QED
    BY <1>2, <1>3, <2>1
<1>5. c >= 2 /\ e \in 0..(c - 1) /\ object.cells[e] = 0
  <2>1. c >= 2
    BY <1>2, <1>4
  <2>2. NextCell = e /\ e \in 0..(c - 1)
    <3> HIDE DEF c, j
    <3> QED
      BY <1>2, <2>1, NextIsAfter DEF NextCell, c, j
  <2> QED
    BY <1>1, <1>4, <2>1, <2>2 DEF GoesOn
<1>6. ASSUME NEW k \in DOMAIN object.items,
             OnWay(Home(object, object.items[k].name), i, object.items[k].cell)
      PROVE  FALSE
  <2> DEFINE cell == object.items[k].cell
             home == Home(object, object.items[k].name)
  <2>1. cell \in 0..(c - 1) /\ object.cells[cell] = k /\ cell # i
    BY <1>2 DEF Sound, Linked, InItsCell
  <2>2. object.items[k].name \in Names /\ k # 0
    BY <1>2, ItemType DEF Sound, Item
  <2>3. home \in 0..(c - 1)
    BY <1>2, <2>2, Cells DEF Sound
  <2>4. e # cell /\ e # i
    BY <1>2, <1>5, <2>1, <2>2
  <2>5. ~Between(i, cell, j) /\ OnWay(home, i, cell)
    BY <1>3, <1>6
  <2>6. OnWay(home, e, cell)
    <3> HIDE DEF c, i, j, cell, home
    <3> QED
      BY <1>2, <1>5, <2>1, <2>3, <2>4, <2>5, BeyondNext
  <2> QED
    BY <1>2, <1>5, <2>6 DEF Sound, WaysKept
<1>7. /\ Sound(object', {})
      /\ object'.capacity = object.capacity /\ object'.items = object.items
  <2> HIDE DEF i
  <2> QED
    BY <1>1, <1>2, <1>6, ClosedSound
<1>8. Fits(object')
  BY <1>2, <1>7 DEF Fits, item_capacity
<1> QED
  BY <1>1, <1>2, <1>7, <1>8, ReadyIInv

-----------------------------------------------------------------------------
(* The invariant, and what follows from it.                                *)

\* Every operation and every step of its loops keeps the invariant.
LEMMA NextIInv == IInv /\ [Next]_vars => IInv'
<1> SUFFICES ASSUME IInv, [Next]_vars PROVE IInv'
  OBVIOUS
<1>1. ASSUME NEW op \in {"set", "add"}, NEW name \in Names, NEW value \in Values,
             PutNew(op, name, value)
      PROVE  IInv'
  BY <1>1, PutNewIInv
<1>2. ASSUME NEW op \in {"set", "add"}, NEW name \in Names, NEW value \in Values,
             Grow(op, name, value)
      PROVE  IInv'
  BY <1>2, GrowIInv
<1>3. ASSUME NEW name \in Names, NEW value \in Values, Replace(name, value)
      PROVE  IInv'
  BY <1>3, ReplaceIInv
<1>4. ASSUME NEW name \in Names, AddTwice(name) \/ RemoveMissing(name)
      PROVE  IInv'
  BY <1>4, SameIInv DEF AddTwice, RemoveMissing, Refuse
<1>5. ASSUME NEW name \in Names, Remove(name)
      PROVE  IInv'
  BY <1>5, RemoveIInv
<1>6. CASE Rehash
  BY <1>6, RehashIInv
<1>7. CASE EndGrow
  BY <1>7, EndGrowIInv
<1>8. CASE Shift
  BY <1>8, ShiftIInv
<1>9. CASE EndShift
  BY <1>9, EndShiftIInv
<1>10. CASE json_object_clear
  BY <1>10, ClearIInv
<1>11. CASE UNCHANGED vars
  BY <1>11, SameIInv DEF vars
<1> QED
  BY <1>1, <1>2, <1>3, <1>4, <1>5, <1>6, <1>7, <1>8, <1>9, <1>10, <1>11 DEF Next

\* In every state parson's table is sound, but for the hole of a removal.
THEOREM Invariance == Spec => []IInv
<1>1. Init => IInv
  BY InitIInv
<1>2. IInv /\ [Next]_vars => IInv'
  BY NextIInv
<1> QED
  BY <1>1, <1>2, PTL DEF Spec

\* The tables, the pending operation and the loop's variables keep their types.
THEOREM TypesKept == Spec => []TypeOK
<1>1. IInv => TypeOK
  BY DEF IInv
<1> QED
  BY <1>1, Invariance, PTL

\* Between operations json_object_get_cell_ix finds every item of the object in
\* the cell the item remembers, and every item of the table being filled.
THEOREM ItemsFound == Spec => []EveryItemFound
<1>1. IInv => EveryItemFound
  <2> SUFFICES ASSUME IInv PROVE EveryItemFound
    OBVIOUS
  <2>1. Findable(fresh)
    BY SoundFindable DEF IInv
  <2>2. ASSUME pc = "ready" PROVE Findable(object)
    BY <2>2, WhenReady, SoundFindable
  <2> QED
    BY <2>1, <2>2 DEF EveryItemFound
<1> QED
  BY <1>1, Invariance, PTL

\* While a removal moves cells back, every item is in the cell it remembers, no
\* two items share a name, and every occupied cell but the hole has its item.
THEOREM NoItemLost == Spec => []NothingLost
<1>1. IInv => NothingLost
  <2> SUFFICES ASSUME IInv PROVE NothingLost
    OBVIOUS
  <2>1. Linked(object, Holes) /\ NamesApart(object)
    BY DEF IInv, Sound
  <2>2. ASSUME NEW ix \in Occupied(object), ~(pc = "shifting" /\ ix = shift.i)
        PROVE  \E k \in DOMAIN object.items :
                  object.cells[ix] = k /\ object.items[k].cell = ix
    BY <2>1, <2>2 DEF Occupied, Linked, Holes
  <2> QED
    BY <2>1, <2>2 DEF NothingLost, Linked, NamesApart
<1> QED
  BY <1>1, Invariance, PTL

\* Neither table is ever full: a free cell ends every search.
THEOREM FreeCellLeft == Spec => []NeverFull
<1>1. IInv => NeverFull
  <2> SUFFICES ASSUME IInv PROVE NeverFull
    OBVIOUS
  <2>1. /\ object.capacity \in Nat /\ fresh.capacity \in Nat
        /\ Len(object.items) \in Nat /\ Len(fresh.items) \in Nat
        /\ Fits(object)
    BY DEF IInv, Sound, Shape, IsTable
  <2>2. object.capacity > 0 => Len(object.items) < object.capacity
    BY <2>1 DEF Fits, item_capacity
  <2>3. fresh.capacity > 0 => Len(fresh.items) < fresh.capacity
    <3>1. CASE pc = "growing"
      <4>1. Growing
        BY <3>1 DEF IInv
      <4>2. /\ item_capacity(fresh) >= item_capacity(object) + 1
            /\ item_capacity(fresh) \in Nat /\ item_capacity(object) \in Nat
            /\ fresh.capacity > 0 => item_capacity(fresh) < fresh.capacity
        BY <2>1, <4>1, Capacities DEF Growing
      <4> QED
        BY <2>1, <4>1, <4>2 DEF Growing, Fits
    <3>2. CASE pc # "growing"
      BY <3>2 DEF IInv, Table
    <3> QED
      BY <3>1, <3>2
  <2> QED
    BY <2>2, <2>3 DEF NeverFull
<1> QED
  BY <1>1, Invariance, PTL

-----------------------------------------------------------------------------
(* The table does what a map does.                                         *)

\* What a table stands for.
Entries(table) ==
    [name \in Names |->
        LET at == {k \in DOMAIN table.items : table.items[k].name = name}
        IN IF at = {} THEN NULL ELSE table.items[CHOOSE k \in at : TRUE].value]

\* The state function of JsonObject is that of its table.
LEMMA ContentIs == content = Entries(object) /\ content' = Entries(object')
  BY DEF content, Entries

\* It is a function of names.
LEMMA EntriesMap ==
    ASSUME NEW table
    PROVE  /\ Entries(table) = [name \in Names |-> Entries(table)[name]]
           /\ DOMAIN Entries(table) = Names
  BY DEF Entries

\* The entry of an item's name is the item's value, as no other has the name.
LEMMA EntryOfItem ==
    ASSUME NEW table, NamesApart(table), NEW k \in DOMAIN table.items,
           table.items[k].name \in Names
    PROVE  Entries(table)[table.items[k].name] = table.items[k].value
<1> DEFINE name == table.items[k].name
           at == {l \in DOMAIN table.items : table.items[l].name = name}
<1>1. at = {k}
  BY DEF NamesApart
<1>2. at # {} /\ (CHOOSE l \in at : TRUE) = k
  BY <1>1
<1> HIDE DEF at
<1>3. Entries(table)[name] =
          IF at = {} THEN NULL ELSE table.items[CHOOSE l \in at : TRUE].value
  BY DEF Entries, at
<1> QED
  BY <1>2, <1>3

\* A name no item has is not in the map.
LEMMA EntryOfNone ==
    ASSUME NEW table, NEW name \in Names, Absent(table, name)
    PROVE  Entries(table)[name] = NULL
<1> DEFINE at == {l \in DOMAIN table.items : table.items[l].name = name}
<1>1. at = {}
  BY DEF Absent
<1> HIDE DEF at
<1>2. Entries(table)[name] =
          IF at = {} THEN NULL ELSE table.items[CHOOSE l \in at : TRUE].value
  BY DEF Entries, at
<1> QED
  BY <1>1, <1>2

\* A map with the values of the items and nothing else.
Agrees(f, table) ==
    /\ f = [name \in Names |-> f[name]]
    /\ \A k \in DOMAIN table.items : f[table.items[k].name] = table.items[k].value
    /\ \A name \in Names : Absent(table, name) => f[name] = NULL

\* A map that agrees with every item, and with every absent name, is the table's.
LEMMA EntriesAre ==
    ASSUME NEW table, Shape(table), NamesApart(table), NEW f, Agrees(f, table)
    PROVE  Entries(table) = f
<1> USE DEF Agrees
<1>1. \A k \in DOMAIN table.items : table.items[k].name \in Names
  BY ItemType DEF Item
<1>2. ASSUME NEW name \in Names
      PROVE  Entries(table)[name] = f[name]
  <2>1. CASE Absent(table, name)
    BY <2>1, EntryOfNone
  <2>2. CASE ~Absent(table, name)
    BY <1>1, <2>2, EntryOfItem DEF Absent
  <2> QED
    BY <2>1, <2>2
<1>3. Entries(table) = [name \in Names |-> Entries(table)[name]]
  BY DEF Entries
<1> HIDE DEF Entries
<1> QED
  BY <1>2, <1>3

\* Tables with the same names and values in the same places stand for the same.
LEMMA SameEntries ==
    ASSUME NEW table, NEW other, DOMAIN other.items = DOMAIN table.items,
           \A k \in DOMAIN table.items :
               /\ other.items[k].name = table.items[k].name
               /\ other.items[k].value = table.items[k].value,
           Shape(table), NamesApart(table), Shape(other), NamesApart(other)
    PROVE  Entries(other) = Entries(table)
<1>1. Entries(table) = [name \in Names |-> Entries(table)[name]]
  BY DEF Entries
<1>2. \A k \in DOMAIN table.items :
        Entries(table)[other.items[k].name] = other.items[k].value
  <2>1. \A k \in DOMAIN table.items : table.items[k].name \in Names
    BY ItemType DEF Item
  <2> QED
    BY <2>1, EntryOfItem
<1>3. \A name \in Names : Absent(other, name) => Entries(table)[name] = NULL
  BY EntryOfNone DEF Absent
<1>4. Agrees(Entries(table), other)
  BY <1>1, <1>2, <1>3 DEF Agrees
<1> QED
  BY <1>4, EntriesAre

\* A new item is a new entry.
LEMMA InsertedEntries ==
    ASSUME NEW table, Sound(table, {}), NEW ix \in DOMAIN table.cells,
           NEW name \in Names, NEW value \in Values,
           Absent(table, name), StopsAt(table, name, ix)
    PROVE  Entries(Inserted(table, ix, name, value)) =
               [Entries(table) EXCEPT ![name] = value]
<1> DEFINE more == Inserted(table, ix, name, value)
           last == Len(table.items) + 1
           f == [Entries(table) EXCEPT ![name] = value]
<1>1. more = Inserted(table, ix, name, value) /\ last = Len(table.items) + 1
  OBVIOUS
<1>2. Shape(more) /\ NamesApart(more)
  BY InsertedSound DEF Sound
<1> HIDE DEF more, last
<1>3. /\ more.capacity = table.capacity
      /\ Len(more.items) = last
      /\ DOMAIN more.items = DOMAIN table.items \cup {last}
      /\ \A k \in DOMAIN table.items : more.items[k] = table.items[k]
      /\ more.items[last] = [name |-> name, value |-> value, cell |-> ix]
  BY <1>1, InsertedTable
<1>4. \A k \in DOMAIN table.items :
        /\ table.items[k].name \in Names /\ table.items[k].name # name
        /\ Entries(table)[table.items[k].name] = table.items[k].value
  <2>1. \A k \in DOMAIN table.items : table.items[k].name \in Names
    BY ItemType DEF Sound, Item
  <2> QED
    BY <2>1, EntryOfItem DEF Sound, Absent
<1>5. /\ f = [n \in Names |-> f[n]]
      /\ \A n \in Names : f[n] = IF n = name THEN value ELSE Entries(table)[n]
  BY EntriesMap
<1> HIDE DEF f
<1>6. \A k \in DOMAIN more.items : f[more.items[k].name] = more.items[k].value
  <2>1. \A k \in DOMAIN table.items : f[more.items[k].name] = more.items[k].value
    BY <1>3, <1>4, <1>5
  <2>2. f[more.items[last].name] = more.items[last].value
    BY <1>3, <1>5
  <2> QED
    BY <1>3, <2>1, <2>2
<1>7. ASSUME NEW n \in Names, Absent(more, n)
      PROVE  f[n] = NULL
  <2>1. n # name /\ Absent(table, n)
    BY <1>3, <1>7 DEF Absent
  <2> QED
    BY <1>5, <2>1, EntryOfNone
<1>8. Agrees(f, more)
  BY <1>5, <1>6, <1>7 DEF Agrees
<1>9. Entries(more) = f
  BY <1>2, <1>8, EntriesAre
<1> QED
  BY <1>1, <1>9 DEF f

\* The same items but for the value of one.
OneValueSet(replaced, table, n, value) ==
    /\ Shape(replaced) /\ NamesApart(replaced)
    /\ DOMAIN replaced.items = DOMAIN table.items
    /\ \A k \in DOMAIN table.items :
         /\ replaced.items[k].name = table.items[k].name
         /\ replaced.items[k].value = IF k = n THEN value ELSE table.items[k].value

\* Another value is another entry of the same name.
LEMMA ReplacedEntries ==
    ASSUME NEW table, Sound(table, {}), NEW n \in DOMAIN table.items,
           NEW value \in Values, NEW replaced, OneValueSet(replaced, table, n, value)
    PROVE  Entries(replaced) = [Entries(table) EXCEPT ![table.items[n].name] = value]
<1> USE DEF OneValueSet
<1> DEFINE name == table.items[n].name
           f == [Entries(table) EXCEPT ![name] = value]
<1>1. \A k \in DOMAIN table.items :
        /\ table.items[k].name \in Names
        /\ table.items[k].name = name => k = n
        /\ Entries(table)[table.items[k].name] = table.items[k].value
  <2>1. \A k \in DOMAIN table.items : table.items[k].name \in Names
    BY ItemType DEF Sound, Item
  <2> QED
    BY <2>1, EntryOfItem DEF Sound, NamesApart
<1>2. /\ f = [m \in Names |-> f[m]]
      /\ \A m \in Names : f[m] = IF m = name THEN value ELSE Entries(table)[m]
  BY EntriesMap
<1> HIDE DEF f
<1>3. \A k \in DOMAIN replaced.items : f[replaced.items[k].name] = replaced.items[k].value
  BY <1>1, <1>2
<1>4. ASSUME NEW m \in Names, Absent(replaced, m)
      PROVE  f[m] = NULL
  <2>1. m # name /\ Absent(table, m)
    BY <1>4 DEF Absent
  <2> QED
    BY <1>2, <2>1, EntryOfNone
<1>5. Agrees(f, replaced)
  BY <1>2, <1>3, <1>4 DEF Agrees
<1> QED
  BY <1>5, EntriesAre DEF f

\* An item less is an entry less, wherever the last item goes.
LEMMA RemovedEntries ==
    ASSUME NEW table, Sound(table, {}), NEW ix \in DOMAIN table.cells,
           table.cells[ix] \in DOMAIN table.items
    PROVE  Entries(Removed(table, table.cells[ix])) =
               [Entries(table) EXCEPT ![table.items[table.cells[ix]].name] = NULL]
<1> DEFINE item == table.cells[ix]
           last == Len(table.items)
           less == Removed(table, item)
           name == table.items[item].name
           f == [Entries(table) EXCEPT ![name] = NULL]
           Was(k) == IF k = item THEN last ELSE k
<1>1. /\ last \in Nat /\ last # 0 /\ item \in 1..last
      /\ DOMAIN table.items = 1..last
      /\ DOMAIN less.items = 1..(last - 1)
      /\ \A k \in 1..(last - 1) : less.items[k] = table.items[Was(k)]
  BY RemovedIs
<1>2. Shape(less) /\ NamesApart(less)
  BY RemovedSound DEF Sound
<1> HIDE DEF item, last, less
<1>3. \A k \in 1..last :
        /\ table.items[k].name \in Names
        /\ table.items[k].name = name => k = item
        /\ Entries(table)[table.items[k].name] = table.items[k].value
  <2>1. \A k \in DOMAIN table.items : table.items[k].name \in Names
    BY ItemType DEF Sound, Item
  <2> QED
    BY <1>1, <2>1, EntryOfItem DEF Sound, NamesApart
<1>4. /\ f = [m \in Names |-> f[m]]
      /\ \A m \in Names : f[m] = IF m = name THEN NULL ELSE Entries(table)[m]
  BY EntriesMap
<1> HIDE DEF f
<1>5. \A k \in 1..(last - 1) : Was(k) \in 1..last /\ Was(k) # item
  BY <1>1
<1> HIDE DEF Was
<1>6. \A k \in DOMAIN less.items : f[less.items[k].name] = less.items[k].value
  <2> SUFFICES ASSUME NEW k \in 1..(last - 1)
               PROVE  f[less.items[k].name] = less.items[k].value
    BY <1>1
  <2>1. less.items[k] = table.items[Was(k)] /\ Was(k) \in 1..last /\ Was(k) # item
    BY <1>1, <1>5
  <2> QED
    BY <1>3, <1>4, <2>1
<1>7. ASSUME NEW m \in Names, Absent(less, m), m # name
      PROVE  Absent(table, m)
  <2> SUFFICES ASSUME NEW l \in 1..last, table.items[l].name = m
               PROVE  FALSE
    BY <1>1 DEF Absent
  <2>1. l # item
    BY <1>7
  <2>2. CASE l # last
    <3>1. l \in 1..(last - 1) /\ Was(l) = l
      BY <1>1, <2>1, <2>2 DEF Was
    <3>2. less.items[l] = table.items[l] /\ l \in DOMAIN less.items
      BY <1>1, <3>1
    <3> QED
      BY <1>7, <3>2 DEF Absent
  <2>3. CASE l = last
    BY <1>1, <1>7, <2>1, <2>3 DEF Absent, Was
  <2> QED
    BY <2>2, <2>3
<1>8. \A m \in Names : Absent(less, m) => f[m] = NULL
  BY <1>4, <1>7, EntryOfNone
<1>9. Agrees(f, less)
  BY <1>4, <1>6, <1>8 DEF Agrees
<1>10. Entries(less) = f
  BY <1>2, <1>9, EntriesAre
<1> QED
  BY <1>10 DEF f, less, item

\* Placing an absent name is putting it in the map, or a refusal.
LEMMA PlaceInMaps ==
    ASSUME NEW table, Sound(table, {}), Entries(table) = content,
           NEW op \in {"set", "add"}, NEW name \in Names, NEW value \in Values,
           Absent(table, name), PlaceIn(table, op, name, value)
    PROVE  Map!Next
<1>1. content[name] = NULL
  BY EntryOfNone
<1>2. CASE op = "set" /\ object' = table /\ Answer(op, name, FALSE)
  <2>1. content' = content
    BY <1>2, ContentIs
  <2>2. Map!Refused(name)
    BY <1>1, <1>2, <2>1 DEF Map!Refused, Map!Refuse, Map!Answer, Answer
  <2> QED
    BY <2>2 DEF Map!Next
<1>3. ASSUME NEW ix \in DOMAIN table.cells, StopsAt(table, name, ix),
             object' = Inserted(table, ix, name, value), Answer(op, name, TRUE)
      PROVE  Map!Next
  <2>1. content' = [content EXCEPT ![name] = value]
    BY <1>3, InsertedEntries, ContentIs
  <2>2. Map!Put(op, name, value)
    BY <1>3, <2>1 DEF Map!Put, Map!Answer, Answer
  <2>3. Map!Set(name, value) \/ Map!Add(name, value)
    BY <1>1, <2>2 DEF Map!Set, Map!Add
  <2> QED
    BY <2>3 DEF Map!Next
<1> QED
  BY <1>2, <1>3 DEF PlaceIn

\* The map's variables change with the table's items and the answer only.
LEMMA SameMap ==
    ASSUME Entries(object') = Entries(object), UNCHANGED answer
    PROVE  UNCHANGED Map!vars
  BY ContentIs DEF Map!vars

\* Setting the value of a name that is there.
LEMMA ReplaceMaps ==
    ASSUME IInv, NEW name \in Names, NEW value \in Values, Replace(name, value)
    PROVE  Map!Next
<1>1. PICK ix \in Occupied(object) :
          /\ StopsAt(object, name, ix)
          /\ object' = [object EXCEPT !.items[object.cells[ix]].value = value]
  BY DEF Replace
<1>2. Sound(object, {})
  BY WhenReady DEF Replace
<1>3. /\ object.cells[ix] \in DOMAIN object.items
      /\ object.items[object.cells[ix]].name = name
  BY <1>1, <1>2, StopsAtItem
<1> DEFINE n == object.cells[ix]
<1> HIDE DEF n
<1>4. object' = [object EXCEPT !.items[n].value = value] /\ n \in DOMAIN object.items
      /\ object.items[n].name = name
  BY <1>1, <1>3 DEF n
<1>5. OneValueSet(object', object, n, value)
  BY <1>2, <1>4, ReplacedSound DEF OneValueSet, Sound
<1>6. Entries(object') = [Entries(object) EXCEPT ![object.items[n].name] = value]
  BY <1>2, <1>4, <1>5, ReplacedEntries
<1>7. content' = [content EXCEPT ![name] = value]
  BY <1>4, <1>6, ContentIs
<1>8. Map!Set(name, value)
  BY <1>7 DEF Map!Set, Map!Put, Map!Answer, Replace, Answer
<1> QED
  BY <1>8 DEF Map!Next

\* A refusal of "set", "add" or "remove".
LEMMA RefuseMaps ==
    ASSUME NEW name \in Names, NEW op, Refuse(op, name),
           \/ op = "add"
           \/ op \in {"set", "remove"} /\ Absent(object, name)
    PROVE  Map!Next
<1>1. content' = content
  BY ContentIs DEF Refuse
<1>2. op \in {"set", "remove"} => content[name] = NULL
  BY EntryOfNone, ContentIs
<1>3. Map!Refuse(op, name)
  BY <1>1 DEF Map!Refuse, Map!Answer, Refuse, Answer
<1>4. Map!Refused(name)
  BY <1>2, <1>3 DEF Map!Refused
<1> QED
  BY <1>4 DEF Map!Next

\* The first step of a removal is the whole of it, for the map.
LEMMA RemoveMaps == ASSUME IInv, NEW name \in Names, Remove(name) PROVE Map!Next
<1>1. PICK ix \in Occupied(object) :
          /\ StopsAt(object, name, ix)
          /\ object' = Removed(object, object.cells[ix])
  BY DEF Remove
<1>2. Sound(object, {})
  BY WhenReady DEF Remove
<1>3. /\ ix \in DOMAIN object.cells
      /\ object.cells[ix] \in DOMAIN object.items
      /\ object.items[object.cells[ix]].name = name
  BY <1>1, <1>2, StopsAtItem
<1>4. content' = [content EXCEPT ![name] = NULL]
  BY <1>1, <1>2, <1>3, RemovedEntries, ContentIs
<1>5. content[name] # NULL
  <2> DEFINE n == object.cells[ix]
  <2>1. object.items[n].value \in Values
    BY <1>2, <1>3, ItemType DEF Sound, Item
  <2>2. Entries(object)[object.items[n].name] = object.items[n].value
    BY <1>2, <1>3, EntryOfItem DEF Sound
  <2> QED
    BY <1>3, <2>1, <2>2, NullAssumption, ContentIs
<1>6. Map!Remove(name)
  BY <1>4, <1>5 DEF Map!Remove, Map!Put, Map!Answer, Remove, Answer
<1> QED
  BY <1>6 DEF Map!Next

\* The new table takes over with the same entries.
LEMMA EndGrowMaps == ASSUME IInv, EndGrow PROVE Map!Next
<1>1. /\ pc = "growing" /\ Len(fresh.items) = Len(object.items)
      /\ PlaceIn(fresh, pending.op, pending.name, pending.value)
  BY DEF EndGrow
<1>2. /\ Sound(object, {}) /\ Sound(fresh, {}) /\ Growing
      /\ DOMAIN fresh.items = 1..Len(fresh.items)
      /\ DOMAIN object.items = 1..Len(object.items)
  BY <1>1, WhenGrowing
<1>3. /\ DOMAIN fresh.items = DOMAIN object.items
      /\ \A k \in DOMAIN object.items : /\ fresh.items[k].name = object.items[k].name
                                        /\ fresh.items[k].value = object.items[k].value
  BY <1>1, <1>2 DEF Growing
<1>4. Entries(fresh) = content
  BY <1>2, <1>3, SameEntries, ContentIs DEF Sound
<1>5. /\ pending.op \in {"set", "add"} /\ pending.name \in Names
      /\ pending.value \in Values
  BY <1>2 DEF Growing
<1>6. Absent(fresh, pending.name)
  BY <1>2, <1>3 DEF Absent, Growing
<1> QED
  BY <1>1, <1>2, <1>4, <1>5, <1>6, PlaceInMaps

\* Moving cells back changes no entry.
LEMMA ShiftMaps == ASSUME IInv, IInv', Shift \/ EndShift PROVE UNCHANGED Map!vars
<1>1. /\ Shape(object) /\ NamesApart(object) /\ Shape(object') /\ NamesApart(object')
      /\ object.items \in Seq(Item)
      /\ object = [capacity |-> object.capacity, items |-> object.items,
                   cells |-> object.cells]
  BY DEF IInv, Sound, Shape, IsTable
<1>2. /\ DOMAIN object'.items = DOMAIN object.items
      /\ \A k \in DOMAIN object.items : /\ object'.items[k].name = object.items[k].name
                                        /\ object'.items[k].value = object.items[k].value
  <2>1. CASE UNCHANGED object
    BY <2>1
  <2>2. CASE EndShift
    <3>1. object'.items = object.items
      BY <1>1, <2>2 DEF EndShift
    <3> QED
      BY <3>1
  <2>3. CASE Shift /\ object' # object
    <3> DEFINE item == object.cells[NextCell]
    <3>1. object' = [object EXCEPT !.items[item].cell = shift.i, !.cells[shift.i] = item]
      BY <2>3 DEF Shift
    <3> HIDE DEF item
    <3>2. object'.items = [object.items EXCEPT ![item].cell = shift.i]
      BY <1>1, <3>1
    <3>3. \A k \in DOMAIN object.items : object.items[k] \in Item
      BY <1>1
    <3> QED
      BY <3>2, <3>3 DEF Item
  <2> QED
    BY <2>1, <2>2, <2>3
<1>3. Entries(object') = Entries(object)
  BY <1>1, <1>2, SameEntries
<1> QED
  BY <1>3, SameMap DEF Shift, EndShift

\* Clearing empties the map.
LEMMA ClearMaps == ASSUME json_object_clear PROVE Map!Next
<1>1. object' = Table(object.capacity)
  BY DEF json_object_clear
<1>2. object'.items = <<>> /\ DOMAIN object'.items = {}
  BY <1>1 DEF Table
<1>3. \A name \in Names : Entries(object')[name] = NULL
  BY <1>2, EntryOfNone DEF Absent
<1>4. content' = [name \in Names |-> NULL]
  BY <1>3, EntriesMap, ContentIs
<1>5. Map!Clear
  BY <1>4 DEF Map!Clear, Map!Answer, json_object_clear, Answer
<1> QED
  BY <1>5 DEF Map!Next

\* Every step is a step of the map, or none.
LEMMA NextMaps == IInv /\ [Next]_vars => [Map!Next]_Map!vars
<1> SUFFICES ASSUME IInv, [Next]_vars PROVE [Map!Next]_Map!vars
  OBVIOUS
<1>1. IInv'
  BY NextIInv
<1>2. ASSUME NEW name \in Names, pc = "ready", ~Found(object, name)
      PROVE  Absent(object, name) /\ Sound(object, {})
  BY <1>2, WhenReady, NotFoundAbsent
<1>3. ASSUME NEW op \in {"set", "add"}, NEW name \in Names, NEW value \in Values,
             PutNew(op, name, value)
      PROVE  Map!Next
  <2>1. PlaceIn(object, op, name, value) /\ Absent(object, name) /\ Sound(object, {})
    BY <1>2, <1>3 DEF PutNew
  <2> QED
    BY <2>1, PlaceInMaps, ContentIs
<1>4. ASSUME NEW op \in {"set", "add"}, NEW name \in Names, NEW value \in Values,
             Grow(op, name, value)
      PROVE  [Map!Next]_Map!vars
  <2>1. Absent(object, name)
    BY <1>2, <1>4 DEF Grow
  <2>2. UNCHANGED <<object, answer>> \/ Refuse(op, name)
    BY <1>4 DEF Grow
  <2>3. CASE UNCHANGED <<object, answer>>
    BY <2>3, SameMap
  <2>4. CASE Refuse(op, name)
    BY <2>1, <2>4, RefuseMaps
  <2> QED
    BY <2>2, <2>3, <2>4
<1>5. ASSUME NEW name \in Names, NEW value \in Values, Replace(name, value)
      PROVE  Map!Next
  BY <1>5, ReplaceMaps
<1>6. ASSUME NEW name \in Names, AddTwice(name)
      PROVE  Map!Next
  BY <1>6, RefuseMaps DEF AddTwice
<1>7. ASSUME NEW name \in Names, RemoveMissing(name)
      PROVE  Map!Next
  <2>1. Absent(object, name) /\ Refuse("remove", name)
    BY <1>2, <1>7 DEF RemoveMissing
  <2> QED
    BY <2>1, RefuseMaps
<1>8. ASSUME NEW name \in Names, Remove(name)
      PROVE  Map!Next
  BY <1>8, RemoveMaps
<1>9. CASE Rehash
  BY <1>9, SameMap DEF Rehash
<1>10. CASE EndGrow
  BY <1>10, EndGrowMaps
<1>11. CASE Shift \/ EndShift
  BY <1>1, <1>11, ShiftMaps
<1>12. CASE json_object_clear
  BY <1>12, ClearMaps
<1>13. CASE UNCHANGED vars
  BY <1>13, SameMap DEF vars
<1> QED
  BY <1>3, <1>4, <1>5, <1>6, <1>7, <1>8, <1>9, <1>10, <1>11, <1>12, <1>13 DEF Next

\* Nothing is in the map to begin with.
LEMMA InitMaps == Init => Map!Init
<1> SUFFICES ASSUME Init PROVE Map!Init
  OBVIOUS
<1>1. DOMAIN object.items = {}
  BY DEF Init, Table
<1>2. \A name \in Names : Entries(object)[name] = NULL
  BY <1>1, EntryOfNone DEF Absent
<1>3. content = [name \in Names |-> NULL]
  BY <1>2, EntriesMap, ContentIs
<1> QED
  BY <1>3 DEF Map!Init, Map!Answer, Init

\* Through growth and the shifting of cells, step by step, the table does what a
\* map does, and an operation that finds no memory leaves every entry as it was.
THEOREM TableIsMap == Spec => MapSpec
<1>1. Init => Map!Init
  BY InitMaps
<1>2. IInv /\ [Next]_vars => [Map!Next]_Map!vars
  BY NextMaps
<1> QED
  BY <1>1, <1>2, Invariance, PTL DEF Spec, MapSpec, Map!Spec
=============================================================================
