------------------------------ MODULE JsonObject ------------------------------
(***************************************************************************)
(* parson.c's JSON_Object: a hash table with open addressing.  The items   *)
(* stand without gaps in parallel arrays (names, values, cell_ixs: here    *)
(* one sequence of records); the cells hold item numbers and are found by  *)
(* probing from the hash on.  A table that is full to 7/10 is copied into  *)
(* one of twice the size, and a removal moves later cells back, so that no *)
(* probe stops short.  The loops of both are taken step by step.           *)
(*                                                                         *)
(* Items are numbered from 1, and 0 stands for OBJECT_INVALID_IX.          *)
(***************************************************************************)
EXTENDS Naturals, Sequences

CONSTANTS
    Names, Values, NULL,
    Hash,        \* what hash_string makes of each name
    Starting,    \* STARTING_CAPACITY (16)
    MaxCells     \* the largest table there is memory for (bounds the growth)

ASSUME HashAssumption == Hash \in [Names -> Nat]
ASSUME StartingAssumption == Starting \in {2, 4, 8, 16}
ASSUME MaxCellsAssumption == MaxCells \in Nat
ASSUME NullAssumption == NULL \notin Names \cup Values

VARIABLES
    object,      \* [capacity, items, cells]: the table the caller holds
    fresh,       \* the larger table being filled
    pending,     \* the operation that waits for the table to grow
    shift,       \* i, j and x of json_object_remove_internal's last loop
    pc,          \* "ready", "growing" or "shifting"
    answer       \* the last operation, and whether it succeeded (see JsonMap)

vars == <<object, fresh, pending, shift, pc, answer>>

-----------------------------------------------------------------------------

\* A slip: the loop that empties the cells goes one too far.
Table_OneMore(capacity) == [capacity |-> capacity, items |-> <<>>,
                            cells |-> [ix \in 0..capacity |-> 0]]

\* json_object_init: a table of that many empty cells.
Table(capacity) == [capacity |-> capacity, items |-> <<>>,
                    cells |-> [ix \in 0..(capacity - 1) |-> 0]]

\* A slip: room for as many items as there are cells.
item_capacity_Full(table) == table.capacity

item_capacity(table) == (table.capacity * 7) \div 10

Occupied(table) == {ix \in DOMAIN table.cells : table.cells[ix] # 0}

\* The i-th cell that json_object_get_cell_ix looks at: the capacity is a power
\* of two, so that the mask is a remainder.
ProbeAt(table, name, i) == (Hash[name] + i) % table.capacity

Holds(table, ix, name) ==
    table.cells[ix] # 0 /\ table.items[table.cells[ix]].name = name

\* A slip: the search ends at the first cell whatever it holds.
StopsAt_First(table, name, ix) ==
    table.capacity > 0 /\ ix = ProbeAt(table, name, 0)

\* json_object_get_cell_ix returns ix: the first cell on the way that is empty
\* or holds the name.  (hashes[i] is Hash[names[i]] and adds nothing here.)
StopsAt(table, name, ix) ==
    \E i \in 0..(table.capacity - 1) :
        /\ ix = ProbeAt(table, name, i)
        /\ table.cells[ix] = 0 \/ Holds(table, ix, name)
        /\ \A j \in 0..(i - 1) :
              LET passed == ProbeAt(table, name, j) IN
              table.cells[passed] # 0 /\ ~Holds(table, passed, name)

Found(table, name) ==
    \E ix \in Occupied(table) : StopsAt(table, name, ix)

\* A slip: the new item does not remember its cell.
Inserted_Adrift(table, ix, name, value) ==
    [table EXCEPT
        !.items = Append(@, [name |-> name, value |-> value, cell |-> 0]),
        !.cells[ix] = Len(table.items) + 1]

Inserted(table, ix, name, value) ==
    [table EXCEPT
        !.items = Append(@, [name |-> name, value |-> value, cell |-> ix]),
        !.cells[ix] = Len(table.items) + 1]

-----------------------------------------------------------------------------

Init ==
    /\ object = Table(0)
    /\ fresh = Table(0)
    /\ pending = NULL
    /\ shift = NULL
    /\ pc = "ready"
    /\ answer = [op |-> "clear", name |-> NULL, ok |-> TRUE]

Answer(op, name, ok) == answer' = [op |-> op, name |-> name, ok |-> ok]

Refuse(op, name) == Answer(op, name, FALSE) /\ UNCHANGED object

\* json_object_set_value of a name that is there.
Replace(name, value) ==
    /\ pc = "ready"
    /\ \E ix \in Occupied(object) :
          /\ StopsAt(object, name, ix)
          /\ object' = [object EXCEPT !.items[object.cells[ix]].value = value]
    /\ Answer("set", name, TRUE)
    /\ UNCHANGED <<fresh, pending, shift, pc>>

\* json_object_add of a name that is there.
AddTwice(name) ==
    /\ pc = "ready"
    /\ Found(object, name)
    /\ Refuse("add", name)
    /\ UNCHANGED <<fresh, pending, shift, pc>>

\* A new name gets a cell of the table; json_object_set_value first copies the
\* name, for which there may be no memory.
PlaceIn(table, op, name, value) ==
    \/ /\ \E ix \in DOMAIN table.cells :
             /\ StopsAt(table, name, ix)
             /\ object' = Inserted(table, ix, name, value)
       /\ Answer(op, name, TRUE)
    \/ /\ op = "set"
       /\ object' = table
       /\ Answer(op, name, FALSE)

Full == Len(object.items) >= item_capacity(object)

PutNew(op, name, value) ==
    /\ pc = "ready"
    /\ ~Found(object, name)
    /\ ~Full
    /\ PlaceIn(object, op, name, value)
    /\ UNCHANGED <<fresh, pending, shift, pc>>

\* json_object_grow_and_rehash: allocate the larger table, or give up.
Grow(op, name, value) ==
    LET doubled == 2 * object.capacity
        capacity == IF doubled > Starting THEN doubled ELSE Starting
    IN
    /\ pc = "ready"
    /\ ~Found(object, name)
    /\ Full
    /\ \/ /\ capacity <= MaxCells
          /\ fresh' = Table(capacity)
          /\ pending' = [op |-> op, name |-> name, value |-> value]
          /\ pc' = "growing"
          /\ UNCHANGED <<object, answer>>
       \/ /\ Refuse(op, name)
          /\ UNCHANGED <<fresh, pending, pc>>
    /\ UNCHANGED shift

\* A slip: the items keep the cells they had.
Rehash_SameCell ==
    /\ pc = "growing"
    /\ Len(fresh.items) < Len(object.items)
    /\ LET item == object.items[Len(fresh.items) + 1] IN
       fresh' = Inserted(fresh, item.cell, item.name, item.value)
    /\ UNCHANGED <<object, pending, shift, pc, answer>>

\* Its loop: one item more is added to the larger table.
Rehash ==
    /\ pc = "growing"
    /\ Len(fresh.items) < Len(object.items)
    /\ LET item == object.items[Len(fresh.items) + 1] IN
       \E ix \in DOMAIN fresh.cells :
          /\ StopsAt(fresh, item.name, ix)
          /\ fresh' = Inserted(fresh, ix, item.name, item.value)
    /\ UNCHANGED <<object, pending, shift, pc, answer>>

\* The larger table takes over, and the name is looked up again in it.
EndGrow ==
    /\ pc = "growing"
    /\ Len(fresh.items) = Len(object.items)
    /\ PlaceIn(fresh, pending.op, pending.name, pending.value)
    /\ fresh' = Table(0)
    /\ pending' = NULL
    /\ pc' = "ready"
    /\ UNCHANGED shift

-----------------------------------------------------------------------------

RemoveMissing(name) ==
    /\ pc = "ready"
    /\ ~Found(object, name)
    /\ Refuse("remove", name)
    /\ UNCHANGED <<fresh, pending, shift, pc>>

\* The last item takes the place of the removed one.
Removed(table, item) ==
    LET last == Len(table.items) IN
    [table EXCEPT
        !.items = [k \in 1..(last - 1) |->
                      IF k = item THEN table.items[last] ELSE table.items[k]],
        !.cells[table.items[last].cell] = IF item < last THEN item ELSE @]

Remove(name) ==
    /\ pc = "ready"
    /\ \E ix \in Occupied(object) :
          /\ StopsAt(object, name, ix)
          /\ object' = Removed(object, object.cells[ix])
          /\ shift' = [i |-> ix, j |-> ix, x |-> 0]
    /\ pc' = "shifting"
    /\ Answer("remove", name, TRUE)
    /\ UNCHANGED <<fresh, pending>>

\* The item of cell j, at home in cell k, may fill the hole i: its home does not
\* lie behind the hole.
MovesBack(i, j, k) ==
    \/ j > i /\ (k <= i \/ k > j)
    \/ j < i /\ (k <= i /\ k > j)

NextCell == (shift.j + 1) % object.capacity

GoesOn ==
    /\ shift.x < object.capacity - 1
    /\ object.cells[NextCell] # 0

Shift ==
    /\ pc = "shifting"
    /\ GoesOn
    /\ LET i == shift.i
           item == object.cells[NextCell]
           home == Hash[object.items[item].name] % object.capacity
       IN
       IF MovesBack(i, NextCell, home)
       THEN /\ object' = [object EXCEPT !.items[item].cell = i, !.cells[i] = item]
            /\ shift' = [i |-> NextCell, j |-> NextCell, x |-> shift.x + 1]
       ELSE /\ shift' = [shift EXCEPT !.j = NextCell, !.x = @ + 1]
            /\ UNCHANGED object
    /\ UNCHANGED <<fresh, pending, pc, answer>>

EndShift ==
    /\ pc = "shifting"
    /\ ~GoesOn
    /\ object' = [object EXCEPT !.cells[shift.i] = 0]
    /\ shift' = NULL
    /\ pc' = "ready"
    /\ UNCHANGED <<fresh, pending, answer>>

json_object_clear ==
    /\ pc = "ready"
    /\ object' = Table(object.capacity)
    /\ Answer("clear", NULL, TRUE)
    /\ UNCHANGED <<fresh, pending, shift, pc>>

Next ==
    \/ \E op \in {"set", "add"}, name \in Names, value \in Values :
          PutNew(op, name, value) \/ Grow(op, name, value)
    \/ \E name \in Names, value \in Values : Replace(name, value)
    \/ \E name \in Names : AddTwice(name) \/ Remove(name) \/ RemoveMissing(name)
    \/ Rehash \/ EndGrow \/ Shift \/ EndShift \/ json_object_clear

Spec == Init /\ [][Next]_vars

-----------------------------------------------------------------------------

Item == [name : Names, value : Values, cell : Nat]

IsTable(table) ==
    /\ table.items \in Seq(Item)
    /\ table.cells \in [0..(table.capacity - 1) -> 0..(Len(table.items) + 1)]

\* Both tables, the pending operation and the loop's variables are what their
\* declarations in parson.c say.
TypeOK ==
    /\ IsTable(object) /\ IsTable(fresh)
    /\ pending \in {NULL} \cup
          [op : {"set", "add"}, name : Names, value : Values]
    /\ shift \in {NULL} \cup [i : Nat, j : Nat, x : Nat]
    /\ pc \in {"ready", "growing", "shifting"}

InItsCell(table, k) ==
    /\ table.items[k].cell \in DOMAIN table.cells
    /\ table.cells[table.items[k].cell] = k

Findable(table) ==
    \A k \in DOMAIN table.items :
        InItsCell(table, k) /\ StopsAt(table, table.items[k].name, table.items[k].cell)

\* Between operations json_object_get_cell_ix finds every item of the object in
\* the cell the item remembers, however insertions, removals and growth have
\* moved cells and items about; the same holds of the table being filled.
EveryItemFound == (pc = "ready" => Findable(object)) /\ Findable(fresh)

\* While a removal moves cells back, every item is in the cell it remembers, no
\* two items have a name in common, and every occupied cell but the hole holds
\* the item that remembers it: nothing is lost half way.
NothingLost ==
    /\ \A k \in DOMAIN object.items : InItsCell(object, k)
    /\ \A k, l \in DOMAIN object.items :
          object.items[k].name = object.items[l].name => k = l
    /\ \A ix \in Occupied(object) :
          \/ pc = "shifting" /\ ix = shift.i
          \/ \E k \in DOMAIN object.items :
                object.cells[ix] = k /\ object.items[k].cell = ix

\* A free cell is always left, in the object and in the table being filled.  So
\* a search ends before it comes round, and json_object_add never writes to the
\* cell OBJECT_INVALID_IX.
NeverFull ==
    \A table \in {object, fresh} :
        table.capacity > 0 => Len(table.items) < table.capacity

-----------------------------------------------------------------------------

\* What the object stands for: the value of the item of that name.
content ==
    [name \in Names |->
        LET at == {k \in DOMAIN object.items : object.items[k].name = name}
        IN IF at = {} THEN NULL ELSE object.items[CHOOSE k \in at : TRUE].value]

Map == INSTANCE JsonMap

\* The table, with its growth and its shifting of cells, does what a map does:
\* set replaces, add and remove succeed exactly when they should, and an
\* operation that runs out of memory leaves every entry as it was.
MapSpec == Map!Spec
=============================================================================
