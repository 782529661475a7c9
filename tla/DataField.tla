------------------------------ MODULE DataField ------------------------------
(***************************************************************************)
(* f1g_data_op.c: a line is split into items that keep their memory from   *)
(* line to line.  An item is the text its memory holds up to the NUL, and  *)
(* the size of that memory; a data field is its table of items and their   *)
(* number.  Allocations succeed.                                           *)
(***************************************************************************)
EXTENDS BasicFuncs

ZeroItem == [size |-> 0, data |-> <<>>]
\* An entry behind a grown table: size and pointer are what malloc left there.
JunkItem == [size |-> -1, data |-> <<>>]

data_field_init(item_size, item_buf_size) ==
    [item_num |-> 0,
     items |-> [i \in 1 .. item_size |->
                  [ZeroItem EXCEPT !.size = IF item_buf_size > 0
                                            THEN item_buf_size ELSE 0]]]

\* Old memory is freed, new memory of the size taken.
data_field_set_item_size(df, seq, item_buf_size) ==
    [df EXCEPT !.items[seq] =
        [size |-> IF item_buf_size > 0 THEN item_buf_size ELSE 0, data |-> <<>>]]

\* Mutant: the items stay, and the next line's are added to them.
CleanKeepsItems(df) ==
    [df EXCEPT !.items = [i \in DOMAIN @ |->
                            IF i <= df.item_num /\ @[i].size > 0
                            THEN [@[i] EXCEPT !.data = <<>>] ELSE @[i]]]

\* The texts of the items in use are emptied, their memory is kept.
data_field_clean_items(df) ==
    [item_num |-> 0,
     items |-> [i \in DOMAIN df.items |->
                  IF i <= df.item_num
                  THEN [df.items[i] EXCEPT !.data = <<>>] ELSE df.items[i]]]

\* The table grows by four entries that nobody initialises; the old table is
\* not freed.
Grown(df) ==
    IF df.item_num < Len(df.items) THEN df
    ELSE [df EXCEPT !.items = @ \o [i \in 1 .. 4 |-> JunkItem]]

\* An entry with a junk size, or a junk pointer to free, ends the program
\* unless the memory was zero: the caller chooses.
AddsToJunk(df) ==
    IF df.item_num >= Len(df.items) THEN TRUE
    ELSE df.items[df.item_num + 1] = JunkItem

data_field_add_item(df, text) ==
    LET g == Grown(df)
        seq == g.item_num + 1
        sized == IF g.items[seq].size <= Len(text) + 1
                 THEN data_field_set_item_size(g, seq, Len(text) + 2) ELSE g
    IN  [sized EXCEPT !.items[seq].data = text, !.item_num = @ + 1]

\* One round of data_field_read_buf from pb: the next separator, NULL if there
\* is none.  The code does not test for NULL.
NextSep(s, pb, pe, sep) == find_str(s, pb, pe, sep)

\* data_field_get_str, the text of an item that is there.
HasItem(df, seq) == seq < df.item_num
data_field_get_str(df, seq) == df.items[seq + 1].data
=============================================================================
