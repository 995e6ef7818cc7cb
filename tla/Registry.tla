------------------------------- MODULE Registry -------------------------------
(***************************************************************************)
(* What mcp::Server lists (src/src/server.cpp): tools, resources and prompts   *)
(* in hash maps, resource templates and tasks in the order they were added;  *)
(* and a client that reads one list page by page while the application goes   *)
(* on registering.                                                          *)
(*                                                                         *)
(* A cursor is an offset, sent as a string of digits, and sums are those of   *)
(* std::size_t.  A request is one step: the list is copied under its lock      *)
(* and the page cut from the copy.                                          *)
(***************************************************************************)
EXTENDS Integers

CONSTANTS
  Maps,       \* the lists that are hash maps
  Logs,       \* those that grow at the end
  Stored,     \* of these, the task store, which has its own code for pages
  MaxItems,   \* bound on the items of a list
  PageSizes,  \* what set_page_size() may have been given
  Word        \* std::size_t is 0 .. Word - 1

Lists == Maps \cup Logs
Items == 1 .. MaxItems

ASSUME ListsAssumption == Maps \cap Logs = {} /\ Stored \subseteq Logs
ASSUME MaxItemsAssumption == MaxItems \in Nat
\* A list of objects fills at most half of the addresses.
ASSUME WordAssumption == Word \in Nat /\ 2 * MaxItems < Word
ASSUME PageSizesAssumption == PageSizes \subseteq 0 .. Word - 1

VARIABLES
  size,       \* of each list
  place,      \* where an iteration of a list comes to an item; 0: not in it
  pageSize,   \* page_size_
  pc,         \* of the client that reads a list
  reading,    \* which one
  cursor,     \* where its next page begins
  begun,      \* the items that were there when it began
  mixed,      \* a hash map has got a new key since
  seen        \* how often it has been given an item

readerVars == <<pc, reading, cursor, begun, seen>>
registryVars == <<size, place, pageSize, mixed, readerVars>>

Content(l) == {x \in Items : place[l][x] # 0}

RegistryTypeOK ==
  /\ size \in [Lists -> 0 .. MaxItems]
  /\ place \in [Lists -> [Items -> 0 .. MaxItems]]
  /\ pageSize \in PageSizes
  /\ pc \in {"idle", "paging", "done", "failed"}
  /\ reading \in Lists
  /\ cursor \in 0 .. MaxItems
  /\ begun \subseteq Items
  /\ mixed \in BOOLEAN
  /\ seen \in [Items -> Nat]

RegistryInit ==
  /\ size = [l \in Lists |-> 0]
  /\ place = [l \in Lists |-> [x \in Items |-> 0]]
  /\ pageSize \in PageSizes
  /\ pc = "idle" /\ reading \in Lists
  /\ cursor = 0 /\ begun = {} /\ mixed = FALSE
  /\ seen = [x \in Items |-> 0]

------------------------------------------------------------------------------
(* Registration *)

\* The orders in which a hash map of n keys, the ones in S, can be iterated.
Orders(S, n) ==
  {f \in [Items -> 0 .. n] :
     /\ \A x \in Items : f[x] # 0 <=> x \in S
     /\ \A x, y \in S : f[x] = f[y] => x = y}

\* Mutant: an entry that is replaced is erased and inserted again.
RegisterMoves(l, x) ==
  LET n == IF x \in Content(l) THEN size[l] ELSE size[l] + 1 IN
  /\ size' = [size EXCEPT ![l] = n]
  /\ \E f \in Orders(Content(l) \cup {x}, n) : place' = [place EXCEPT ![l] = f]
  /\ mixed' = (mixed \/ (l = reading /\ x \notin Content(l)))
  /\ UNCHANGED <<pageSize, readerVars>>

\* tool(), resource(), prompt(): a new key may change the order of the hash map,
\* and one that is there keeps its place.
Register(l, x) ==
  /\ \/ x \in Content(l) /\ UNCHANGED <<size, place, mixed>>
     \/ /\ x \notin Content(l)
        /\ size' = [size EXCEPT ![l] = @ + 1]
        /\ \E f \in Orders(Content(l) \cup {x}, size[l] + 1) :
             place' = [place EXCEPT ![l] = f]
        /\ mixed' = (mixed \/ l = reading)
  /\ UNCHANGED <<pageSize, readerVars>>

\* resource_template(), TaskStore::create
Add(l) ==
  /\ size[l] < MaxItems
  /\ size' = [size EXCEPT ![l] = @ + 1]
  /\ place' = [place EXCEPT ![l][size[l] + 1] = size[l] + 1]
  /\ UNCHANGED <<pageSize, mixed, readerVars>>

------------------------------------------------------------------------------
(* Pages *)

Sum(a, b) == (a + b) % Word

\* paginate(): the end of the page that begins at offset, of n items.
PageEnd(n, offset) ==
  IF pageSize = 0 \/ Sum(offset, pageSize) >= n THEN n ELSE Sum(offset, pageSize)

\* The same in TaskStore::list.
ListEnd(n, offset) ==
  IF pageSize = 0 \/ n < Sum(offset, pageSize) THEN n ELSE Sum(offset, pageSize)

End(l, offset) ==
  IF l \in Stored THEN ListEnd(size[l], offset) ELSE PageEnd(size[l], offset)

\* decode_cursor() and its like in TaskStore::list.  A cursor is absent, or it
\* is a number that fits a word or does not, or it has more digits than any such
\* number has, zeros in front, or it is no number.
Cursors ==
  [form : {"absent", "text"}, value : {0}]
    \cup [form : {"digits", "padded"}, value : 0 .. 2 * Word]

Valid(l, c) ==
  \/ c.form = "absent"
  \/ c.form = "digits" /\ c.value < Word
  \/ c.form = "padded" /\ c.value < Word /\ l \in Stored

\* What a list request does: an error, or a page of the places from .. to.  A
\* page whose end has wrapped is a vector of negative length.
Reply(l, c) ==
  LET end == End(l, c.value) IN
  IF ~Valid(l, c) THEN [is |-> "invalid params", from |-> 0, to |-> 0]
  ELSE IF c.value >= size[l] THEN [is |-> "last", from |-> 1, to |-> 0]
  ELSE [is |-> IF end < c.value THEN "internal error"
               ELSE IF end < size[l] THEN "more" ELSE "last",
        from |-> c.value + 1, to |-> end]

------------------------------------------------------------------------------
(* A client reads a list *)

Begin(l) ==
  /\ pc = "idle"
  /\ pc' = "paging" /\ reading' = l
  /\ begun' = Content(l) /\ mixed' = FALSE
  /\ UNCHANGED <<size, place, pageSize, cursor, seen>>

\* The cursor a client sends is the one it was given, and none at first.
Own == [form |-> IF cursor = 0 THEN "absent" ELSE "digits", value |-> cursor]

\* Mutant: the next cursor is the present one.
SamePage ==
  LET r == Reply(reading, Own) IN
  /\ pc = "paging"
  /\ pc' = IF r.is = "more" THEN "paging" ELSE "done"
  /\ UNCHANGED <<size, place, pageSize, mixed, reading, cursor, begun, seen>>

NextPage ==
  LET r == Reply(reading, Own) IN
  /\ pc = "paging"
  /\ pc' = IF r.is = "more" THEN "paging"
           ELSE IF r.is = "last" THEN "done" ELSE "failed"
  /\ cursor' = IF r.is = "more" THEN r.to ELSE cursor
  /\ seen' = [x \in Items |->
               seen[x] + IF place[reading][x] \in r.from .. r.to THEN 1 ELSE 0]
  /\ UNCHANGED <<size, place, pageSize, mixed, reading, begun>>

RegistryNext ==
  \/ \E l \in Maps, x \in Items : Register(l, x)
  \/ \E l \in Logs : Add(l)
  \/ \E l \in Lists : Begin(l)
  \/ NextPage

RegistrySpec == RegistryInit /\ [][RegistryNext]_registryVars
RegistryFairSpec == RegistrySpec /\ WF_registryVars(NextPage)

------------------------------------------------------------------------------
(* Properties *)

\* A client that follows the cursors is given every item that was there when it
\* began exactly once, whatever is added behind it; in a hash map, as long as no
\* new key makes the order change under it.
AllSeenOnce ==
  (pc = "done" /\ (reading \in Logs \/ ~mixed)) => \A x \in begun : seen[x] = 1

\* It is never refused: its cursors are valid, and no sum wraps for them,
\* whatever the page size.
OwnCursorsServed == pc # "failed"

\* What a page may be: no more than page_size_ items, all of them of the list,
\* and a next cursor that is beyond it; a refusal says why.
Within(l, c, r) ==
  /\ r.is = "more" => /\ r.from .. r.to \subseteq 1 .. size[l] /\ r.to > c.value
                      /\ pageSize # 0 /\ r.to - c.value = pageSize
  /\ r.is = "last" => /\ r.from .. r.to \subseteq 1 .. size[l]
                      /\ pageSize # 0 => r.to - c.value <= pageSize
  /\ r.is = "internal error" => c.value + pageSize >= Word
  /\ r.is = "invalid params" => ~Valid(l, c)

\* For any cursor, a client's own or one it made up, a page holds no more than
\* page_size_ items, all of them of the list, and the next cursor is beyond it;
\* it is refused only if it is malformed or the sum wraps around.
PagesWithinList ==
  \A l \in Lists : \A c \in Cursors : Within(l, c, Reply(l, c))

\* Reading ends, whatever is registered meanwhile and whatever the page size, and
\* without a refusal.
ReadingEnds == (pc = "paging") ~> (pc = "done")
=============================================================================
