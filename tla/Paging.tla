-------------------------------- MODULE Paging --------------------------------
(***************************************************************************)
(* How the search endpoint cuts a result into pages: pages and their size  *)
(* count from 1, a size beyond the maximum is clamped, and a page past the *)
(* end is empty, not an error.                                             *)
(***************************************************************************)
EXTENDS Integers, Sequences

CONSTANT MAX_PAGE_SIZE

ASSUME PagingAssumption == MAX_PAGE_SIZE \in Nat \ {0}

(* Mutant: the client gets the size it asks for.                           *)
Unclamped(size) == size

Clamp(size) == IF size < MAX_PAGE_SIZE THEN size ELSE MAX_PAGE_SIZE

(* Mutant: pages are counted from 0 here and from 1 everywhere else.       *)
FromZero(page, size) == page * size

(* How many items come before the page.                                    *)
Start(page, size) == (page - 1) * size

AtMost(n, m) == IF n < m THEN n ELSE m

(* items[start:end], which ends where the list ends.                       *)
Page(items, page, size) ==
  SubSeq(items, Start(page, size) + 1, AtMost(Start(page, size) + size, Len(items)))
=============================================================================
