----------------------------- MODULE Pagination -----------------------------
(***************************************************************************)
(* The arithmetic of TransactionsService.findAll: which rows of a          *)
(* merchant's list, newest first, make up a page and how many pages there  *)
(* are.                                                                    *)
(***************************************************************************)
EXTENDS Integers

\* Mutant: pages counted from zero.
SkipFromZero(page, limit) == page * limit

\* The rows passed over before the page.
Skip(page, limit) == (page - 1) * limit

\* OFFSET skip LIMIT limit: position i of the list is on the page.
OnPage(i, page, limit) == Skip(page, limit) < i /\ i <= Skip(page, limit) + limit

\* Mutant: Math.floor.
TotalPagesFloor(total, limit) == total \div limit

\* Math.ceil(total / limit).
TotalPages(total, limit) == (total + limit - 1) \div limit
=============================================================================
