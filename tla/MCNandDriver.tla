---------------------------- MODULE MCNandDriver ----------------------------
(***************************************************************************)
(* Module NandDriver for TLC: a block of two pages, and every kind of call *)
(* on them.                                                                *)
(***************************************************************************)
EXTENDS NandDriver

CONSTANTS t1, t2, d

MCThreads == {t1}
MCTwoThreads == {t1, t2}
MCData == {d}

Row(b, p) == <<b, p>>
Both(main, spare) == [p \in Parts |-> IF p = "main" THEN main ELSE spare]

\* A page read or written, or read here and written there.
At(r, data) == [from |-> r, to |-> r, data |-> data]
FromTo(r, s) == [from |-> r, to |-> s, data |-> Erased]

Call(kind, steps, parts, dma) ==
  [kind |-> kind, steps |-> steps, parts |-> parts, dma |-> dma]

\* page_read, extra_bytes_get, and pages_read of a page with its spare.
Reads(rows) ==
  UNION {{Call("read", <<At(r, Erased)>>, {"main"}, TRUE),
          Call("read", <<At(r, Erased)>>, {"spare"}, FALSE)} : r \in rows}

Writes(rows) ==
  UNION {{Call("write", <<At(r, Both(d, FF))>>, {"main"}, TRUE),
          Call("write", <<At(r, Both(FF, d))>>, {"spare"}, FALSE)} :
         r \in rows}

Erases(blocks) ==
  {Call("erase", <<At(Row(b, 0), Erased)>>, {}, FALSE) : b \in blocks}

\* block_erase_verify: the first and the last page.
Verifies(blocks) ==
  {Call("verify", <<At(Row(b, 0), Erased), At(Row(b, BLOCK_PAGES - 1), Erased)>>,
        {"main"}, TRUE) : b \in blocks}

First == Row(0, 0)
Second == Row(0, 1)

\* One thread: both pages of a block, one by one and together, and a copy.
MCOps ==
  Reads({First, Second}) \cup Writes({First, Second}) \cup Erases({0})
    \cup Verifies({0})
    \cup {Call("read", <<At(First, Erased), At(Second, Erased)>>,
               {"main", "spare"}, TRUE),
          Call("write", <<At(First, Both(d, d)), At(Second, Both(d, d))>>,
               {"main", "spare"}, TRUE),
          Call("copy", <<FromTo(First, Second)>>, {}, FALSE)}

MCReads == Reads({First, Second}) \cup Writes({First})
MCOneBlock == {0}
=============================================================================
