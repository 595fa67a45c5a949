--------------------------- MODULE MCInPlaceFaults ---------------------------
(* A small instance of InPlaceFaults.                                      *)
EXTENDS InPlaceFaults

CONSTANTS
  p, q, r,  \* paths, in this order
  small,    \* one page of one payload cell
  large     \* two pages, the second of which compresses to nothing

MCRank == [n \in Path |-> IF n = p THEN 1 ELSE IF n = q THEN 2 ELSE 3]
MCPayload == [c \in Content |-> IF c = small THEN <<1>> ELSE <<1, 0>>]

\* Two instances in one: three paths and files of one page, or two paths and
\* files of either content.
Catalogs ==
  {rcat, wcat} \cup {disk[i].catalog : i \in {k \in Cells : disk[k].kind = "catalog"}}
ThreePaths ==
  \/ pc # "idle" /\ job.call # "close" /\ job.path = r
  \/ \E cat \in Catalogs : cat[r] # NoEntry
LargeFiles ==
  \/ pc = "write_page" /\ job.content = large
  \/ \E i \in Cells : disk[i].kind = "data" /\ disk[i].content = large
  \/ \E cat \in Catalogs : \E n \in Entries(cat) : cat[n].content = large
OneInstance == ~(ThreePaths /\ LargeFiles)
=============================================================================
