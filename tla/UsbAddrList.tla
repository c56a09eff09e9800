----------------------------- MODULE UsbAddrList -----------------------------
(***************************************************************************)
(* Lists of USB addresses (usbcommon.go).  An address is a pair of a bus   *)
(* and an address on the bus; indices are those of Go, from 0.             *)
(***************************************************************************)
EXTENDS Integers, Sequences, SequencesExt

Less(addr, addr2) ==
  \/ addr[1] < addr2[1]
  \/ addr[1] = addr2[1] /\ addr[2] < addr2[2]

\* sort.Search as Add and Find call it: the binary search for the smallest
\* index whose item is not less than addr, which supposes a sorted list.
Search(list, addr) ==
  LET search[r \in (0..Len(list)) \X (0..Len(list))] ==
        LET i == r[1]
            j == r[2]
            h == (i + j) \div 2
        IN  IF i >= j THEN i
            ELSE IF Less(list[h + 1], addr) THEN search[<<h + 1, j>>]
            ELSE search[<<i, h>>]
  IN  search[<<0, Len(list)>>]

\* Insertion at index i moves the item that was there to the end.
Add(list, addr) ==
  LET i == Search(list, addr)
  IN  IF i = Len(list) THEN Append(list, addr)
      ELSE IF list[i + 1] = addr THEN list
      ELSE [Append(list, list[i + 1]) EXCEPT ![i + 1] = addr]

Find(list, addr) ==
  LET i == Search(list, addr)
  IN  IF i < Len(list) /\ list[i + 1] = addr THEN i ELSE -1

\* The items of list2 that are not found in list, in the order of Add.
Missing(list, list2) ==
  FoldLeft(LAMBDA res, a : IF Find(list, a) < 0 THEN Add(res, a) ELSE res,
           <<>>, list2)

Diff(list, list2) ==
  [added |-> Missing(list, list2), removed |-> Missing(list2, list)]
=============================================================================
